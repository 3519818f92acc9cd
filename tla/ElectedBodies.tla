------------------------------ MODULE ElectedBodies ------------------------------
(***************************************************************************)
(* The Elected Urban Local Bodies (EULB) form of one State and year: an     *)
(* uploaded Excel becomes a dataset of one row for each ULB, the State       *)
(* corrects and submits it, PMU decides on the form or on its rows.          *)
(*                                                                         *)
(* What a request reads before it writes is one step, and each of its        *)
(* writes is another; a transaction is one write: those that overlap come to *)
(* what they do one after the other, except two decisions on different       *)
(* rows. PMU has one request at a time here, FcUnspent has what comes of two. *)
(*                                                                         *)
(* The registry of ULBs and the date stay the same meanwhile, so a row is    *)
(* good or not by its content. The form and row histories are inserted in    *)
(* the same transactions and read by no action; they are left out, as are    *)
(* the remarks and the confirmation.                                        *)
(***************************************************************************)
EXTENDS Naturals, FiniteSets

CONSTANTS
  EulbUlb,      \* the registered ULBs; a row is named by its dataset version and its ULB
  EulbRequest,  \* requests under way at a time
  EulbMaxOps,   \* bound on the State's requests
  EulbCasts     \* the scenes of a run: which requests there are, how many of them overlap and how
                \* many the State makes

ASSUME EulbAssumption == EulbMaxOps \in Nat

VARIABLES
  eulbForm,     \* the form
  eulbRow,      \* eulbRow[v][u]: the row of u in dataset version v
  eulbReq,      \* eulbReq[q]: the request q and what it has read
  eulbOps,      \* how many requests the State has begun
  eulbTangled,  \* history variable: see Tangles
  eulbCast      \* the scene, one of EulbCasts, chosen once

eulbVars == <<eulbForm, eulbRow, eulbReq, eulbOps, eulbTangled, eulbCast>>

EulbVersion == 0 .. EulbMaxOps
EulbNumber == 0 .. EulbMaxOps

EulbFormStatus ==
  {"NOT_STARTED", "IN_PROGRESS", "UNDER_REVIEW_BY_PMU", "RETURNED_BY_PMU", "UNDER_REVIEW_BY_MOHUA"}

EulbStateEditable == {"NOT_STARTED", "IN_PROGRESS", "RETURNED_BY_PMU"}

\* "NONE" is null.
EulbRowStatus == {"NONE", "UNDER_REVIEW_BY_PMU", "RETURNED_BY_PMU", "UNDER_REVIEW_BY_MOHUA"}

\* valid is the stored verdict on the row, from the upload it came with, by the last request of
\* the State that wrote its content.
EulbRow ==
  [there : BOOLEAN, status : EulbRowStatus, good : BOOLEAN, valid : BOOLEAN,
   from : EulbNumber, by : EulbNumber]

NoEulbRow ==
  [there |-> FALSE, status |-> "NONE", good |-> FALSE, valid |-> FALSE, from |-> 0, by |-> 0]

Dataset == [EulbUlb -> EulbRow]
NoDataset == [u \in EulbUlb |-> NoEulbRow]

\* The stored counts, as far as they are told apart: rows in error, ULBs without a row, and
\* whether there are as many rows as ULBs.
Summary ==
  [errors : BOOLEAN, missing : BOOLEAN, full : BOOLEAN,
   verdict : {"NOT_VALIDATED", "VALID", "INVALID"}]

NotValidated == [errors |-> FALSE, missing |-> FALSE, full |-> FALSE, verdict |-> "NOT_VALIDATED"]

EulbForm ==
  [status : EulbFormStatus, version : EulbVersion, file : BOOLEAN, summary : Summary,
   batches : SUBSET EulbNumber]

\* A file: the ULBs it has rows for, the bad rows of these, and whether it has other rows, of no
\* registered ULB or of one it has already listed.
Excel == [rows : SUBSET EulbUlb, bad : SUBSET EulbUlb, extra : BOOLEAN]
NoExcel == [rows |-> {}, bad |-> {}, extra |-> FALSE]

EulbStateOp == {"draft", "upload", "revalidate", "delete", "edit", "submit", "post"}
EulbReviewOp == {"approveForm", "rejectForm", "approveRows", "rejectRows"}

EulbReqState ==
  [pc : {"idle", "load", "rows", "count", "form"}, op : EulbStateOp \cup EulbReviewOp,
   version : EulbVersion, status : EulbFormStatus, ulbs : SUBSET EulbUlb, resubmit : BOOLEAN,
   excel : Excel, summary : Summary, number : EulbNumber, stale : BOOLEAN]

IdleEulbReq ==
  [pc |-> "idle", op |-> "draft", version |-> 0, status |-> "NOT_STARTED", ulbs |-> {},
   resubmit |-> FALSE, excel |-> NoExcel, summary |-> NotValidated, number |-> 0, stale |-> FALSE]

EulbTypeOK ==
  /\ eulbForm \in EulbForm
  /\ eulbRow \in [EulbVersion -> Dataset]
  /\ eulbReq \in [EulbRequest -> EulbReqState]
  /\ eulbOps \in EulbNumber
  /\ eulbTangled \in BOOLEAN

EulbInit ==
  /\ eulbForm = [status |-> "NOT_STARTED", version |-> 0, file |-> FALSE,
                 summary |-> NotValidated, batches |-> {}]
  /\ eulbRow = [v \in EulbVersion |-> NoDataset]
  /\ eulbReq = [q \in EulbRequest |-> IdleEulbReq]
  /\ eulbOps = 0
  /\ eulbTangled = FALSE
  /\ eulbCast \in EulbCasts

EulbOpen == {q \in EulbRequest : eulbReq[q].pc # "idle"}
EulbReviewing == {q \in EulbOpen : eulbReq[q].op \in EulbReviewOp}

There(rows) == {u \in EulbUlb : rows[u].there}
ThereIn(rows, statuses) == {u \in There(rows) : rows[u].status \in statuses}
InError(rows) == \E u \in There(rows) : ~rows[u].valid
ActiveRows == eulbRow[eulbForm.version]

\* A draft or an upload has inserted the form.
Inserted(status, version) == status # "NOT_STARTED" \/ version > 0

-----------------------------------------------------------------------------
(* The requests of the State                                               *)

\* A deletion whose rows are gone and whose form is not reset.
HalfDeleted == \E p \in EulbOpen : eulbReq[p].op = "delete" /\ eulbReq[p].pc = "form"

\* The next request of the State, r is what it has read.
Begins(q, op, r) ==
  /\ eulbReq[q].pc = "idle"
  /\ op \in eulbCast.ops /\ Cardinality(EulbOpen) < eulbCast.open
  /\ eulbOps < eulbCast.max /\ eulbOps < EulbMaxOps
  /\ eulbReq' = [eulbReq EXCEPT ![q] =
       [r EXCEPT !.op = op, !.number = eulbOps + 1,
                 !.version = eulbForm.version, !.status = eulbForm.status, !.stale = HalfDeleted]]
  /\ eulbOps' = eulbOps + 1
  /\ UNCHANGED <<eulbForm, eulbRow, eulbTangled, eulbCast>>

\* Requests get entangled: one of the State writes when another one of it has written since it
\* began, or began on half a deletion, or stops half-way, or the rows are replaced while PMU is at
\* work on them.
Tangles(q, replaces) ==
  eulbTangled' =
    \/ eulbTangled
    \/ eulbReq[q].stale
    \/ replaces /\ (eulbForm.status \notin EulbStateEditable \/ EulbReviewing # {})

\* q has written and goes on with r; the State's other requests have read what is no longer so.
Writes(q, r) ==
  eulbReq' = [p \in EulbRequest |->
    IF p = q THEN r
    ELSE IF p \in EulbOpen \ EulbReviewing THEN [eulbReq[p] EXCEPT !.stale = TRUE]
    ELSE eulbReq[p]]

\* saveDraft; a file that is added, replaced or removed is not validated. The form is unique: it
\* cannot be inserted if it has been meanwhile.
ReadDraft(q) ==
  /\ eulbForm.status \in EulbStateEditable
  /\ Begins(q, "draft", [IdleEulbReq EXCEPT !.pc = "form"])

WriteDraft(q) ==
  /\ eulbReq[q].pc = "form" /\ eulbReq[q].op = "draft"
  /\ Inserted(eulbForm.status, eulbForm.version) => Inserted(eulbReq[q].status, eulbReq[q].version)
  /\ \/ eulbForm' = [eulbForm EXCEPT !.status = "IN_PROGRESS"]
     \/ \E file \in BOOLEAN :
          eulbForm' = [eulbForm EXCEPT !.status = "IN_PROGRESS", !.file = file,
                                       !.summary.verdict = "NOT_VALIDATED"]
  /\ Writes(q, IdleEulbReq) /\ Tangles(q, FALSE)
  /\ UNCHANGED <<eulbRow, eulbOps, eulbCast>>

\* assertNoLockedRows
NoLockedRows == ThereIn(ActiveRows, {"UNDER_REVIEW_BY_MOHUA"}) = {}

\* A file that is not empty.
Uploadable(file) == file.bad \subseteq file.rows /\ (file.rows # {} \/ file.extra)

\* validateExcel, whatever the status of the form.
ReadUpload(q, file) ==
  /\ NoLockedRows
  /\ Uploadable(file)
  /\ Begins(q, "upload", [IdleEulbReq EXCEPT !.pc = "form", !.excel = file])

\* Mutant: the version is counted up from what was read, as it was before the $inc.
VersionAfterRead(q) == eulbReq[q].version + 1

\* $inc: { activeDatasetVersion: 1 }
NextVersion(q) == eulbForm.version + 1

EulbVerdict(errors, incomplete) == IF errors \/ incomplete THEN "INVALID" ELSE "VALID"

\* Rows that are of no registered ULB, or repeat one, are errors and do not become rows.
SummaryOf(file) ==
  LET errors == file.bad # {} \/ file.extra
      missing == file.rows # EulbUlb
  IN [errors |-> errors, missing |-> missing, full |-> ~missing /\ ~file.extra,
      verdict |-> EulbVerdict(errors, missing)]

NewRow(q, u) ==
  [there |-> TRUE, status |-> "NONE", good |-> u \notin eulbReq[q].excel.bad,
   valid |-> u \notin eulbReq[q].excel.bad, from |-> eulbReq[q].number, by |-> eulbReq[q].number]

\* The transaction of validateExcel and of revalidateFromStoredFile: the rows of the version before
\* the new one go, and the new rows come in, unique by ULB.
ReplaceDataset(q) ==
  /\ eulbReq[q].pc = "form" /\ eulbReq[q].op \in {"upload", "revalidate"}
  /\ eulbReq[q].excel # NoExcel
  /\ NextVersion(q) \in EulbVersion
  /\ \A u \in eulbReq[q].excel.rows, v \in EulbVersion \ {NextVersion(q) - 1} : ~eulbRow[v][u].there
  /\ eulbForm' = [eulbForm EXCEPT !.version = NextVersion(q),
                                  !.file = @ \/ eulbReq[q].op = "upload",
                                  !.summary = SummaryOf(eulbReq[q].excel)]
  /\ eulbRow' = [eulbRow EXCEPT
       ![NextVersion(q) - 1] = NoDataset,
       ![NextVersion(q)] = [u \in EulbUlb |->
          IF u \in eulbReq[q].excel.rows THEN NewRow(q, u) ELSE @[u]]]
  /\ Writes(q, IdleEulbReq) /\ Tangles(q, TRUE)
  /\ UNCHANGED <<eulbOps, eulbCast>>

\* revalidateExcel: the rows are judged again, or the stored file is read again if there are none.
ReadRevalidate(q, file) ==
  /\ eulbForm.status \in EulbStateEditable
  /\ NoLockedRows
  /\ IF There(ActiveRows) # {}
     THEN /\ file = NoExcel
          /\ Begins(q, "revalidate", [IdleEulbReq EXCEPT !.pc = "rows",
               !.ulbs = There(ActiveRows),
               !.excel.bad = {u \in There(ActiveRows) : ~ActiveRows[u].good}])
     ELSE /\ eulbForm.file /\ Uploadable(file)
          /\ Begins(q, "revalidate", [IdleEulbReq EXCEPT !.pc = "form", !.excel = file])

\* The bulkWrite, by _id, and then what is to be stored on the form.
WriteVerdicts(q) ==
  /\ eulbReq[q].pc = "rows" /\ eulbReq[q].op = "revalidate"
  /\ eulbRow' = [eulbRow EXCEPT ![eulbReq[q].version] = [u \in EulbUlb |->
       IF u \in eulbReq[q].ulbs /\ @[u].there
       THEN [@[u] EXCEPT !.valid = u \notin eulbReq[q].excel.bad] ELSE @[u]]]
  /\ Writes(q, [eulbReq[q] EXCEPT
       !.pc = "form", !.excel = NoExcel,
       !.summary = SummaryOf([eulbReq[q].excel EXCEPT !.rows = eulbReq[q].ulbs])])
  /\ Tangles(q, FALSE)
  /\ UNCHANGED <<eulbForm, eulbOps, eulbCast>>

WriteRevalidated(q) ==
  /\ eulbReq[q].pc = "form" /\ eulbReq[q].op = "revalidate" /\ eulbReq[q].excel = NoExcel
  /\ eulbForm' = [eulbForm EXCEPT !.summary = eulbReq[q].summary]
  /\ Writes(q, IdleEulbReq) /\ Tangles(q, FALSE)
  /\ UNCHANGED <<eulbRow, eulbOps, eulbCast>>

\* deleteUploadedExcel: the rows of the version that was read, approved or not, then the form.
ReadDelete(q) ==
  /\ Inserted(eulbForm.status, eulbForm.version) /\ eulbForm.status \in EulbStateEditable
  /\ Begins(q, "delete", [IdleEulbReq EXCEPT !.pc = "rows"])

DeleteRows(q) ==
  /\ eulbReq[q].pc = "rows" /\ eulbReq[q].op = "delete"
  /\ eulbRow' = [eulbRow EXCEPT ![eulbReq[q].version] = NoDataset]
  /\ Writes(q, [eulbReq[q] EXCEPT !.pc = "form"]) /\ Tangles(q, TRUE)
  /\ UNCHANGED <<eulbForm, eulbOps, eulbCast>>

ResetForm(q) ==
  /\ eulbReq[q].pc = "form" /\ eulbReq[q].op = "delete"
  /\ eulbForm' = [eulbForm EXCEPT !.file = FALSE, !.summary = NotValidated]
  /\ Writes(q, IdleEulbReq) /\ Tangles(q, FALSE)
  /\ UNCHANGED <<eulbRow, eulbOps, eulbCast>>

\* Mutant: only a row under review is closed to the State.
EulbRowNotPending(row) == row.status # "UNDER_REVIEW_BY_PMU"

EulbCanStateEditRow(row) == row.status \in {"NONE", "RETURNED_BY_PMU"}

\* updateRow: also while PMU has the form, the status of the row decides.
ReadEdit(q, u, good) ==
  /\ eulbForm.status \in EulbStateEditable \cup {"UNDER_REVIEW_BY_PMU"}
  /\ u \in There(ActiveRows) /\ EulbCanStateEditRow(ActiveRows[u])
  /\ Begins(q, "edit", [IdleEulbReq EXCEPT !.pc = "rows", !.ulbs = {u},
       !.resubmit = ActiveRows[u].status = "RETURNED_BY_PMU",
       !.excel.bad = IF good THEN {} ELSE {u}])

EditedRow(q, u, row) ==
  [row EXCEPT !.good = u \notin eulbReq[q].excel.bad, !.valid = u \notin eulbReq[q].excel.bad,
              !.by = eulbReq[q].number,
              !.status = IF eulbReq[q].resubmit THEN "UNDER_REVIEW_BY_PMU" ELSE @]

\* A returned row is submitted again with its edit; the form too unless it was found with PMU.
Reopens(q) == eulbReq[q].resubmit /\ eulbReq[q].status # "UNDER_REVIEW_BY_PMU"

WriteRow(q) ==
  /\ eulbReq[q].pc = "rows" /\ eulbReq[q].op = "edit"
  /\ eulbRow' = [eulbRow EXCEPT ![eulbReq[q].version] = [u \in EulbUlb |->
       IF u \in eulbReq[q].ulbs /\ @[u].there THEN EditedRow(q, u, @[u]) ELSE @[u]]]
  /\ eulbForm' = IF Reopens(q) THEN [eulbForm EXCEPT !.status = "UNDER_REVIEW_BY_PMU"] ELSE eulbForm
  /\ Writes(q, [eulbReq[q] EXCEPT !.pc = "count"]) /\ Tangles(q, FALSE)
  /\ UNCHANGED <<eulbOps, eulbCast>>

\* recalculateFormSummary, of the version that was read first.
Recount(q) ==
  /\ eulbReq[q].pc = "count" /\ eulbReq[q].op = "edit"
  /\ LET errors == InError(eulbRow[eulbReq[q].version])
     IN eulbReq' = [eulbReq EXCEPT ![q].pc = "form",
          ![q].summary.errors = errors,
          ![q].summary.verdict = EulbVerdict(errors, eulbForm.summary.missing)]
  /\ UNCHANGED <<eulbForm, eulbRow, eulbOps, eulbTangled, eulbCast>>

WriteRecount(q) ==
  /\ eulbReq[q].pc = "form" /\ eulbReq[q].op = "edit"
  /\ eulbForm' = [eulbForm EXCEPT !.summary.errors = eulbReq[q].summary.errors,
                                  !.summary.verdict = eulbReq[q].summary.verdict]
  /\ Writes(q, IdleEulbReq) /\ Tangles(q, FALSE)
  /\ UNCHANGED <<eulbRow, eulbOps, eulbCast>>

EulbSubmittable(summary) ==
  summary.full /\ summary.verdict = "VALID" /\ ~summary.errors /\ ~summary.missing

\* finalSubmit; the file may come with it.
ReadSubmit(q) ==
  /\ eulbForm.status \in EulbStateEditable
  /\ EulbSubmittable(eulbForm.summary)
  /\ Begins(q, "submit", [IdleEulbReq EXCEPT !.pc = "form"])

CommitSubmit(q) ==
  /\ eulbReq[q].pc = "form" /\ eulbReq[q].op = "submit"
  /\ eulbForm' = [eulbForm EXCEPT !.status = "UNDER_REVIEW_BY_PMU", !.file = TRUE]
  /\ eulbRow' = [eulbRow EXCEPT ![eulbReq[q].version] = [u \in EulbUlb |->
       IF @[u].there /\ EulbCanStateEditRow(@[u])
       THEN [@[u] EXCEPT !.status = "UNDER_REVIEW_BY_PMU"] ELSE @[u]]]
  /\ Writes(q, IdleEulbReq) /\ Tangles(q, FALSE)
  /\ UNCHANGED <<eulbOps, eulbCast>>

\* submitBatch of the post-submission update: rows U, which ones are eligible depends on their
\* dates, are corrected with a document.
ReadPost(q, U) ==
  /\ eulbForm.status \in {"UNDER_REVIEW_BY_PMU", "UNDER_REVIEW_BY_MOHUA"}
  /\ U # {} /\ U \subseteq There(ActiveRows)
  /\ Begins(q, "post", [IdleEulbReq EXCEPT !.pc = "form", !.ulbs = U])

CorrectedRows(q) ==
  [u \in EulbUlb |->
     IF u \in eulbReq[q].ulbs /\ eulbRow[eulbReq[q].version][u].there
     THEN [eulbRow[eulbReq[q].version][u] EXCEPT !.good = TRUE, !.valid = TRUE,
                                                 !.by = eulbReq[q].number]
     ELSE eulbRow[eulbReq[q].version][u]]

CommitPost(q) ==
  /\ eulbReq[q].pc = "form" /\ eulbReq[q].op = "post"
  /\ eulbRow' = [eulbRow EXCEPT ![eulbReq[q].version] = CorrectedRows(q)]
  /\ eulbForm' = [eulbForm EXCEPT
       !.batches = @ \cup {eulbReq[q].number},
       !.summary.errors = InError(CorrectedRows(q)),
       !.summary.verdict = EulbVerdict(InError(CorrectedRows(q)), eulbForm.summary.missing)]
  /\ Writes(q, IdleEulbReq) /\ Tangles(q, FALSE)
  /\ UNCHANGED <<eulbOps, eulbCast>>

-----------------------------------------------------------------------------
(* The reviews of PMU                                                      *)

ReadEulbReview(q, op) ==
  /\ eulbReq[q].pc = "idle"
  /\ "pmu" \in eulbCast.ops /\ Cardinality(EulbOpen) < eulbCast.open
  /\ EulbReviewing = {}
  /\ eulbForm.status = "UNDER_REVIEW_BY_PMU"
  /\ eulbReq' = [eulbReq EXCEPT ![q] = [IdleEulbReq EXCEPT !.pc = "load", !.op = op,
                                                           !.version = eulbForm.version]]
  /\ UNCHANGED <<eulbForm, eulbRow, eulbOps, eulbTangled, eulbCast>>

\* approveCompleteForm wants rows, all of them pending or approved; rejectCompleteForm none approved.
Reviewable(op, rows) ==
  IF op = "approveForm"
  THEN /\ There(rows) # {}
       /\ There(rows) = ThereIn(rows, {"UNDER_REVIEW_BY_PMU", "UNDER_REVIEW_BY_MOHUA"})
  ELSE ThereIn(rows, {"UNDER_REVIEW_BY_MOHUA"}) = {}

\* The rows U to decide: all that are pending, or those that were asked for. What is asked for by
\* a search may be none.
LoadEulbRows(q, U) ==
  LET rows == eulbRow[eulbReq[q].version]
      pending == ThereIn(rows, {"UNDER_REVIEW_BY_PMU"})
  IN /\ eulbReq[q].pc = "load"
     /\ IF eulbReq[q].op \in {"approveForm", "rejectForm"}
        THEN Reviewable(eulbReq[q].op, rows) /\ U = pending
        ELSE U \subseteq pending
     /\ eulbReq' = [eulbReq EXCEPT ![q].pc = "form", ![q].ulbs = U]
     /\ UNCHANGED <<eulbForm, eulbRow, eulbOps, eulbTangled, eulbCast>>

\* transitionRows, by _id.
EulbDecided(q) ==
  [u \in EulbUlb |->
     IF u \in eulbReq[q].ulbs /\ eulbRow[eulbReq[q].version][u].there
     THEN [eulbRow[eulbReq[q].version][u] EXCEPT
            !.status = IF eulbReq[q].op \in {"approveForm", "approveRows"}
                       THEN "UNDER_REVIEW_BY_MOHUA" ELSE "RETURNED_BY_PMU"]
     ELSE eulbRow[eulbReq[q].version][u]]

\* Mutant: the form is settled at the first row that is approved.
SettlesAtOnce(rows) ==
  IF ThereIn(rows, {"UNDER_REVIEW_BY_MOHUA"}) = {} THEN {} ELSE {"UNDER_REVIEW_BY_MOHUA"}

\* resolveSettledFormStatus of getRowStatusTally: rows of no status are not counted.
Settles(rows) ==
  IF ThereIn(rows, {"UNDER_REVIEW_BY_PMU"}) # {} THEN {}
  ELSE IF ThereIn(rows, {"RETURNED_BY_PMU"}) # {} THEN {"RETURNED_BY_PMU"}
  ELSE {"UNDER_REVIEW_BY_MOHUA"}

\* maybeSettleAfterBulkAction, but a rejected form is returned as such.
ReviewOutcome(q) ==
  IF eulbReq[q].op = "rejectForm" THEN {"RETURNED_BY_PMU"} ELSE Settles(EulbDecided(q))

CommitEulbReview(q) ==
  /\ eulbReq[q].pc = "form" /\ eulbReq[q].op \in EulbReviewOp
  /\ eulbRow' = [eulbRow EXCEPT ![eulbReq[q].version] = EulbDecided(q)]
  /\ \/ ReviewOutcome(q) = {} /\ UNCHANGED eulbForm
     \/ \E status \in ReviewOutcome(q) : eulbForm' = [eulbForm EXCEPT !.status = status]
  /\ eulbReq' = [eulbReq EXCEPT ![q] = IdleEulbReq]
  /\ UNCHANGED <<eulbOps, eulbTangled, eulbCast>>

-----------------------------------------------------------------------------
\* A refusal, a call that fails, or a process that dies: what was written stays.
EulbStops(q) ==
  /\ eulbReq[q].pc # "idle"
  /\ eulbReq' = [eulbReq EXCEPT ![q] = IdleEulbReq]
  /\ eulbTangled' = (eulbTangled \/ eulbReq[q].op \notin EulbReviewOp)
  /\ UNCHANGED <<eulbForm, eulbRow, eulbOps, eulbCast>>

EulbNext ==
  \E q \in EulbRequest :
    \/ ReadDraft(q) \/ WriteDraft(q)
    \/ \E file \in Excel : ReadUpload(q, file) \/ ReadRevalidate(q, file)
    \/ ReplaceDataset(q) \/ WriteVerdicts(q) \/ WriteRevalidated(q)
    \/ ReadDelete(q) \/ DeleteRows(q) \/ ResetForm(q)
    \/ \E u \in EulbUlb, good \in BOOLEAN : ReadEdit(q, u, good)
    \/ WriteRow(q) \/ Recount(q) \/ WriteRecount(q)
    \/ ReadSubmit(q) \/ CommitSubmit(q)
    \/ \E U \in SUBSET EulbUlb : ReadPost(q, U) \/ LoadEulbRows(q, U)
    \/ CommitPost(q)
    \/ \E op \in EulbReviewOp : ReadEulbReview(q, op)
    \/ CommitEulbReview(q) \/ EulbStops(q)

EulbSpec == EulbInit /\ [][EulbNext]_eulbVars

-----------------------------------------------------------------------------
\* The rows there are belong to the active dataset version and all came with one upload, however
\* uploads, revalidations, deletions and edits overlap (the transaction of validateExcel).
DatasetIsWhole ==
  \A v, w \in EulbVersion, t, u \in EulbUlb :
    eulbRow[v][t].there /\ eulbRow[w][u].there =>
      v = eulbForm.version /\ eulbRow[v][t].from = eulbRow[w][u].from

EulbApproved(row) == row.there /\ row.status = "UNDER_REVIEW_BY_MOHUA"

\* With PMU is a row for every ULB, each one submitted; MoHUA gets the form when PMU has approved
\* every row.
ApprovedRowByRow ==
  /\ eulbForm.status = "UNDER_REVIEW_BY_PMU" =>
       \A u \in EulbUlb : ActiveRows[u].there /\ ActiveRows[u].status # "NONE"
  /\ eulbForm.status = "UNDER_REVIEW_BY_MOHUA" => \A u \in EulbUlb : EulbApproved(ActiveRows[u])

\* It is so as long as no requests get entangled, also when the State submits returned rows again
\* in the middle of a review (updateRow, maybeSettleAfterBulkAction).
ApprovedRowByRowUnlessTangled == eulbTangled \/ ApprovedRowByRow

\* MoHUA gets the form when every row that it has was approved (maybeSettleAfterBulkAction).
MohuaGetsApprovedRows ==
  eulbForm.status = "UNDER_REVIEW_BY_MOHUA" =>
    ThereIn(ActiveRows, {"UNDER_REVIEW_BY_MOHUA"}) = There(ActiveRows)

\* As long as no requests get entangled, a row that PMU has approved stays approved, and its content
\* changes only with a batch of the post-submission update that is recorded on the form
\* (canStateEditRow, assertNoLockedRows, submitBatch).
ApprovedRowsChangeOnRecord ==
  [][~eulbTangled' => \A v \in EulbVersion, u \in EulbUlb :
       EulbApproved(eulbRow[v][u]) /\ eulbRow'[v][u].there =>
         /\ EulbApproved(eulbRow'[v][u])
         /\ eulbRow'[v][u].by # eulbRow[v][u].by => eulbRow'[v][u].by \in eulbForm'.batches]_eulbVars
=============================================================================
