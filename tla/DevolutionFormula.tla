---------------------------- MODULE DevolutionFormula ----------------------------
(***************************************************************************)
(* The ULB-wise allocation (devolution formula) of one State, year and       *)
(* installment: an uploaded Excel becomes a dataset with one row for each    *)
(* ULB, the amounts of which must make up the grant that MoHUA allocated;    *)
(* the State corrects and submits it, PMU approves or rejects the whole.     *)
(*                                                                         *)
(* What a request reads before it writes is one step, and each of its writes *)
(* is another; the transaction of an upload is one write. The registry of    *)
(* ULBs stays the same, the grant, which is written from outside, does not.  *)
(* An amount is the total of a row: whether its two installments and its     *)
(* formula go with it is one bit.                                            *)
(*                                                                         *)
(* History rows and error sheets are read by no action and left out. So are  *)
(* the file, whose content counts only while it is uploaded, and the lock of *)
(* an active claim, which only refuses an edit.                              *)
(***************************************************************************)
EXTENDS Naturals, FiniteSets

LOCAL INSTANCE Functions

CONSTANTS
  DfUlb,      \* the registered ULBs; a row is named by its dataset version and its ULB
  DfRequest,  \* requests under way at a time
  DfMaxOps,   \* bound on the requests and on the changes of the grant, together
  DfAmount,   \* amounts a row may be given
  DfGrant,    \* what MoHUA may have allocated
  DfCasts     \* the scenes of a run: which requests there are, how many overlap, how many there are,
              \* and the files the State uploads

ASSUME DfAssumption ==
  IsFiniteSet(DfUlb) /\ DfMaxOps \in Nat /\ DfAmount \subseteq Nat /\ DfGrant \subseteq Nat

VARIABLES
  dfForm,     \* the form
  dfRow,      \* dfRow[v][u]: the row of u in dataset version v
  dfGrant,    \* the grant allocation
  dfReq,      \* dfReq[q]: the request q and what it has read
  dfOps,      \* how many requests and changes of the grant there were
  dfTangled,  \* history variable: see DfTangles
  dfCast      \* the scene, one of DfCasts, chosen once

dfVars == <<dfForm, dfRow, dfGrant, dfReq, dfOps, dfTangled, dfCast>>

DfNumber == 0 .. DfMaxOps

DfFormStatus ==
  {"NOT_STARTED", "IN_PROGRESS", "UNDER_REVIEW_BY_PMU", "RETURNED_BY_PMU", "UNDER_REVIEW_BY_MOHUA"}

DfStateEditable == {"NOT_STARTED", "IN_PROGRESS", "RETURNED_BY_PMU"}

\* valid is the stored verdict, flagged that it is for an altered ULB name; sound is what validateRow
\* finds of the stored values; from is the upload the row came with.
DfRow ==
  [there : BOOLEAN, amount : DfAmount \cup {0}, sound : BOOLEAN, valid : BOOLEAN, flagged : BOOLEAN,
   from : DfNumber]

NoDfRow ==
  [there |-> FALSE, amount |-> 0, sound |-> FALSE, valid |-> FALSE, flagged |-> FALSE, from |-> 0]

NoDfRows == [u \in DfUlb |-> NoDfRow]

\* The stored counts, as far as they are told apart: whether the file had as many rows as there are
\* ULBs, rows of unknown ULBs, ULBs without a row.
DfSummary ==
  [full : BOOLEAN, new : BOOLEAN, missing : BOOLEAN, verdict : {"NOT_VALIDATED", "VALID", "INVALID"}]

DfNotValidated == [full |-> FALSE, new |-> FALSE, missing |-> FALSE, verdict |-> "NOT_VALIDATED"]

\* total is totalMoHUAAllocation.
DfForm ==
  [status : DfFormStatus, version : DfNumber, total : DfGrant \cup {0}, summary : DfSummary]

\* What may be wrong with a row of a file: its values do not go together, one of its amounts is not a
\* number (and is stored as 0), or the name of its ULB is altered.
DfFault == {"none", "split", "number", "name"}
DfCell == [there : BOOLEAN, amount : DfAmount \cup {0}, fault : DfFault]
NoDfCell == [there |-> FALSE, amount |-> 0, fault |-> "none"]

\* A file: a row for some of the ULBs, and perhaps one more, of no registered ULB or of one already
\* listed.
DfFile == [cells : [DfUlb -> DfCell], extra : {"none", "new", "repeated"}]
NoDfFile == [cells |-> [u \in DfUlb |-> NoDfCell], extra |-> "none"]

ASSUME DfCastsAssumption == \A cast \in DfCasts : cast.files \subseteq DfFile

DfOp == {"draft", "upload", "revalidate", "delete", "edit", "submit", "approve", "reject"}

DfReqState ==
  [pc : {"idle", "write", "count", "form"}, op : DfOp, version : DfNumber, status : DfFormStatus,
   total : DfGrant \cup {0}, file : DfFile, verdict : {"VALID", "INVALID"}, number : DfNumber,
   stale : BOOLEAN]

IdleDfReq ==
  [pc |-> "idle", op |-> "draft", version |-> 0, status |-> "NOT_STARTED", total |-> 0,
   file |-> NoDfFile, verdict |-> "INVALID", number |-> 0, stale |-> FALSE]

DfTypeOK ==
  /\ dfForm \in DfForm
  /\ dfRow \in [DfNumber -> [DfUlb -> DfRow]]
  /\ dfGrant \in DfGrant
  /\ dfReq \in [DfRequest -> DfReqState]
  /\ dfOps \in DfNumber
  /\ dfTangled \in BOOLEAN

DfInit ==
  /\ dfForm = [status |-> "NOT_STARTED", version |-> 0, total |-> 0, summary |-> DfNotValidated]
  /\ dfRow = [v \in DfNumber |-> NoDfRows]
  /\ dfGrant \in DfGrant
  /\ dfReq = [q \in DfRequest |-> IdleDfReq]
  /\ dfOps = 0
  /\ dfTangled = FALSE
  /\ dfCast \in DfCasts

DfOpen == {q \in DfRequest : dfReq[q].pc # "idle"}

DfActive == dfRow[dfForm.version]

DfSum(amounts) == SumFunction(amounts)

DfAmountsOf(rows) == [u \in DfUlb |-> IF rows[u].there THEN rows[u].amount ELSE 0]

\* validateRow, and what else an upload refuses a row for.
DfValid(cell, total) == cell.fault = "none" /\ cell.amount <= total

DfVerdict(errors, missing, allocated, total) ==
  IF errors \/ missing \/ allocated # total THEN "INVALID" ELSE "VALID"

DfMissing(file) == \E u \in DfUlb : ~file.cells[u].there

DfVerdictOf(file, total) ==
  LET valid(u) == file.cells[u].there /\ DfValid(file.cells[u], total)
  IN DfVerdict(file.extra # "none" \/ \E u \in DfUlb : file.cells[u].there /\ ~valid(u),
               DfMissing(file),
               DfSum([u \in DfUlb |-> IF valid(u) THEN file.cells[u].amount ELSE 0]),
               total)

-----------------------------------------------------------------------------
(* The requests                                                            *)

\* A request that has written rows and has still to write the form.
HalfWay == \E p \in DfRequest : dfReq[p].pc \in {"count", "form"}

\* The next request, r and the grant or the total are what it has read.
DfBegins(q, op, r, total) ==
  /\ dfReq[q].pc = "idle"
  /\ op \in dfCast.ops /\ Cardinality(DfOpen) < dfCast.open
  /\ dfOps < dfCast.max /\ dfOps < DfMaxOps
  /\ dfReq' = [dfReq EXCEPT ![q] =
       [r EXCEPT !.op = op, !.number = dfOps + 1, !.total = total, !.version = dfForm.version,
                 !.status = dfForm.status, !.stale = HalfWay]]
  /\ dfOps' = dfOps + 1
  /\ UNCHANGED <<dfForm, dfRow, dfGrant, dfTangled, dfCast>>

\* Requests get entangled: one that read before another one's write, or between two of them, writes
\* what it made of it; or one stops half-way.
DfTangles(q) == dfTangled' = (dfTangled \/ dfReq[q].stale)

\* q has written and goes on with r.
DfWrites(q, r) ==
  dfReq' = [p \in DfRequest |->
    IF p = q THEN r ELSE IF p \in DfOpen THEN [dfReq[p] EXCEPT !.stale = TRUE] ELSE dfReq[p]]

DfEnds(q) == dfReq' = [dfReq EXCEPT ![q] = IdleDfReq]

\* saveDraft
ReadDfDraft(q) ==
  /\ dfForm.status \in DfStateEditable
  /\ DfBegins(q, "draft", [IdleDfReq EXCEPT !.pc = "write"], dfGrant)

\* Guarded by the status that was read; the form is unique, so nothing is inserted beside it. The
\* total becomes that of the grant, whatever was validated: a verdict is then on another total.
WriteDfDraft(q) ==
  /\ dfReq[q].pc = "write" /\ dfReq[q].op = "draft"
  /\ dfForm.status = dfReq[q].status
  /\ dfForm' = [dfForm EXCEPT !.status = "IN_PROGRESS", !.total = dfReq[q].total]
  /\ dfTangled' = (dfTangled \/ (dfForm.summary.verdict = "VALID" /\ dfReq[q].total # dfForm.total))
  /\ IF dfReq[q].total = dfForm.total THEN DfEnds(q) ELSE DfWrites(q, IdleDfReq)
  /\ UNCHANGED <<dfRow, dfGrant, dfOps, dfCast>>

\* validateExcel, also from revalidateExcel of a form without rows, for the stored file.
ReadDfUpload(q, file) ==
  /\ dfForm.status \in DfStateEditable
  /\ DfBegins(q, "upload", [IdleDfReq EXCEPT !.pc = "write", !.file = file], dfGrant)

\* $inc: { activeDatasetVersion: 1 }
DfNextVersion(q) == dfForm.version + 1

NewDfRow(q, cell) ==
  IF cell.there
  THEN [there |-> TRUE, amount |-> cell.amount, sound |-> cell.fault # "split",
        valid |-> DfValid(cell, dfReq[q].total), flagged |-> cell.fault = "name",
        from |-> dfReq[q].number]
  ELSE NoDfRow

\* excelRowCount = computedActiveUlbCount
IsFull(file) ==
  Cardinality({u \in DfUlb : file.cells[u].there}) + (IF file.extra = "none" THEN 0 ELSE 1)
    = Cardinality(DfUlb)

\* The transaction: the rows of the version before go, the new rows come in, unique by ULB, and the
\* form is IN_PROGRESS, whatever it was. What is stored then is all from this upload.
ReplaceDfDataset(q) ==
  /\ dfReq[q].pc = "write" /\ dfReq[q].op = "upload"
  /\ DfNextVersion(q) \in DfNumber
  /\ \A u \in DfUlb :
       dfReq[q].file.cells[u].there => ~dfRow[DfNextVersion(q)][u].there
  /\ dfForm' = [status |-> "IN_PROGRESS", version |-> DfNextVersion(q), total |-> dfReq[q].total,
                summary |-> [full |-> IsFull(dfReq[q].file), new |-> dfReq[q].file.extra = "new",
                             missing |-> DfMissing(dfReq[q].file),
                             verdict |-> DfVerdictOf(dfReq[q].file, dfReq[q].total)]]
  /\ dfRow' = [dfRow EXCEPT
       ![DfNextVersion(q) - 1] = NoDfRows,
       ![DfNextVersion(q)] = [u \in DfUlb |->
          IF @[u].there THEN @[u] ELSE NewDfRow(q, dfReq[q].file.cells[u])]]
  /\ DfWrites(q, IdleDfReq) /\ dfTangled' = FALSE
  /\ UNCHANGED <<dfGrant, dfOps, dfCast>>

\* The rows as they are judged again: neither the name of the ULB nor what was no number is seen.
StoredFile(rows) ==
  [cells |-> [u \in DfUlb |->
     IF rows[u].there
     THEN [there |-> TRUE, amount |-> rows[u].amount, fault |-> IF rows[u].sound THEN "none" ELSE "split"]
     ELSE NoDfCell],
   extra |-> "none"]

\* revalidateExcel of a form that has rows.
ReadDfRevalidate(q) ==
  /\ dfForm.status \in DfStateEditable
  /\ \E u \in DfUlb : DfActive[u].there
  /\ DfBegins(q, "revalidate", [IdleDfReq EXCEPT !.pc = "write", !.file = StoredFile(DfActive)], dfGrant)

\* The bulkWrite, by _id.
WriteDfVerdicts(q) ==
  /\ dfReq[q].pc = "write" /\ dfReq[q].op = "revalidate"
  /\ dfRow' = [dfRow EXCEPT ![dfReq[q].version] = [u \in DfUlb |->
       IF @[u].there /\ dfReq[q].file.cells[u].there
       THEN [@[u] EXCEPT !.valid = DfValid(dfReq[q].file.cells[u], dfReq[q].total), !.flagged = FALSE]
       ELSE @[u]]]
  /\ DfWrites(q, [dfReq[q] EXCEPT !.pc = "form"]) /\ DfTangles(q)
  /\ UNCHANGED <<dfForm, dfGrant, dfOps, dfCast>>

\* excelRowCount stays.
WriteDfRevalidated(q) ==
  /\ dfReq[q].pc = "form" /\ dfReq[q].op = "revalidate"
  /\ dfForm' = [dfForm EXCEPT
       !.total = dfReq[q].total, !.summary.new = FALSE,
       !.summary.missing = DfMissing(dfReq[q].file),
       !.summary.verdict = DfVerdictOf(dfReq[q].file, dfReq[q].total)]
  /\ DfWrites(q, IdleDfReq) /\ DfTangles(q)
  /\ UNCHANGED <<dfRow, dfGrant, dfOps, dfCast>>

\* deleteUploadedExcel: the rows of the version that was read, then the form.
ReadDfDelete(q) ==
  /\ dfForm.status \in DfStateEditable \ {"NOT_STARTED"}
  /\ DfBegins(q, "delete", [IdleDfReq EXCEPT !.pc = "write"], dfForm.total)

DeleteDfRows(q) ==
  /\ dfReq[q].pc = "write" /\ dfReq[q].op = "delete"
  /\ dfRow' = [dfRow EXCEPT ![dfReq[q].version] = NoDfRows]
  /\ DfWrites(q, [dfReq[q] EXCEPT !.pc = "form"]) /\ DfTangles(q)
  /\ UNCHANGED <<dfForm, dfGrant, dfOps, dfCast>>

ResetDfForm(q) ==
  /\ dfReq[q].pc = "form" /\ dfReq[q].op = "delete"
  /\ dfForm' = [dfForm EXCEPT !.summary = DfNotValidated]
  /\ DfWrites(q, IdleDfReq) /\ DfTangles(q)
  /\ UNCHANGED <<dfRow, dfGrant, dfOps, dfCast>>

\* updateRow: values that do not go together are taken, and the row is in error.
ReadDfEdit(q, u, amount, fault) ==
  /\ dfForm.status \in DfStateEditable
  /\ DfActive[u].there
  /\ amount <= dfForm.total \/ amount = DfActive[u].amount
  /\ DfBegins(q, "edit", [IdleDfReq EXCEPT !.pc = "write",
       !.file.cells[u] = [there |-> TRUE, amount |-> amount, fault |-> fault]], dfForm.total)

\* Mutant: the portal's edit keeps the verdict the row had.
EditedDfRowUnjudged(row, cell, total) ==
  [row EXCEPT !.amount = cell.amount, !.sound = cell.fault = "none", !.flagged = FALSE]

EditedDfRow(row, cell, total) ==
  [row EXCEPT !.amount = cell.amount, !.sound = cell.fault = "none", !.valid = DfValid(cell, total),
              !.flagged = FALSE]

WriteDfRow(q) ==
  /\ dfReq[q].pc = "write" /\ dfReq[q].op = "edit"
  /\ dfRow' = [dfRow EXCEPT ![dfReq[q].version] = [u \in DfUlb |->
       IF @[u].there /\ dfReq[q].file.cells[u].there
       THEN EditedDfRow(@[u], dfReq[q].file.cells[u], dfReq[q].total) ELSE @[u]]]
  /\ DfWrites(q, [dfReq[q] EXCEPT !.pc = "count"]) /\ DfTangles(q)
  /\ UNCHANGED <<dfForm, dfGrant, dfOps, dfCast>>

\* recalculateFormSummary, of the version that was read first; the missing ULBs are read back.
RecountDf(q) ==
  /\ dfReq[q].pc = "count" /\ dfReq[q].op = "edit"
  /\ LET rows == dfRow[dfReq[q].version]
         verdict == DfVerdict(\E u \in DfUlb : rows[u].there /\ ~rows[u].valid,
                              dfForm.summary.missing,
                              DfSum([u \in DfUlb |->
                                IF rows[u].there /\ rows[u].valid THEN rows[u].amount ELSE 0]),
                              dfForm.total)
     IN dfReq' = [dfReq EXCEPT ![q].pc = "form", ![q].verdict = verdict]
  /\ UNCHANGED <<dfForm, dfRow, dfGrant, dfOps, dfTangled, dfCast>>

WriteDfRecount(q) ==
  /\ dfReq[q].pc = "form" /\ dfReq[q].op = "edit"
  /\ dfForm' = [dfForm EXCEPT !.summary.verdict = dfReq[q].verdict]
  /\ DfWrites(q, IdleDfReq) /\ DfTangles(q)
  /\ UNCHANGED <<dfRow, dfGrant, dfOps, dfCast>>

\* finalSubmit, on the stored counts and on the grant as it is.
DfSubmittable ==
  /\ dfForm.total = dfGrant
  /\ ~dfForm.summary.new
  /\ \A u \in DfUlb : DfActive[u].there => ~DfActive[u].flagged
  /\ dfForm.summary.verdict = "VALID"
  /\ dfForm.summary.full

ReadDfSubmit(q) ==
  /\ dfForm.status \in DfStateEditable \ {"NOT_STARTED"}
  /\ DfSubmittable
  /\ DfBegins(q, "submit", [IdleDfReq EXCEPT !.pc = "write"], dfGrant)

\* Guarded by the status that was read.
CommitDfSubmit(q) ==
  /\ dfReq[q].pc = "write" /\ dfReq[q].op = "submit"
  /\ dfForm.status = dfReq[q].status
  /\ dfForm' = [dfForm EXCEPT !.status = "UNDER_REVIEW_BY_PMU"]
  /\ DfWrites(q, IdleDfReq) /\ DfTangles(q)
  /\ UNCHANGED <<dfRow, dfGrant, dfOps, dfCast>>

\* approveCompleteForm, rejectCompleteForm of PMU; the write is by _id alone.
ReadDfReview(q, op) ==
  /\ dfForm.status = "UNDER_REVIEW_BY_PMU"
  /\ DfBegins(q, op, [IdleDfReq EXCEPT !.pc = "write"], 0)

CommitDfReview(q) ==
  /\ dfReq[q].pc = "write" /\ dfReq[q].op \in {"approve", "reject"}
  /\ dfForm' = [dfForm EXCEPT !.status =
       IF dfReq[q].op = "approve" THEN "UNDER_REVIEW_BY_MOHUA" ELSE "RETURNED_BY_PMU"]
  /\ DfWrites(q, IdleDfReq) /\ DfTangles(q)
  /\ UNCHANGED <<dfRow, dfGrant, dfOps, dfCast>>

\* The allocation is written from outside.
GrantChanges ==
  /\ "grant" \in dfCast.ops
  /\ dfOps < dfCast.max /\ dfOps < DfMaxOps
  /\ dfGrant' \in DfGrant \ {dfGrant}
  /\ dfOps' = dfOps + 1
  /\ UNCHANGED <<dfForm, dfRow, dfReq, dfTangled, dfCast>>

\* A refusal, a call that fails, or a process that dies: what was written stays.
DfStops(q) ==
  /\ dfReq[q].pc # "idle"
  /\ DfEnds(q)
  /\ dfTangled' = (dfTangled \/ dfReq[q].pc \in {"count", "form"})
  /\ UNCHANGED <<dfForm, dfRow, dfGrant, dfOps, dfCast>>

DfNext ==
  \/ GrantChanges
  \/ \E q \in DfRequest :
       \/ ReadDfDraft(q) \/ WriteDfDraft(q)
       \/ \E file \in dfCast.files : ReadDfUpload(q, file)
       \/ ReplaceDfDataset(q)
       \/ ReadDfRevalidate(q) \/ WriteDfVerdicts(q) \/ WriteDfRevalidated(q)
       \/ ReadDfDelete(q) \/ DeleteDfRows(q) \/ ResetDfForm(q)
       \/ \E u \in DfUlb, amount \in DfAmount, fault \in {"none", "split"} :
            ReadDfEdit(q, u, amount, fault)
       \/ WriteDfRow(q) \/ RecountDf(q) \/ WriteDfRecount(q)
       \/ ReadDfSubmit(q) \/ CommitDfSubmit(q)
       \/ \E op \in {"approve", "reject"} : ReadDfReview(q, op)
       \/ CommitDfReview(q) \/ DfStops(q)

DfSpec == DfInit /\ [][DfNext]_dfVars

-----------------------------------------------------------------------------
\* The rows there are belong to the active dataset version and all came with one upload: what a claim
\* letter or an unspent declaration reads as the allocation is never mixed (ADR 0001).
DfDatasetIsWhole ==
  \A v, w \in DfNumber, t, u \in DfUlb :
    dfRow[v][t].there /\ dfRow[w][u].there =>
      v = dfForm.version /\ dfRow[v][t].from = dfRow[w][u].from

DfSubmitted == dfForm.status \in {"UNDER_REVIEW_BY_PMU", "UNDER_REVIEW_BY_MOHUA"}

\* finalSubmit: the amounts of a form that was submitted make up the allocation it was validated
\* against.
DfBalanced == DfSubmitted => DfSum(DfAmountsOf(DfActive)) = dfForm.total

\* A form that was submitted has a sound row for every ULB, and these make up the allocation, after
\* any sequence of uploads, edits, revalidations, deletions, drafts and reviews, also when uploads
\* and drafts overlap with all of them; but not once other requests got entangled, or a draft took
\* over a grant that changed, until the next upload.
DfAddsUpUnlessTangled ==
  dfTangled \/ (DfBalanced /\ (DfSubmitted => \A u \in DfUlb : DfActive[u].there /\ DfActive[u].sound))
=============================================================================
