------------------------------- MODULE FcUnspent -------------------------------
(***************************************************************************)
(* The FC unspent declaration of one State and year: the State answers No,  *)
(* or Yes with a row for each ULB that has unspent money, PMU and then      *)
(* MoHUA decide on the form or on its rows.                                 *)
(*                                                                         *)
(* A request checks what it reads and then writes in one transaction. The   *)
(* transaction works on the snapshot of its first statement and is aborted, *)
(* never retried, when another one has written a document it writes; but it *)
(* does not check again what the request has read before it.                *)
(*                                                                         *)
(* The history rows are inserted in these transactions and read by no       *)
(* action; they are left out, as are the remarks, the files and the gate on *)
(* the devolution formula, which can only refuse a request.                 *)
(***************************************************************************)
EXTENDS Naturals, FiniteSets

CONSTANTS
  FcUlb,         \* ULBs; a row is named by its ULB, by the unique index on (form, ulbId)
  FcFormDoc,     \* stands for the form among the documents a transaction writes
  FcRequest,     \* requests under way at a time
  FcMaxSaves,    \* bound on the State's saves and submits
  FcCasts        \* the scenes of a run: which requests there are and how many overlap

ASSUME FcAssumption == FcFormDoc \notin FcUlb /\ FcMaxSaves \in Nat

VARIABLES
  fcForm,    \* the form: its status and the answer
  fcRow,     \* fcRow[u]: the row of u; by is the number of the State's request that wrote it
  fcReq,     \* fcReq[q]: the request q, what it read and the snapshot of its transaction
  fcSaves,   \* how many requests the State has begun
  fcListed,  \* history variable: the ULBs of the last submit
  fcSkewed,  \* history variable: two transactions have overlapped and both committed
  fcCast     \* the scene, one of FcCasts, chosen once

fcVars == <<fcForm, fcRow, fcReq, fcSaves, fcListed, fcSkewed, fcCast>>

FcFormStatus ==
  {"NOT_STARTED", "IN_PROGRESS", "UNDER_REVIEW_BY_PMU", "RETURNED_BY_PMU",
   "UNDER_REVIEW_BY_MOHUA", "RETURNED_BY_MOHUA", "SUBMISSION_ACKNOWLEDGED_BY_MOHUA"}

FcStateEditable == {"NOT_STARTED", "IN_PROGRESS", "RETURNED_BY_PMU", "RETURNED_BY_MOHUA"}

\* "NONE" is null, and the status of a row that is not there yet.
RowStatus == {"NONE"} \cup (FcFormStatus \ {"NOT_STARTED", "IN_PROGRESS"})

FcAnswer == {"undecided", "yes", "no"}
FcForm == [status : FcFormStatus, answer : FcAnswer]
FcRow == [active : BOOLEAN, status : RowStatus, by : 0 .. FcMaxSaves]

NoFcRow == [active |-> FALSE, status |-> "NONE", by |-> 0]

\* The stages of review: what waits there, what an approval and a rejection make of it.
Stage == {"pmu", "mohua"}
Waiting(stage) == IF stage = "pmu" THEN "UNDER_REVIEW_BY_PMU" ELSE "UNDER_REVIEW_BY_MOHUA"
Passed(stage)  == IF stage = "pmu" THEN "UNDER_REVIEW_BY_MOHUA"
                  ELSE "SUBMISSION_ACKNOWLEDGED_BY_MOHUA"
SentBack(stage) == IF stage = "pmu" THEN "RETURNED_BY_PMU" ELSE "RETURNED_BY_MOHUA"

StateOp == {"save", "submit"}
FormOp == {"approveForm", "rejectForm"}
RowsOp == {"approveRows", "rejectRows"}

FcReqState ==
  [pc : {"idle", "load", "begin", "commit"}, op : StateOp \cup FormOp \cup RowsOp, stage : Stage,
   answer : FcAnswer, ulbs : SUBSET FcUlb, number : 0 .. FcMaxSaves,
   snap : [FcUlb -> FcRow], missed : SUBSET (FcUlb \cup {FcFormDoc})]

IdleFcReq ==
  [pc |-> "idle", op |-> "save", stage |-> "pmu", answer |-> "undecided", ulbs |-> {},
   number |-> 0, snap |-> [u \in FcUlb |-> NoFcRow], missed |-> {}]

FcTypeOK ==
  /\ fcForm \in FcForm
  /\ fcRow \in [FcUlb -> FcRow]
  /\ fcReq \in [FcRequest -> FcReqState]
  /\ fcSaves \in 0 .. FcMaxSaves
  /\ fcListed \subseteq FcUlb
  /\ fcSkewed \in BOOLEAN

FcInit ==
  /\ fcForm = [status |-> "NOT_STARTED", answer |-> "undecided"]
  /\ fcRow = [u \in FcUlb |-> NoFcRow]
  /\ fcReq = [q \in FcRequest |-> IdleFcReq]
  /\ fcSaves = 0
  /\ fcListed = {}
  /\ fcSkewed = FALSE
  /\ fcCast \in FcCasts

FcStep(q, r) == fcReq' = [fcReq EXCEPT ![q] = r]
FcEnd(q) == FcStep(q, IdleFcReq)

FcOpen == {q \in FcRequest : fcReq[q].pc # "idle"}
Reviewing == {q \in FcOpen : fcReq[q].op \notin StateOp}

Active(rows) == {u \in FcUlb : rows[u].active}
ActiveIn(rows, statuses) == {u \in Active(rows) : rows[u].status \in statuses}

-----------------------------------------------------------------------------
(* saveDraft and finalSubmit                                               *)

\* The form is read and its status lets the State edit it. A Yes lists rows, at least one to
\* submit; a submit is decided.
ReadFcForm(q, op, answer, L) ==
  /\ fcReq[q].pc = "idle"
  /\ op \in fcCast.ops /\ Cardinality(FcOpen) < fcCast.open
  /\ fcSaves < FcMaxSaves
  /\ fcForm.status \in FcStateEditable
  /\ answer # "yes" => L = {}
  /\ op = "submit" => answer = "no" \/ L # {}
  /\ FcStep(q, [IdleFcReq EXCEPT !.pc = "begin", !.op = op, !.answer = answer, !.ulbs = L,
                                 !.number = fcSaves + 1])
  /\ fcSaves' = fcSaves + 1
  /\ UNCHANGED <<fcForm, fcRow, fcListed, fcSkewed, fcCast>>

\* The first statement of a transaction, the State's or a reviewer's.
BeginTransaction(q) ==
  /\ fcReq[q].pc = "begin"
  /\ FcStep(q, [fcReq[q] EXCEPT !.pc = "commit", !.snap = fcRow])
  /\ UNCHANGED <<fcForm, fcRow, fcSaves, fcListed, fcSkewed, fcCast>>

\* The transaction of q writes the documents W, unless one of them has been written since its
\* snapshot; those that are open beside it have missed W.
Commits(q, W) ==
  /\ fcReq[q].pc = "commit"
  /\ fcReq[q].missed \cap W = {}
  /\ fcSkewed' = (fcSkewed \/ fcReq[q].missed # {})
  /\ fcReq' = [p \in FcRequest |->
       IF p = q THEN IdleFcReq
       ELSE IF fcReq[p].pc = "commit" THEN [fcReq[p] EXCEPT !.missed = @ \cup W]
       ELSE fcReq[p]]

\* Mutant: a row PMU has approved is open to the State.
RowNotAcknowledged(row) == row.status # "SUBMISSION_ACKNOWLEDGED_BY_MOHUA"

CanStateEditRow(row) == row.status \in {"NONE", "RETURNED_BY_PMU", "RETURNED_BY_MOHUA"}

\* applyRows: of the listed rows, those the State can edit; the others are skipped.
Upserted(q) == {u \in fcReq[q].ulbs : CanStateEditRow(fcReq[q].snap[u])}

\* Mutant: rows the State no longer lists stay.
NeverOmitted(q) == {}

\* deactivateOmittedRows: active rows that are not listed, except those approved.
Omitted(q) ==
  {u \in Active(fcReq[q].snap) \ fcReq[q].ulbs :
     fcReq[q].snap[u].status \notin
       {"UNDER_REVIEW_BY_MOHUA", "SUBMISSION_ACKNOWLEDGED_BY_MOHUA"}}

\* Without a Yes, deactivateAllRows: approved or not.
Deactivated(q) == IF fcReq[q].answer = "yes" THEN Omitted(q) ELSE Active(fcReq[q].snap)

\* A submit puts the row under review; a draft leaves its status.
UpsertedRow(q, u) ==
  [active |-> TRUE, by |-> fcReq[q].number,
   status |-> IF fcReq[q].op = "submit" THEN "UNDER_REVIEW_BY_PMU" ELSE fcReq[q].snap[u].status]

CommitState(q) ==
  /\ fcReq[q].op \in StateOp
  /\ Commits(q, {FcFormDoc} \cup Upserted(q) \cup Deactivated(q))
  /\ fcForm' = [answer |-> fcReq[q].answer,
                status |-> IF fcReq[q].op = "submit" THEN "UNDER_REVIEW_BY_PMU" ELSE "IN_PROGRESS"]
  /\ fcRow' = [u \in FcUlb |->
       IF u \in Upserted(q) THEN UpsertedRow(q, u)
       ELSE IF u \in Deactivated(q) THEN [fcRow[u] EXCEPT !.active = FALSE]
       ELSE fcRow[u]]
  /\ fcListed' = IF fcReq[q].op = "submit" THEN fcReq[q].ulbs ELSE fcListed
  /\ UNCHANGED <<fcSaves, fcCast>>

-----------------------------------------------------------------------------
(* approveCompleteForm, rejectCompleteForm, bulkApproveRows, bulkRejectRows, *)
(* the same for PMU and for MoHUA                                            *)

\* The form is found waiting at the stage. Rows are decided on a Yes only, a form is approved when
\* it has an answer.
ReadFcReview(q, op, stage) ==
  /\ fcReq[q].pc = "idle"
  /\ stage \in fcCast.ops /\ Cardinality(FcOpen) < fcCast.open
  /\ Cardinality(Reviewing) < fcCast.reviews
  /\ fcForm.status = Waiting(stage)
  /\ op = "approveForm" => fcForm.answer # "undecided"
  /\ op \in RowsOp => fcForm.answer = "yes"
  /\ FcStep(q, [IdleFcReq EXCEPT !.pc = IF fcForm.answer = "yes" THEN "load" ELSE "begin",
                                 !.op = op, !.stage = stage])
  /\ UNCHANGED <<fcForm, fcRow, fcSaves, fcListed, fcSkewed, fcCast>>

\* Approving the form needs rows, all of them waiting or approved; rejecting it none approved.
Decidable(op, stage) ==
  IF op = "approveForm"
  THEN Active(fcRow) # {} /\ Active(fcRow) = ActiveIn(fcRow, {Waiting(stage), Passed(stage)})
  ELSE ActiveIn(fcRow, {Passed(stage)}) = {}

\* The active rows are read: a decision on the form is one on all that wait.
LoadRowsOfForm(q) ==
  /\ fcReq[q].pc = "load" /\ fcReq[q].op \in FormOp
  /\ IF Decidable(fcReq[q].op, fcReq[q].stage)
     THEN FcStep(q, [fcReq[q] EXCEPT !.pc = "begin",
                                     !.ulbs = ActiveIn(fcRow, {Waiting(fcReq[q].stage)})])
     ELSE FcEnd(q)
  /\ UNCHANGED <<fcForm, fcRow, fcSaves, fcListed, fcSkewed, fcCast>>

\* The rows D are found active and waiting. PMU may also ask for all that match, be it none.
LoadRows(q, D) ==
  /\ fcReq[q].pc = "load" /\ fcReq[q].op \in RowsOp
  /\ IF D \subseteq ActiveIn(fcRow, {Waiting(fcReq[q].stage)}) /\ (D # {} \/ fcReq[q].stage = "pmu")
     THEN FcStep(q, [fcReq[q] EXCEPT !.pc = "begin", !.ulbs = D])
     ELSE FcEnd(q)
  /\ UNCHANGED <<fcForm, fcRow, fcSaves, fcListed, fcSkewed, fcCast>>

Verdict(q) ==
  IF fcReq[q].op \in {"approveForm", "approveRows"}
  THEN Passed(fcReq[q].stage) ELSE SentBack(fcReq[q].stage)

\* transitionRows: by _id alone.
DecidedRows(q, rows) ==
  [u \in FcUlb |-> IF u \in fcReq[q].ulbs THEN [rows[u] EXCEPT !.status = Verdict(q)] ELSE rows[u]]

\* Mutant: the count the tally replaced, of rows that are not approved.
SettledOnceApproved(rows) ==
  IF Active(rows) = ActiveIn(rows, {"UNDER_REVIEW_BY_MOHUA"})
  THEN {"UNDER_REVIEW_BY_MOHUA"} ELSE {}

\* resolveSettledFormStatus of getRowStatusTally; {} while a row waits.
PmuOutcome(rows) ==
  IF ActiveIn(rows, {"UNDER_REVIEW_BY_PMU"}) # {} THEN {}
  ELSE IF ActiveIn(rows, {"RETURNED_BY_PMU"}) # {} THEN {"RETURNED_BY_PMU"}
  ELSE {"UNDER_REVIEW_BY_MOHUA"}

\* maybeAcknowledgeAfterBulkAction, which only an approval is followed by.
Acknowledged(q, rows) ==
  IF /\ fcReq[q].op = "approveRows"
     /\ Active(rows) = ActiveIn(rows, {"SUBMISSION_ACKNOWLEDGED_BY_MOHUA"})
  THEN {"SUBMISSION_ACKNOWLEDGED_BY_MOHUA"} ELSE {}

\* The status the form gets, {} for none, from the rows as the transaction sees them.
NextStatus(q) ==
  LET rows == DecidedRows(q, fcReq[q].snap)
  IN IF fcReq[q].op \in FormOp THEN {Verdict(q)}
     ELSE IF fcReq[q].stage = "pmu" THEN PmuOutcome(rows)
     ELSE Acknowledged(q, rows)

CommitReview(q) ==
  /\ fcReq[q].op \notin StateOp
  /\ Commits(q, fcReq[q].ulbs \cup (IF NextStatus(q) = {} THEN {} ELSE {FcFormDoc}))
  /\ fcRow' = DecidedRows(q, fcRow)
  /\ \/ NextStatus(q) = {} /\ UNCHANGED fcForm
     \/ \E status \in NextStatus(q) : fcForm' = [fcForm EXCEPT !.status = status]
  /\ UNCHANGED <<fcSaves, fcListed, fcCast>>

-----------------------------------------------------------------------------
\* A write conflict, a failed call, or a process that dies: the transaction leaves nothing.
Aborts(q) ==
  /\ fcReq[q].pc = "commit"
  /\ FcEnd(q)
  /\ UNCHANGED <<fcForm, fcRow, fcSaves, fcListed, fcSkewed, fcCast>>

FcNext ==
  \E q \in FcRequest :
    \/ \E op \in StateOp, answer \in FcAnswer, L \in SUBSET FcUlb : ReadFcForm(q, op, answer, L)
    \/ \E op \in FormOp \cup RowsOp, stage \in Stage : ReadFcReview(q, op, stage)
    \/ LoadRowsOfForm(q) \/ \E D \in SUBSET FcUlb : LoadRows(q, D)
    \/ BeginTransaction(q) \/ CommitState(q) \/ CommitReview(q) \/ Aborts(q)

FcSpec == FcInit /\ [][FcNext]_fcVars

-----------------------------------------------------------------------------
ApprovedRow(row) ==
  row.status \in {"UNDER_REVIEW_BY_MOHUA", "SUBMISSION_ACKNOWLEDGED_BY_MOHUA"}

\* What PMU has approved the State never writes over nor sends to review again, whatever overlapping
\* or late save or submit lists it, or leaves it out (canStateEditRow, applyRows).
ApprovedRowsAreKept ==
  [][\A u \in FcUlb : ApprovedRow(fcRow[u]) =>
       /\ fcRow'[u].by = fcRow[u].by
       /\ fcRow'[u].status # fcRow[u].status =>
            \E q \in Reviewing : u \in fcReq[q].ulbs /\ fcReq'[q].pc = "idle"]_fcVars

\* What PMU finds on its table is the last submit: a Yes with rows of the ULBs it listed and rows
\* approved earlier, a No without rows; also when saves of before the submit come late
\* (deactivateOmittedRows, deactivateAllRows).
ReviewIsOfTheSubmit ==
  fcForm.status = "UNDER_REVIEW_BY_PMU" =>
    \A u \in Active(fcRow) : fcForm.answer = "yes" /\ (u \in fcListed \/ ApprovedRow(fcRow[u]))

\* A form before PMU can be decided: a row waits, or the form can be approved or rejected as a
\* whole. Decided rows of both kinds do not keep it there: the transaction of the last decision
\* settles it (maybeSettleAfterBulkAction).
PmuCanDecide ==
  fcForm.status = "UNDER_REVIEW_BY_PMU" /\ fcForm.answer = "yes" =>
    \/ ActiveIn(fcRow, {"UNDER_REVIEW_BY_PMU"}) # {}
    \/ \E op \in FormOp : Decidable(op, "pmu")

\* It is so after any decisions on rows and forms that are stale when they are written; only
\* transactions that overlap can break it.
PmuCanDecideUnlessSkewed == fcSkewed \/ PmuCanDecide
=============================================================================
