-------------------------------- MODULE DurForm --------------------------------
(***************************************************************************)
(* The detailed utilisation report of one ULB and year: its form status,    *)
(* its two documents, and what ULB, State and ADMIN ask of it.              *)
(*                                                                         *)
(* Both document slots exist from the start. Every request reads the form   *)
(* once, checks what it read and writes later; only the ADMIN's decision    *)
(* and the move to IN_PROGRESS have a condition in their write. What a ULB  *)
(* or user may not see or do is a request that does not arrive. The rows of *)
(* the upload, review and form logs are written beside these writes and     *)
(* read by no decision: they are left out, but for the versions of uploads. *)
(***************************************************************************)
EXTENDS ManualReview, FiniteSets

CONSTANTS
  DurUpload,    \* upload ids
  DurDocId,     \* the document slots of the form
  DurHandler,   \* requests that the server has under way
  DurMaxRuns,   \* bound on the validation jobs of one upload
  DurCasts      \* the scenes

ASSUME DurAssumption ==
  /\ NoUpload \notin DurUpload
  /\ IsFiniteSet(DurUpload) /\ DurDocId # {}
  /\ DurMaxRuns \in Nat \ {0}
  /\ DurCasts \subseteq Scene

VARIABLES
  durStatus,   \* currentFormStatus
  slot,        \* slot[d]: the document d of the form
  durFiling,   \* durFiling[u]: the request confirmUpload of u
  durReq,      \* durReq[h]: the request h, and what it read
  queued,      \* queued[u]: the validation jobs of u queued so far
  durCast,     \* the scene, one of DurCasts
  rulings      \* history variable: the documents a decision of the ADMIN has approved

durRequests == <<durStatus, slot, durFiling, durReq, queued, durCast, rulings>>

\* job: the recorded validation job (ocrInfo.jobId), 0 for none.
Slot ==
  [upload : DurUpload \cup {NoUpload}, processing : Processing, validation : Validation,
   requested : BOOLEAN, review : Verdict \cup {NoVerdict}, strikes : 0..MaxAttempts,
   blocked : Cooldown, job : 0..DurMaxRuns, version : 0..Cardinality(DurUpload)]

EmptySlot ==
  [upload |-> NoUpload, processing |-> "NOT_STARTED", validation |-> "NONE", requested |-> FALSE,
   review |-> NoVerdict, strikes |-> 0, blocked |-> "no", job |-> 0, version |-> 0]

\* "failed": over, without a row in the upload history.
DurFiling ==
  [pc : {"new", "checked", "touched", "slotted", "recorded", "done", "failed"}, docId : DurDocId,
   version : 0..Cardinality(DurUpload)]

DurRequest ==
  [op : {"none", "retry", "enqueue", "submit", "section", "undo", "ask", "decide"},
   docId : DurDocId, on : DurUpload \cup {NoUpload}, verdict : Verdict \cup {NoVerdict}]

AnyDurDoc == CHOOSE d \in DurDocId : TRUE
DurIdle == [op |-> "none", docId |-> AnyDurDoc, on |-> NoUpload, verdict |-> NoVerdict]

DurFormTypeOK ==
  /\ durStatus \in FormStatus
  /\ slot \in [DurDocId -> Slot]
  /\ durFiling \in [DurUpload -> DurFiling]
  /\ durReq \in [DurHandler -> DurRequest]
  /\ queued \in [DurUpload -> 0..DurMaxRuns]
  /\ durCast \in DurCasts
  /\ rulings \subseteq DurDocId

DurFormInit ==
  /\ durStatus = "NOT_STARTED"
  /\ slot = [d \in DurDocId |-> EmptySlot]
  /\ durFiling = [u \in DurUpload |-> [pc |-> "new", docId |-> AnyDurDoc, version |-> 0]]
  /\ durReq = [h \in DurHandler |-> DurIdle]
  /\ queued = [u \in DurUpload |-> 0]
  /\ durCast \in DurCasts
  /\ rulings = {}

DurOpen ==
  {u \in DurUpload : durFiling[u].pc \notin {"new", "done", "failed"}}
    \cup {h \in DurHandler : durReq[h] # DurIdle}

\* A request of the kind "kind" reads the form, finds that it may go on and will write as "r" says.
DurStart(h, kind, r) ==
  /\ durReq[h] = DurIdle
  /\ kind \in durCast.ops
  /\ Cardinality(DurOpen) < durCast.open
  /\ durReq' = [durReq EXCEPT ![h] = r]
  /\ UNCHANGED <<durStatus, slot, durFiling, queued, durCast, rulings>>

DurFinish(h) == durReq' = [durReq EXCEPT ![h] = DurIdle]

\* assertCanUlbUpload.
CanUlbUpload(d) == durStatus \in UlbEditable /\ OpenToUlb(slot[d])

-----------------------------------------------------------------------------
(* confirmUpload                                                           *)

DurCheckUpload(u, d) ==
  /\ durFiling[u].pc = "new"
  /\ Cardinality(DurOpen) < durCast.open
  /\ Cardinality({v \in DurUpload : durFiling[v].pc # "new"}) < durCast.uploads
  /\ CanUlbUpload(d)
  /\ durFiling' = [durFiling EXCEPT ![u] =
       [pc |-> "checked", docId |-> d, version |-> slot[d].version + 1]]
  /\ UNCHANGED <<durStatus, slot, durReq, queued, durCast, rulings>>

\* After the file was read from S3; only NOT_STARTED becomes IN_PROGRESS.
DurTouchForm(u) ==
  /\ durFiling[u].pc = "checked"
  /\ durFiling' = [durFiling EXCEPT ![u].pc = "touched"]
  /\ durStatus' = IF durStatus = "NOT_STARTED" THEN "IN_PROGRESS" ELSE durStatus
  /\ UNCHANGED <<slot, durReq, queued, durCast, rulings>>

\* The manual-review fields of the slot stay.
DurWriteSlot(u) ==
  /\ durFiling[u].pc = "touched"
  /\ slot' = [slot EXCEPT ![durFiling[u].docId] =
       [@ EXCEPT !.upload = u, !.processing = "PROCESSING", !.validation = "NONE",
                 !.requested = FALSE, !.job = 0, !.version = durFiling[u].version]]
  /\ durFiling' = [durFiling EXCEPT ![u].pc = "slotted"]
  /\ UNCHANGED <<durStatus, durReq, queued, durCast, rulings>>

\* The row of the upload history; document and version are unique there, and when another upload
\* has taken the version meanwhile the request fails with the slot written.
DurVersionTaken(u) ==
  \E v \in DurUpload \ {u} : /\ durFiling[v].pc \in {"recorded", "done"}
                           /\ durFiling[v].docId = durFiling[u].docId
                           /\ durFiling[v].version = durFiling[u].version

DurRecordUpload(u) ==
  /\ durFiling[u].pc = "slotted"
  /\ durFiling' = [durFiling EXCEPT ![u].pc = IF DurVersionTaken(u) THEN "failed" ELSE "recorded"]
  /\ UNCHANGED <<durStatus, slot, durReq, queued, durCast, rulings>>

DurEnqueueUpload(u) ==
  /\ durFiling[u].pc = "recorded"
  /\ queued[u] < DurMaxRuns
  /\ durFiling' = [durFiling EXCEPT ![u].pc = "done"]
  /\ queued' = [queued EXCEPT ![u] = @ + 1]
  /\ UNCHANGED <<durStatus, slot, durReq, durCast, rulings>>

-----------------------------------------------------------------------------
(* retryUpload                                                             *)

\* Also while a validation of the upload is still running, while another retry of it is under way,
\* and before confirmUpload has recorded and queued it.
DurBeginRetry(h, d) ==
  LET u == slot[d].upload
  IN /\ CanUlbUpload(d)
     /\ u # NoUpload
     /\ queued[u] < DurMaxRuns
     /\ DurStart(h, "retry", [DurIdle EXCEPT !.op = "retry", !.docId = d, !.on = u])

\* By docId alone; the job and verdict that were recorded stay until the next ones come.
DurRetrySlot(h) ==
  /\ durReq[h].op = "retry"
  /\ slot' = [slot EXCEPT ![durReq[h].docId].processing = "PROCESSING"]
  /\ durReq' = [durReq EXCEPT ![h].op = "enqueue"]
  /\ UNCHANGED <<durStatus, durFiling, queued, durCast, rulings>>

DurEnqueueRetry(h) ==
  /\ durReq[h].op = "enqueue"
  /\ queued[durReq[h].on] < DurMaxRuns
  /\ queued' = [queued EXCEPT ![durReq[h].on] = @ + 1]
  /\ DurFinish(h)
  /\ UNCHANGED <<durStatus, slot, durFiling, durCast, rulings>>

-----------------------------------------------------------------------------
(* submitToState, decideDur, undoDurApproval                               *)

\* Mutant: only the documents that were uploaded are asked for.
DurUploadedPassed == \A d \in DurDocId : slot[d].upload # NoUpload => slot[d].processing = "PASSED"

DurAllPassed == \A d \in DurDocId : slot[d].processing = "PASSED"

DurBeginSubmit(h) ==
  /\ durStatus \in UlbEditable
  /\ DurAllPassed
  /\ DurStart(h, "submit", [DurIdle EXCEPT !.op = "submit"])

DurBeginDecide(h, v) ==
  /\ durStatus = "UNDER_REVIEW_BY_STATE"
  /\ DurStart(h, "section", [DurIdle EXCEPT !.op = "section", !.verdict = v])

DurBeginUndo(h) ==
  /\ durStatus = "APPROVED_BY_STATE"
  /\ DurStart(h, "undo", [DurIdle EXCEPT !.op = "undo"])

\* Mutant: UNDO, which only the form log has, gets on the form.
LoggedStatus(r) == IF r.op = "undo" THEN "UNDO" ELSE "UNDER_REVIEW_BY_STATE"

\* The form goes to the State: by a submit, or back by the undo of an approval.
PendingStatus(r) == "UNDER_REVIEW_BY_STATE"

\* The three of them write the status without a condition.
DurWriteStatus(h) ==
  /\ durReq[h].op \in {"submit", "section", "undo"}
  /\ durStatus' = CASE durReq[h].verdict = "APPROVED" -> "APPROVED_BY_STATE"
                    [] durReq[h].verdict = "RETURNED" -> "RETURNED_BY_STATE"
                    [] durReq[h].verdict = NoVerdict -> PendingStatus(durReq[h])
  /\ DurFinish(h)
  /\ UNCHANGED <<slot, durFiling, queued, durCast, rulings>>

-----------------------------------------------------------------------------
(* requestManualReview, decideManualReview                                 *)

DurBeginAsk(h, d) ==
  /\ CanAsk(slot[d])
  /\ DurStart(h, "ask", [DurIdle EXCEPT !.op = "ask", !.docId = d])

\* By docId alone.
DurAsk(h) ==
  LET d == durReq[h].docId
  IN /\ durReq[h].op = "ask"
     /\ slot' = [slot EXCEPT ![d].requested = TRUE, ![d].review = NoVerdict]
     /\ DurFinish(h)
     /\ UNCHANGED <<durStatus, durFiling, queued, durCast, rulings>>

DurBeginRuling(h, d, v) ==
  /\ slot[d].upload # NoUpload
  /\ Awaiting(slot[d])
  /\ DurStart(h, "decide", [DurIdle EXCEPT !.op = "decide", !.docId = d, !.verdict = v])

\* The condition in the filter of the write: no decision yet. Which upload it is about is not asked.
StillUndecided(item) == item.review = NoVerdict

DurRule(h) ==
  LET d == durReq[h].docId
      v == durReq[h].verdict
  IN /\ durReq[h].op = "decide"
     /\ \/ /\ StillUndecided(slot[d])
           /\ slot' = [slot EXCEPT ![d] = Ruling(@, v)]
           /\ rulings' = IF v = "APPROVED" THEN rulings \cup {d} ELSE rulings
        \/ /\ ~StillUndecided(slot[d])
           /\ UNCHANGED <<slot, rulings>>
     /\ DurFinish(h)
     /\ UNCHANGED <<durStatus, durFiling, queued, durCast>>

-----------------------------------------------------------------------------
DurConfirm(u) ==
  \/ \E d \in DurDocId : DurCheckUpload(u, d)
  \/ DurTouchForm(u) \/ DurWriteSlot(u) \/ DurRecordUpload(u) \/ DurEnqueueUpload(u)

DurUserRequest(h) ==
  \/ \E d \in DurDocId : \/ DurBeginRetry(h, d) \/ DurBeginAsk(h, d)
                         \/ \E v \in Verdict : DurBeginRuling(h, d, v)
  \/ \E v \in Verdict : DurBeginDecide(h, v)
  \/ DurBeginSubmit(h) \/ DurBeginUndo(h)
  \/ DurRetrySlot(h) \/ DurEnqueueRetry(h) \/ DurWriteStatus(h) \/ DurAsk(h) \/ DurRule(h)

\* A request fails or its server dies between two of its steps.
DurRequestDies ==
  /\ durCast.faults
  /\ \/ \E u \in DurUpload : /\ durFiling[u].pc \notin {"new", "done", "failed"}
                             /\ durFiling' = [durFiling EXCEPT ![u].pc =
                                               IF @ = "recorded" THEN "done" ELSE "failed"]
                             /\ UNCHANGED durReq
     \/ \E h \in DurHandler : durReq[h] # DurIdle /\ DurFinish(h) /\ UNCHANGED durFiling
  /\ UNCHANGED <<durStatus, slot, queued, durCast, rulings>>

\* The 24 hours of uploadBlockedUntil pass.
DurCooldownEnds ==
  /\ \E d \in DurDocId : Blocked(slot[d]) /\ slot' = [slot EXCEPT ![d].blocked = "over"]
  /\ UNCHANGED <<durStatus, durFiling, durReq, queued, durCast, rulings>>
=============================================================================
