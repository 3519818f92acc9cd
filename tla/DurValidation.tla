----------------------------- MODULE DurValidation -----------------------------
(***************************************************************************)
(* The validation of DUR uploads: DurValidationProcessor, which works the   *)
(* queue, DurStatusSyncService, the cron for jobs that outlive it, and      *)
(* DurValidationResultWriter, which both use; and what holds of the form    *)
(* and its validation together.                                             *)
(*                                                                         *)
(* The vendor's job has one verdict, which the processor and the cron both  *)
(* may read. Any error, a hanging call or a failed write included, makes    *)
(* the processor write FAILED; there is no claim, so the two may write one  *)
(* after the other. A process that dies, or fails once more, is attempted   *)
(* again or gone. Progress writes are left out.                             *)
(***************************************************************************)
EXTENDS DurForm

VARIABLES
  verdict,   \* verdict[<<u, n>>]: what the vendor will say of the n-th job of u
  run        \* run[<<u, n>>]: the processor at the n-th job of u; n = 0 is the cron's sync of u

durVars == <<durRequests, verdict, run>>

Job == DurUpload \X (1..DurMaxRuns)
DurWorker == DurUpload \X (0..DurMaxRuns)

\* job: the job that is polled; docId: the slot the run is about; caught: in the catch block.
RunState ==
  [pc : {"idle", "submitted", "polling", "settled", "write", "ended"}, docId : DurDocId,
   job : 0..DurMaxRuns, result : Validation \cup {"ERROR"}, counts : BOOLEAN, fresh : BOOLEAN,
   strikes : 0..MaxAttempts, caught : BOOLEAN]

RunIdle ==
  [pc |-> "idle", docId |-> AnyDurDoc, job |-> 0, result |-> "NONE", counts |-> FALSE,
   fresh |-> FALSE, strikes |-> 0, caught |-> FALSE]

DurTypeOK ==
  /\ DurFormTypeOK
  /\ verdict \in [Job -> Validation \cup {"ERROR"}]
  /\ run \in [DurWorker -> RunState]

DurInit ==
  /\ DurFormInit
  /\ verdict = [j \in Job |-> "NONE"]
  /\ run = [w \in DurWorker |-> RunIdle]

RunPc(w, pc) == run' = [run EXCEPT ![w].pc = pc]

\* The queued run is over, the cron is ready for its next sync of the upload.
RunOver(w) == IF w[2] = 0 THEN RunIdle ELSE [RunIdle EXCEPT !.pc = "ended"]

-----------------------------------------------------------------------------
(* The processor                                                           *)

\* submitJob: the vendor takes the file; "ERROR" is a job that will be reported failed.
SubmitJob(w) ==
  /\ w[2] \in 1..queued[w[1]]
  /\ run[w].pc = "idle"
  /\ run' = [run EXCEPT ![w] = [RunIdle EXCEPT !.pc = "submitted", !.job = w[2],
                                              !.docId = durFiling[w[1]].docId]]
  /\ \E v \in {"PASS", "FAIL", "ERROR"} : verdict' = [verdict EXCEPT ![w] = v]
  /\ UNCHANGED durRequests

\* The slot whose current upload is u, which every write of a validation filters by.
SlotsOf(w) == {d \in DurDocId : d = run[w].docId /\ slot[d].upload = w[1]}

RecordJobId(w) ==
  /\ run[w].pc = "submitted"
  /\ slot' = [d \in DurDocId |-> IF d \in SlotsOf(w) THEN [slot[d] EXCEPT !.job = w[2]] ELSE slot[d]]
  /\ RunPc(w, "polling")
  /\ UNCHANGED <<durStatus, durFiling, durReq, queued, durCast, rulings, verdict>>

\* Mutant: the filter is the docId alone.
SlotsOfDoc(w) == {run[w].docId}

WritableSlots(w) == SlotsOf(w)

\* The slots when the result of w is written; where none matches, the result is dropped.
WrittenSlots(w) ==
  [d \in DurDocId |-> IF d \in WritableSlots(w) THEN WithResult(slot[d], run[w]) ELSE slot[d]]

\* A write of the result is under way: slot and history, each of which may fail alone.
Interrupted(w) == slot' = slot \/ (run[w].pc = "write" /\ slot' = WrittenSlots(w))

\* A call throws or hangs until its timeout, or with faults the database fails under the result
\* writer, whether or not the slot was written: the catch block goes on to write FAILED.
ProcessorError(w) ==
  /\ w[2] # 0 /\ ~run[w].caught
  /\ run[w].pc \in {"submitted", "polling"} \cup (IF durCast.faults THEN {"settled", "write"} ELSE {})
  /\ run' = [run EXCEPT ![w] = [@ EXCEPT !.pc = "settled", !.result = "ERROR", !.counts = FALSE,
                                         !.caught = TRUE]]
  /\ Interrupted(w)
  /\ UNCHANGED <<durStatus, durFiling, durReq, queued, durCast, rulings, verdict>>

-----------------------------------------------------------------------------
(* The cron                                                                *)

\* findStuckSlots finds the slot in PROCESSING with a job recorded; one sync of it at a time.
StuckSlot(u, d) ==
  /\ durCast.cron
  /\ run[<<u, 0>>].pc = "idle"
  /\ slot[d].upload = u
  /\ slot[d].processing = "PROCESSING"
  /\ slot[d].job # 0
  /\ run' = [run EXCEPT ![<<u, 0>>] = [RunIdle EXCEPT !.pc = "polling", !.docId = d, !.job = slot[d].job]]
  /\ UNCHANGED <<durRequests, verdict>>

\* The vendor does not know the job (404).
JobNotFound(w) ==
  /\ w[2] = 0
  /\ run[w].pc = "polling"
  /\ run' = [run EXCEPT ![w].pc = "settled", ![w].result = "ERROR"]
  /\ UNCHANGED <<durRequests, verdict>>

-----------------------------------------------------------------------------
(* Both                                                                    *)

\* The vendor's verdict is read; a failed validation looks up the strikes before it is written.
JobSettles(w) ==
  /\ run[w].pc = "polling"
  /\ LET v == verdict[<<w[1], run[w].job>>]
     IN run' = [run EXCEPT ![w].result = v, ![w].pc = IF v = "PASS" THEN "write" ELSE "settled"]
  /\ UNCHANGED <<durRequests, verdict>>

\* Still running: the cron leaves the job, the processor gives up after MAX_POLLS.
JobStillRuns(w) ==
  /\ run[w].pc = "polling"
  /\ run' = [run EXCEPT ![w] = RunOver(w)]
  /\ UNCHANGED <<durRequests, verdict>>

\* computePostRejectionUpdate.
DurReadStrikes(w) ==
  /\ run[w].pc = "settled"
  /\ \/ \E d \in SlotsOf(w) :
          /\ Counts(slot[d])
          /\ run' = [run EXCEPT ![w] = [@ EXCEPT !.pc = "write", !.counts = TRUE,
                                        !.fresh = Fresh(slot[d]), !.strikes = NextStrikes(slot[d])]]
     \/ (\A d \in SlotsOf(w) : ~Counts(slot[d])) /\ RunPc(w, "write")
  /\ UNCHANGED <<durRequests, verdict>>

\* writeCompleted, writeFailed.
WriteResult(w) ==
  /\ run[w].pc = "write"
  /\ slot' = WrittenSlots(w)
  /\ run' = [run EXCEPT ![w] = RunOver(w)]
  /\ UNCHANGED <<durStatus, durFiling, durReq, queued, durCast, rulings, verdict>>

\* The process dies before the queue knows that the run is over, or the catch block fails itself;
\* the slot may be written already. The queue may attempt the run again, with a job of its own.
RunDies(w) ==
  /\ durCast.faults
  /\ run[w].pc \in {"submitted", "polling", "settled", "write"}
  /\ run' = [run EXCEPT ![w] = RunOver(w)]
  /\ Interrupted(w)
  /\ \/ UNCHANGED queued
     \/ w[2] # 0 /\ queued[w[1]] < DurMaxRuns /\ queued' = [queued EXCEPT ![w[1]] = @ + 1]
  /\ UNCHANGED <<durStatus, durFiling, durReq, durCast, rulings, verdict>>

Validate(w) ==
  \/ SubmitJob(w) \/ RecordJobId(w) \/ ProcessorError(w) \/ JobNotFound(w)
  \/ JobSettles(w) \/ JobStillRuns(w) \/ DurReadStrikes(w) \/ WriteResult(w) \/ RunDies(w)

DurNext ==
  \/ /\ \/ \E u \in DurUpload : DurConfirm(u)
        \/ \E h \in DurHandler : DurUserRequest(h)
        \/ DurRequestDies
        \/ DurCooldownEnds
     /\ UNCHANGED <<verdict, run>>
  \/ \E u \in DurUpload, d \in DurDocId : StuckSlot(u, d)
  \/ \E w \in DurWorker : Validate(w)

DurSpec == DurInit /\ [][DurNext]_durVars

-----------------------------------------------------------------------------
\* A document passes because a job of the very file it holds passed, or because the ADMIN approved
\* that document: never on the late verdict of a file it held before
\* (dur-validation-result-writer.service.ts).
DurPassedOnEvidence ==
  \A d \in DurDocId : slot[d].processing = "PASSED" =>
    \/ d \in rulings
    \/ \E n \in 1..DurMaxRuns : slot[d].upload # NoUpload /\ verdict[<<slot[d].upload, n>>] = "PASS"

\* Without overlap of requests, retries, cron, and failures of the database or a process: what the
\* State has before it has passed, although validations of replaced files still come in. (A failure
\* around the write of a result writes FAILED over PASSED, or validates once more what was submitted.)
DurSubmittedPassed ==
  durCast.open = 1 /\ "retry" \notin durCast.ops /\ ~durCast.cron /\ ~durCast.faults
    /\ durStatus \in {"UNDER_REVIEW_BY_STATE", "APPROVED_BY_STATE"} =>
      \A d \in DurDocId : slot[d].processing = "PASSED"

\* The same under review, with retries (submitToState: "All documents must pass validation before
\* submitting"; dur-validation-result-writer.service.ts: "a stale result simply finds no matching
\* slot and is dropped").
DurStaleResultIsDropped ==
  durCast.open = 1 /\ durStatus = "UNDER_REVIEW_BY_STATE" =>
    \A d \in DurDocId : slot[d].processing = "PASSED"
=============================================================================
