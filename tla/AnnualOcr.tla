------------------------------- MODULE AnnualOcr -------------------------------
(***************************************************************************)
(* The OCR of an upload: AnnualAccountOcrProcessor, which works the queue,  *)
(* AnnualAccountStatusSyncService, the cron for runs that outlive it, and   *)
(* AnnualAccountOcrResultWriter, which both use.                            *)
(*                                                                         *)
(* A queued run that throws, or whose process dies, is attempted again or,  *)
(* its three attempts used up, is gone; which of the two is left open. The  *)
(* OCR server answers PASS, FAIL or ERROR (failed or unknown job). Progress *)
(* writes are left out.                                                     *)
(***************************************************************************)
EXTENDS AnnualUpload

ocrUnchanged == <<section, pending, filing, req, cast>>

WorkerPc(w, pc) == worker' = [worker EXCEPT ![w].pc = pc]

\* The queued run ends, the cron is ready for its next sync of the upload.
Rest(w) == IF w[2] = 0 THEN Unused ELSE [Unused EXCEPT !.pc = "ended"]

StartRun(w) ==
  /\ worker[w].pc = "waiting"
  /\ history' = [history EXCEPT ![w[1]].started = TRUE]
  /\ WorkerPc(w, "active")
  /\ UNCHANGED <<documents, ocrUnchanged>>

\* The OCR server has accepted the file: the job id goes to the history row and, by docId alone, to
\* the entry, a write that fails when there is no file in it.
RecordJob(w) ==
  LET u == w[1]
  IN /\ worker[w].pc = "active"
     /\ history' = [history EXCEPT ![u].job = TRUE]
     /\ IF Entry(history[u].docId).upload # NoUpload
        THEN WorkerPc(w, "polling")
        ELSE WorkerPc(w, "waiting") \/ WorkerPc(w, "ended")
     /\ UNCHANGED <<documents, ocrUnchanged>>

\* syncPendingJobs finds the row; one sync of an upload at a time (isSyncing).
CronTick(u) ==
  /\ cast.cron
  /\ worker[<<u, 0>>].pc = "unused"
  /\ history[u].processing = "PROCESSING"
  /\ history[u].started /\ history[u].job
  /\ WorkerPc(<<u, 0>>, "polling")
  /\ UNCHANGED <<documents, history, ocrUnchanged>>

\* The OCR is still running: the cron leaves it, the processor after its last poll.
StillRunning(w) ==
  /\ worker[w].pc = "polling"
  /\ worker' = [worker EXCEPT ![w] = Rest(w)]
  /\ UNCHANGED <<documents, history, ocrUnchanged>>

\* Mutant: the claim does not ask for PROCESSING.
AnyRow(u) == TRUE

Claimable(u) == history[u].processing = "PROCESSING"

\* The row after a run.
Settled(row, result) ==
  IF result = "PASS" THEN [row EXCEPT !.processing = "PASSED", !.passes = @ + 1]
  ELSE [row EXCEPT !.processing = "FAILED", !.fails = @ + 1]

\* A poll sees the end of the run and claims the row; only the caller that takes it out of
\* PROCESSING goes on.
Claim(w, result) ==
  LET u == w[1]
  IN /\ worker[w].pc = "polling"
     /\ \/ /\ Claimable(u)
           /\ history' = [history EXCEPT ![u] = Settled(@, result)]
           /\ worker' = [worker EXCEPT ![w].pc = IF result = "PASS" THEN "apply" ELSE "claimed",
                                      ![w].result = result]
        \/ /\ ~Claimable(u)
           /\ worker' = [worker EXCEPT ![w] = Rest(w)]
           /\ UNCHANGED history
     /\ UNCHANGED <<documents, ocrUnchanged>>

\* Mutant: the filter is the docId alone.
EntriesOfDoc(u) == IF HasEntry(history[u].docId) THEN {First(history[u].docId)} ELSE {}

\* slotFilter: the entry whose current upload is u, if any.
EntriesOf(u) == {i \in Entries(history[u].docId) : documents[i].upload = u}

\* computePostRejectionUpdate: an attempt is used up, the last one starts the cooldown.
ReadStrikes(w) ==
  /\ worker[w].pc = "claimed"
  /\ \/ \E i \in EntriesOf(w[1]) :
          /\ Counts(documents[i])
          /\ worker' = [worker EXCEPT ![w] =
               [@ EXCEPT !.pc = "apply", !.counts = TRUE, !.fresh = Fresh(documents[i]),
                         !.strikes = NextStrikes(documents[i])]]
     \/ /\ \A i \in EntriesOf(w[1]) : ~Counts(documents[i])
        /\ WorkerPc(w, "apply")
  /\ UNCHANGED <<documents, history, ocrUnchanged>>

\* With no such entry the result stays in the history only.
ApplyResult(w) ==
  /\ worker[w].pc = "apply"
  /\ documents' = [i \in DOMAIN documents |->
       IF i \in EntriesOf(w[1]) THEN WithResult(documents[i], worker[w]) ELSE documents[i]]
  /\ worker' = [worker EXCEPT ![w] = Rest(w)]
  /\ UNCHANGED <<history, ocrUnchanged>>

\* A call throws or the process dies.
WorkerFails(w) ==
  /\ cast.faults
  /\ worker[w].pc \in {"active", "polling", "claimed", "apply"}
  /\ \/ worker' = [worker EXCEPT ![w] = Rest(w)]
     \/ w[2] # 0 /\ worker' = [worker EXCEPT ![w] = [Unused EXCEPT !.pc = "waiting"]]
  /\ UNCHANGED <<documents, history, ocrUnchanged>>

OcrStep ==
  \/ \E u \in Upload : CronTick(u)
  \/ \E w \in Worker : \/ StartRun(w) \/ RecordJob(w) \/ StillRunning(w)
                       \/ \E result \in {"PASS", "FAIL", "ERROR"} : Claim(w, result)
                       \/ ReadStrikes(w) \/ ApplyResult(w) \/ WorkerFails(w)
=============================================================================
