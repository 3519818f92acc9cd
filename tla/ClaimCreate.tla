------------------------------ MODULE ClaimCreate ------------------------------
(***************************************************************************)
(* ClaimLetterAssemblyService.createDraft and the two reclaim paths for     *)
(* builds that never finish: the inline one of a conflicting create, and    *)
(* the hourly cron of ClaimLetterRecoveryService.                           *)
(*                                                                         *)
(* A create request is a process; each awaited database call or transaction *)
(* is a step, so any other request, cron run, abandon or crash can fall     *)
(* between two of them. The reservation transaction takes two steps, its    *)
(* snapshot read of the used slots and its inserts and commit.              *)
(***************************************************************************)
EXTENDS ClaimStore

CONSTANT ChunkSize   \* CLAIM_LETTER_CHILD_INSERT_CHUNK_SIZE, 200 in the code

ASSUME ChunkAssumption == ChunkSize \in Nat \ {0}

VARIABLES
  req,     \* req[r]: the create request r and its local variables
  sweep    \* ids the running cron sweep still has to clean up

cvars == <<store, req, sweep>>

\* A client sends the same key again when it retries, so several requests may carry one key.
Pc == {"idle", "canCreate", "prepare", "reserve", "insert", "reclaim", "sweep", "persist",
       "verify", "locks", "finalize", "lookup", "abort", "done", "failed"}

ReqState ==
  [pc : Pc, key : Key \cup {NoKey}, sel : SUBSET Ulb, slot : 0 .. MaxBatchNumber,
   retried : BOOLEAN, cand : SUBSET Batch, todo : SUBSET Ulb, seen : SUBSET Ulb,
   result : Batch \cup {NoBatch}]

IdleReq ==
  [pc |-> "idle", key |-> NoKey, sel |-> {}, slot |-> 0, retried |-> FALSE, cand |-> {},
   todo |-> {}, seen |-> {}, result |-> NoBatch]

CreateTypeOK ==
  /\ StoreTypeOK
  /\ req \in [Batch -> ReqState]
  /\ sweep \in SUBSET Batch

CreateProcInit ==
  /\ req = [r \in Batch |-> IdleReq]
  /\ sweep = {}

CreateInit == StoreInit /\ CreateProcInit

At(r, pc) == req[r].pc = pc
Step(r, q) == req' = [req EXCEPT ![r] = q]
Goto(r, pc) == Step(r, [req[r] EXCEPT !.pc = pc])

\* A request that ends forgets its local variables, but for what it answered.
Answer(r, k, b) == Step(r, [IdleReq EXCEPT !.pc = "done", !.key = k, !.result = b])
Fail(r) == Step(r, [IdleReq EXCEPT !.pc = "failed"])

-----------------------------------------------------------------------------
(* createDraftRaw, before anything is written                              *)

\* A request arrives with a non-empty selection and runs checkIdempotentRetry: a READY batch with
\* its key is returned as it is, a BUILDING one is a conflict.
Arrive(r, k, S) ==
  /\ At(r, "idle")
  /\ S # {}
  /\ LET same == {b \in Batch : Exists(b) /\ batch[b].key = k}
     IN \/ same = {} /\ Step(r, [IdleReq EXCEPT !.pc = "canCreate", !.key = k, !.sel = S])
        \/ \E b \in same : IF Ready(b) THEN Answer(r, k, b) ELSE Fail(r)
  /\ UNCHANGED <<store, sweep>>

\* ClaimLetterActiveBatchService.assertCanCreate, outside the reservation transaction.
CheckCanCreate(r) ==
  /\ At(r, "canCreate")
  /\ IF NoActiveBatch THEN Goto(r, "prepare") ELSE Fail(r)
  /\ UNCHANGED <<store, sweep>>

\* prepareChildren: the gate, eligibility, allocation and amount checks, all on other collections;
\* here they may pass or refuse.
Prepare(r) ==
  /\ At(r, "prepare")
  /\ Goto(r, "reserve") \/ Fail(r)
  /\ UNCHANGED <<store, sweep>>

-----------------------------------------------------------------------------
(* attemptReserveBatchSlotAndLocks                                         *)

\* The slots of the installment no document that is not abandoned has.
FreeSlots == {n \in 1 .. MaxBatchNumber : \A b \in Batch : HoldsSlot(b) => batch[b].number # n}

\* A conflict that may be a stale build's: one reclaim, then a single retry whose error is final.
Reclaimable(r) == IF req[r].retried THEN Fail(r) ELSE Goto(r, "reclaim")

\* The transaction opens: allocateBatchNumber takes the first free slot of its snapshot.
AllocateSlot(r) ==
  /\ At(r, "reserve")
  /\ IF FreeSlots = {}
     THEN Reclaimable(r)
     ELSE \E n \in FreeSlots :
            /\ \A m \in FreeSlots : n <= m
            /\ Step(r, [req[r] EXCEPT !.pc = "insert", !.slot = n])
  /\ UNCHANGED <<store, sweep>>

\* Mutant: the unique index on the claim slot is missing.
KeyClash(r) == \E b \in Batch : Exists(b) /\ batch[b].key = req[r].key

\* Unique indexes on the batch collection: the slot among the not abandoned, and buildRequestId.
ParentClash(r) ==
  \E b \in Batch :
    \/ HoldsSlot(b) /\ batch[b].number = req[r].slot
    \/ Exists(b) /\ batch[b].key = req[r].key

\* Mutant: only a selection that is locked throughout clashes.
LockClashWithAll(r) == \A u \in req[r].sel : lock[u] # NoBatch

\* The unique index on the ULB of a lock.
LockClash(r) == \E u \in req[r].sel : lock[u] # NoBatch

\* A write conflict with a transaction that still has the same index entry open.
OpenSlotClash(r) == \E q \in Batch \ {r} : At(q, "insert") /\ req[q].slot = req[r].slot
OpenLockClash(r) == \E q \in Batch \ {r} : At(q, "insert") /\ req[q].sel \cap req[r].sel # {}

\* The parent insert hits a committed or open duplicate: live contention, never reclaimed.
SlotTaken(r) ==
  /\ At(r, "insert")
  /\ ParentClash(r) \/ OpenSlotClash(r)
  /\ Fail(r)
  /\ UNCHANGED <<store, sweep>>

\* The parent fits but some ULB is locked, or is being locked: the whole transaction aborts.
UlbLocked(r) ==
  /\ At(r, "insert")
  /\ ~ParentClash(r)
  /\ LockClash(r) \/ OpenLockClash(r)
  /\ Reclaimable(r)
  /\ UNCHANGED <<store, sweep>>

\* The parent and one lock per selected ULB commit together.
Reserve(r) ==
  /\ At(r, "insert")
  /\ ~ParentClash(r)
  /\ ~LockClash(r)
  /\ batch' = [batch EXCEPT ![r] =
                 [NoDoc EXCEPT !.assembly = "BUILDING", !.number = req[r].slot,
                               !.key = req[r].key, !.createdAt = clock]]
  /\ lock' = [u \in Ulb |-> IF u \in req[r].sel THEN r ELSE lock[u]]
  /\ clock' = clock + 1
  /\ Step(r, [req[r] EXCEPT !.pc = "persist", !.todo = req[r].sel])
  /\ UNCHANGED <<child, history, sweep>>

-----------------------------------------------------------------------------
(* reclaimBlockingStaleBuilds                                              *)

\* Mutant: builds that have child rows are taken for alive.
StaleEmptyBuilds == {b \in Batch : Building(b) /\ batch[b].stale /\ child[b] = {}}

\* What the reclaim and the cron look for.
StaleBuilds == {b \in Batch : Building(b) /\ batch[b].stale}

\* Slot holders and owners of a selected ULB's lock, cut down to the stale BUILDING ones: nothing
\* stale means the conflict was live.
FindStale(r) ==
  /\ At(r, "reclaim")
  /\ LET cand == {b \in StaleBuilds : HoldsSlot(b) \/ \E u \in req[r].sel : lock[u] = b}
     IN IF cand = {} THEN Fail(r)
        ELSE Step(r, [req[r] EXCEPT !.pc = "sweep", !.cand = cand])
  /\ UNCHANGED <<store, sweep>>

\* One transaction per candidate; after the last one the reservation is tried once more.
ReclaimOne(r, b) ==
  /\ At(r, "sweep")
  /\ b \in req[r].cand
  /\ DeleteBuildingArtifacts(b)
  /\ Step(r, [req[r] EXCEPT !.cand = @ \ {b}, !.retried = TRUE,
                            !.pc = IF req[r].cand = {b} THEN "reserve" ELSE "sweep"])
  /\ UNCHANGED sweep

-----------------------------------------------------------------------------
(* persistPrepared, verifyAndFinalize                                      *)

\* persistChildren writes a chunk of child rows; it never looks at the parent.
PersistChunk(r, C) ==
  /\ At(r, "persist")
  /\ C # {} /\ C \subseteq req[r].todo /\ Cardinality(C) <= ChunkSize
  /\ child' = [child EXCEPT ![r] = @ \cup C]
  /\ Step(r, [req[r] EXCEPT !.todo = @ \ C,
                            !.pc = IF req[r].todo = C THEN "verify" ELSE "persist"])
  /\ UNCHANGED <<batch, lock, history, clock, sweep>>

\* assertNoDrift may refuse; then the child rows read back must be exactly the requested ULBs.
VerifyChildren(r) ==
  /\ At(r, "verify")
  /\ \/ Goto(r, "abort")
     \/ /\ child[r] = req[r].sel
        /\ Step(r, [req[r] EXCEPT !.pc = "locks", !.seen = child[r]])
  /\ UNCHANGED <<store, sweep>>

\* assertLocksPresent: every requested ULB is locked by this batch.
VerifyLocks(r) ==
  /\ At(r, "locks")
  /\ Goto(r, IF req[r].sel \subseteq LocksOf(r) THEN "finalize" ELSE "abort")
  /\ UNCHANGED <<store, sweep>>

\* The transaction that publishes the batch: BUILDING -> READY with its history row. The driver may
\* still report an error for a commit that took effect; the build then goes on to abort.
Finalize(r) ==
  /\ At(r, "finalize")
  /\ Building(r)
  /\ batch' = [batch EXCEPT ![r] = [@ EXCEPT !.assembly = "READY", !.stale = FALSE,
                                               !.content = req[r].seen]]
  /\ Record(r, "CREATED")
  /\ Answer(r, req[r].key, r) \/ Goto(r, "abort")
  /\ UNCHANGED <<child, lock, clock, sweep>>

\* The guarded update matched nothing.
FinalizeMissed(r) ==
  /\ At(r, "finalize")
  /\ ~Building(r)
  /\ Goto(r, "lookup")
  /\ UNCHANGED <<store, sweep>>

\* Mutant: a guarded update that matched nothing is taken for success.
AlreadyFinalized(r) ==
  /\ At(r, "lookup")
  /\ Answer(r, req[r].key, r)
  /\ UNCHANGED <<store, sweep>>

\* resolveAlreadyFinalized: somebody else's finalize counts as success.
ResolveAlreadyFinalized(r) ==
  /\ At(r, "lookup")
  /\ IF Ready(r) THEN Answer(r, req[r].key, r) ELSE Goto(r, "abort")
  /\ UNCHANGED <<store, sweep>>

\* abortBuild, after any failure from persistPrepared on.
AbortBuild(r) ==
  /\ At(r, "abort")
  /\ DeleteBuildingArtifacts(r)
  /\ Fail(r)
  /\ UNCHANGED sweep

-----------------------------------------------------------------------------
(* Failures, time, cron, abandon                                           *)

\* A database error: before the reservation nothing was written, after it the build is rolled back.
BuildStepFails(r) ==
  /\ req[r].pc \in {"canCreate", "prepare", "reserve", "insert", "reclaim", "sweep",
                    "persist", "verify", "locks", "finalize", "lookup", "abort"}
  /\ IF req[r].pc \in {"persist", "verify", "locks", "finalize", "lookup"}
     THEN Goto(r, "abort") ELSE Fail(r)
  /\ UNCHANGED <<store, sweep>>

\* The server process serving the request dies: nothing is rolled back.
BuildCrash(r) ==
  /\ req[r].pc \notin {"idle", "done", "failed"}
  /\ Fail(r)
  /\ UNCHANGED <<store, sweep>>

\* CLAIM_LETTER_STALE_BUILD_THRESHOLD_MINUTES pass; an older document is stale no later.
Age(b) ==
  /\ Building(b)
  /\ ~batch[b].stale
  /\ \A c \in Batch : Building(c) /\ batch[c].createdAt < batch[b].createdAt => batch[c].stale
  /\ batch' = [batch EXCEPT ![b].stale = TRUE]
  /\ UNCHANGED <<lock, child, history, clock, req, sweep>>

\* runScheduledStaleBuildCleanup: the query of cleanupStaleBuilds.
CronScan ==
  /\ sweep = {}
  /\ StaleBuilds # {}
  /\ sweep' = StaleBuilds
  /\ UNCHANGED <<store, req>>

\* cleanupOneStaleBuild.
CronClean(b) ==
  /\ b \in sweep
  /\ DeleteBuildingArtifacts(b)
  /\ sweep' = sweep \ {b}
  /\ UNCHANGED req

\* An error or a restart ends the sweep; the next one starts over.
CronStops ==
  /\ sweep # {}
  /\ sweep' = {}
  /\ UNCHANGED <<store, req>>

AbandonReady(b) == AbandonDraft(b) /\ UNCHANGED <<req, sweep>>

-----------------------------------------------------------------------------
RequestStep(r) ==
  \/ \E k \in Key, S \in SUBSET Ulb : Arrive(r, k, S)
  \/ CheckCanCreate(r) \/ Prepare(r)
  \/ AllocateSlot(r) \/ SlotTaken(r) \/ UlbLocked(r) \/ Reserve(r)
  \/ FindStale(r) \/ \E b \in Batch : ReclaimOne(r, b)
  \/ \E C \in SUBSET Ulb : PersistChunk(r, C)
  \/ VerifyChildren(r) \/ VerifyLocks(r)
  \/ Finalize(r) \/ FinalizeMissed(r) \/ ResolveAlreadyFinalized(r)
  \/ AbortBuild(r) \/ BuildStepFails(r) \/ BuildCrash(r)

CleanupStep == CronScan \/ CronStops \/ \E b \in Batch : CronClean(b) \/ Age(b)

CreateNext ==
  \/ \E r \in Batch : RequestStep(r)
  \/ CleanupStep
  \/ \E b \in Batch : AbandonReady(b)

CreateSpec == CreateInit /\ [][CreateNext]_cvars

(* The clock and the cron need no client; a request may hang or die for good. A sweep that keeps
   failing would starve the reclaim, so each deletion is strongly fair: an infinitely recurring
   sweep over a row gets through to it in the end. *)
CleanupFairness ==
  /\ WF_cvars(CronScan)
  /\ \A b \in Batch : WF_cvars(Age(b)) /\ SF_cvars(CronClean(b))

FairCreateSpec == CreateSpec /\ CleanupFairness
=============================================================================
