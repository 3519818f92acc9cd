--------------------------- MODULE ClaimCreate_proofs ---------------------------
(***************************************************************************)
(* Proofs about the create pipeline, for every number of requests, ULBs,    *)
(* keys and claim slots and every chunk size.                               *)
(***************************************************************************)
EXTENDS ClaimCreateProps, SequenceTheorems, TLAPS

-----------------------------------------------------------------------------
(* Types                                                                   *)

\* Deleting a build's documents keeps the collections well-typed.
LEMMA DeleteTyped ==
  ASSUME StoreTypeOK, NEW b \in Batch, DeleteBuildingArtifacts(b)
  PROVE  StoreTypeOK'
<1>1. DeletedDoc \in BatchDoc
  <2>1. NoDoc \in BatchDoc
    BY StoreAssumption DEF NoDoc, BatchDoc, AssemblyStatus, FormStatus
  <2>2. QED  BY <2>1 DEF DeletedDoc, BatchDoc, AssemblyStatus
<1>2. CASE Building(b)
  BY <1>1, <1>2 DEF StoreTypeOK, DeleteBuildingArtifacts
<1>3. CASE ~Building(b)
  BY <1>3 DEF StoreTypeOK, DeleteBuildingArtifacts, store
<1>4. QED  BY <1>2, <1>3

\* Abandoning keeps the collections well-typed.
LEMMA AbandonTyped ==
  ASSUME StoreTypeOK, NEW b \in Batch, AbandonDraft(b)
  PROVE  StoreTypeOK'
<1>1. history' \in [Batch -> Seq(Transition)]
  <2>1. "ABANDONED" \in Transition  BY DEF Transition
  <2>2. history[b] \in Seq(Transition)  BY DEF StoreTypeOK
  <2>3. Append(history[b], "ABANDONED") \in Seq(Transition)  BY <2>1, <2>2
  <2>4. QED  BY <2>3 DEF StoreTypeOK, AbandonDraft, Record
<1>2. batch' \in [Batch -> BatchDoc]
  BY ZenonT(40) DEF StoreTypeOK, AbandonDraft, BatchDoc
<1>3. QED  BY <1>1, <1>2 DEF StoreTypeOK, AbandonDraft

\* Giving a request a well-typed state leaves the requests well-typed.
LEMMA StepTyped ==
  ASSUME req \in [Batch -> ReqState], NEW r \in Batch, NEW q \in ReqState, Step(r, q)
  PROVE  req' \in [Batch -> ReqState]
BY DEF Step

\* A request in any state can be sent to any program counter.
LEMMA GotoTyped ==
  ASSUME req \in [Batch -> ReqState], NEW r \in Batch, NEW pc \in Pc, Goto(r, pc)
  PROVE  req' \in [Batch -> ReqState]
<1>1. [req[r] EXCEPT !.pc = pc] \in ReqState  BY DEF ReqState
<1>2. QED  BY <1>1, StepTyped DEF Goto

\* Ending a request leaves it well-typed.
LEMMA EndTyped ==
  ASSUME req \in [Batch -> ReqState], NEW r \in Batch, NEW k \in Key \cup {NoKey},
         NEW b \in Batch, Answer(r, k, b) \/ Fail(r)
  PROVE  req' \in [Batch -> ReqState]
<1>1. IdleReq \in ReqState  BY StoreAssumption DEF IdleReq, ReqState, Pc
<1>2. [IdleReq EXCEPT !.pc = "done", !.key = k, !.result = b] \in ReqState
  BY <1>1 DEF ReqState, Pc
<1>3. [IdleReq EXCEPT !.pc = "failed"] \in ReqState  BY <1>1 DEF ReqState, Pc
<1>4. QED  BY <1>2, <1>3, StepTyped DEF Answer, Fail

\* The fields of the state of a request that was answered.
LEMMA AnswerShape ==
  ASSUME NEW k, NEW b
  PROVE  LET q == [IdleReq EXCEPT !.pc = "done", !.key = k, !.result = b]
         IN q.pc = "done" /\ q.key = k /\ q.result = b
BY DEF IdleReq

\* A request that failed says so.
LEMMA FailShape ==
  LET q == [IdleReq EXCEPT !.pc = "failed"] IN q.pc = "failed"
BY DEF IdleReq

\* The initial state is well-typed.
LEMMA InitTyped == CreateInit => CreateTypeOK
<1>1. NoDoc \in BatchDoc
  BY StoreAssumption DEF NoDoc, BatchDoc, AssemblyStatus, FormStatus
<1>2. IdleReq \in ReqState  BY StoreAssumption DEF IdleReq, ReqState, Pc
<1>3. CreateInit => StoreTypeOK
  BY <1>1 DEF CreateInit, StoreInit, StoreTypeOK
<1>4. QED
  BY <1>2, <1>3 DEF CreateInit, CreateProcInit, CreateTypeOK

\* Deciding between two counters, or a counter and failure, leaves the requests well-typed.
LEMMA BranchTyped ==
  ASSUME req \in [Batch -> ReqState], NEW r \in Batch, NEW pc \in Pc,
         Goto(r, pc) \/ Fail(r)
  PROVE  req' \in [Batch -> ReqState]
<1>1. CASE Goto(r, pc)  BY <1>1, GotoTyped
<1>2. CASE Fail(r)
  BY <1>2, EndTyped
<1>3. QED  BY <1>1, <1>2

\* Every step of a request keeps the state well-typed.
LEMMA RequestTyped ==
  ASSUME CreateTypeOK, NEW r \in Batch, RequestStep(r)
  PROVE  CreateTypeOK'
<1> USE DEF CreateTypeOK
<1>0. IdleReq \in ReqState  BY StoreAssumption DEF IdleReq, ReqState, Pc
<1>r. req[r].key \in Key \cup {NoKey} /\ req[r] \in ReqState  BY DEF ReqState
<1>1. ASSUME NEW k \in Key, NEW S \in SUBSET Ulb, Arrive(r, k, S)  PROVE CreateTypeOK'
  <2>1. StoreTypeOK'  BY <1>1 DEF Arrive, StoreTypeOK, store
  <2>2. [IdleReq EXCEPT !.pc = "canCreate", !.key = k, !.sel = S] \in ReqState
    BY <1>0 DEF ReqState, Pc
  <2>3. req' \in [Batch -> ReqState]
    BY <1>1, <2>2, StepTyped, EndTyped DEF Arrive
  <2>4. QED  BY <1>1, <2>1, <2>3 DEF Arrive
<1>2. ASSUME CheckCanCreate(r)  PROVE CreateTypeOK'
  <2>1. req' \in [Batch -> ReqState]
    BY <1>2, BranchTyped, "prepare" \in Pc DEF CheckCanCreate, Pc
  <2>2. QED  BY <1>2, <2>1 DEF CheckCanCreate, StoreTypeOK, store
<1>3. ASSUME Prepare(r)  PROVE CreateTypeOK'
  <2>1. req' \in [Batch -> ReqState]
    BY <1>3, BranchTyped, "reserve" \in Pc DEF Prepare, Pc
  <2>2. QED  BY <1>3, <2>1 DEF Prepare, StoreTypeOK, store
<1>4. ASSUME Reclaimable(r)  PROVE req' \in [Batch -> ReqState]
  BY <1>4, BranchTyped, "reclaim" \in Pc DEF Reclaimable, Pc
<1>5. ASSUME AllocateSlot(r)  PROVE CreateTypeOK'
  <2>1. CASE FreeSlots = {}
    BY <1>4, <1>5, <2>1 DEF AllocateSlot, StoreTypeOK, store
  <2>2. CASE FreeSlots # {}
    <3>1. PICK n \in FreeSlots : Step(r, [req[r] EXCEPT !.pc = "insert", !.slot = n])
      BY <1>5, <2>2 DEF AllocateSlot
    <3>2. n \in 0 .. MaxBatchNumber  BY StoreAssumption DEF FreeSlots
    <3>3. [req[r] EXCEPT !.pc = "insert", !.slot = n] \in ReqState
      BY <1>r, <3>2 DEF ReqState, Pc
    <3>5. req' \in [Batch -> ReqState]  BY <3>1, <3>3, StepTyped
    <3>4. QED  BY <1>5, <3>5 DEF AllocateSlot, StoreTypeOK, store
  <2>3. QED  BY <2>1, <2>2
<1>6. ASSUME SlotTaken(r)  PROVE CreateTypeOK'
  <2>1. req' \in [Batch -> ReqState]  BY <1>6, EndTyped DEF SlotTaken
  <2>2. QED  BY <1>6, <2>1 DEF SlotTaken, StoreTypeOK, store
<1>7. ASSUME UlbLocked(r)  PROVE CreateTypeOK'
  BY <1>4, <1>7 DEF UlbLocked, StoreTypeOK, store
<1>8. ASSUME Reserve(r)  PROVE CreateTypeOK'
  <2>1. NoDoc \in BatchDoc
    BY StoreAssumption DEF NoDoc, BatchDoc, AssemblyStatus, FormStatus
  <2>2. req[r].slot \in 0 .. MaxBatchNumber /\ req[r].key \in Key \cup {NoKey}
        /\ req[r].sel \in SUBSET Ulb
    BY DEF ReqState
  <2>3. batch' \in [Batch -> BatchDoc]
    BY <1>8, <2>1, <2>2 DEF Reserve, StoreTypeOK, BatchDoc, AssemblyStatus
  <2>4. lock' \in [Ulb -> Batch \cup {NoBatch}] /\ clock' \in Nat
    BY <1>8 DEF Reserve, StoreTypeOK
  <2>7. [req[r] EXCEPT !.pc = "persist", !.todo = req[r].sel] \in ReqState
    BY <1>r, <2>2 DEF ReqState, Pc
  <2>5. req' \in [Batch -> ReqState]  BY <1>8, <2>7, StepTyped DEF Reserve
  <2>6. QED  BY <1>8, <2>3, <2>4, <2>5 DEF Reserve, StoreTypeOK
<1>9. ASSUME FindStale(r)  PROVE CreateTypeOK'
  <2>1. req' \in [Batch -> ReqState]
    <3> DEFINE cand == {b \in StaleBuilds : HoldsSlot(b) \/ \E u \in req[r].sel : lock[u] = b}
    <3>1. CASE cand = {}
      BY <1>9, <3>1, EndTyped DEF FindStale
    <3>2. CASE cand # {}
      <4>1. cand \subseteq Batch  BY DEF StaleBuilds
      <4>2. Step(r, [req[r] EXCEPT !.pc = "sweep", !.cand = cand])
        BY <1>9, <3>2 DEF FindStale
      <4> HIDE DEF cand
      <4>3. [req[r] EXCEPT !.pc = "sweep", !.cand = cand] \in ReqState
        BY <1>r, <4>1 DEF ReqState, Pc
      <4>4. QED  BY <4>2, <4>3, StepTyped
    <3>3. QED  BY <3>1, <3>2
  <2>2. QED  BY <1>9, <2>1 DEF FindStale, StoreTypeOK, store
<1>10. ASSUME NEW b \in Batch, ReclaimOne(r, b)  PROVE CreateTypeOK'
  <2>1. StoreTypeOK'  BY <1>10, DeleteTyped DEF ReclaimOne
  <2>4. \A pc \in {"reserve", "sweep"} :
          [req[r] EXCEPT !.cand = @ \ {b}, !.retried = TRUE, !.pc = pc] \in ReqState
    BY <1>r DEF ReqState, Pc
  <2>2. req' \in [Batch -> ReqState]
    <3>1. CASE req[r].cand = {b}  BY <1>10, <2>4, <3>1, StepTyped DEF ReclaimOne
    <3>2. CASE req[r].cand # {b}  BY <1>10, <2>4, <3>2, StepTyped DEF ReclaimOne
    <3>3. QED  BY <3>1, <3>2
  <2>3. QED  BY <1>10, <2>1, <2>2 DEF ReclaimOne
<1>11. ASSUME NEW C \in SUBSET Ulb, PersistChunk(r, C)  PROVE CreateTypeOK'
  <2>1. child' \in [Batch -> SUBSET Ulb]  BY <1>11 DEF PersistChunk, StoreTypeOK
  <2>4. \A pc \in {"verify", "persist"} : [req[r] EXCEPT !.todo = @ \ C, !.pc = pc] \in ReqState
    BY <1>r DEF ReqState, Pc
  <2>2. req' \in [Batch -> ReqState]
    <3>1. CASE req[r].todo = C  BY <1>11, <2>4, <3>1, StepTyped DEF PersistChunk
    <3>2. CASE req[r].todo # C  BY <1>11, <2>4, <3>2, StepTyped DEF PersistChunk
    <3>3. QED  BY <3>1, <3>2
  <2>3. QED  BY <1>11, <2>1, <2>2 DEF PersistChunk, StoreTypeOK
<1>12. ASSUME VerifyChildren(r)  PROVE CreateTypeOK'
  <2>1. child[r] \in SUBSET Ulb  BY DEF StoreTypeOK
  <2>4. [req[r] EXCEPT !.pc = "locks", !.seen = child[r]] \in ReqState
    BY <1>r, <2>1 DEF ReqState, Pc
  <2>2. req' \in [Batch -> ReqState]
    BY <1>12, <2>4, StepTyped, GotoTyped, "abort" \in Pc DEF VerifyChildren, Pc
  <2>3. QED  BY <1>12, <2>2 DEF VerifyChildren, StoreTypeOK, store
<1>13. ASSUME VerifyLocks(r)  PROVE CreateTypeOK'
  <2>1. req' \in [Batch -> ReqState]
    BY <1>13, GotoTyped, "finalize" \in Pc, "abort" \in Pc DEF VerifyLocks, Pc
  <2>2. QED  BY <1>13, <2>1 DEF VerifyLocks, StoreTypeOK, store
<1>14. ASSUME Finalize(r)  PROVE CreateTypeOK'
  <2>1. req[r].seen \in SUBSET Ulb  BY DEF ReqState
  <2>6. [batch[r] EXCEPT !.assembly = "READY", !.stale = FALSE, !.content = req[r].seen] \in BatchDoc
    <3>1. batch[r] \in BatchDoc  BY DEF StoreTypeOK
    <3>2. QED  BY <2>1, <3>1 DEF BatchDoc, AssemblyStatus
  <2>2. batch' \in [Batch -> BatchDoc]
    BY <1>14, <2>6 DEF Finalize, StoreTypeOK
  <2>3. history' \in [Batch -> Seq(Transition)]
    <3>1. Append(history[r], "CREATED") \in Seq(Transition)  BY DEF StoreTypeOK, Transition
    <3>2. QED  BY <1>14, <3>1 DEF Finalize, Record, StoreTypeOK
  <2>4. req' \in [Batch -> ReqState]
    BY <1>14, <1>r, EndTyped, GotoTyped, "abort" \in Pc DEF Finalize, Pc
  <2>5. QED  BY <1>14, <2>2, <2>3, <2>4 DEF Finalize, StoreTypeOK
<1>15. ASSUME FinalizeMissed(r)  PROVE CreateTypeOK'
  <2>1. req' \in [Batch -> ReqState]
    BY <1>15, GotoTyped, "lookup" \in Pc DEF FinalizeMissed, Pc
  <2>2. QED  BY <1>15, <2>1 DEF FinalizeMissed, StoreTypeOK, store
<1>16. ASSUME ResolveAlreadyFinalized(r)  PROVE CreateTypeOK'
  <2>1. req' \in [Batch -> ReqState]
    BY <1>16, <1>r, EndTyped, GotoTyped, "abort" \in Pc DEF ResolveAlreadyFinalized, Pc
  <2>2. QED  BY <1>16, <2>1 DEF ResolveAlreadyFinalized, StoreTypeOK, store
<1>17. ASSUME AbortBuild(r)  PROVE CreateTypeOK'
  <2>1. StoreTypeOK'  BY <1>17, DeleteTyped DEF AbortBuild
  <2>2. req' \in [Batch -> ReqState]  BY <1>17, EndTyped DEF AbortBuild
  <2>3. QED  BY <1>17, <2>1, <2>2 DEF AbortBuild
<1>18. ASSUME BuildStepFails(r)  PROVE CreateTypeOK'
  <2>1. req' \in [Batch -> ReqState]
    BY <1>18, BranchTyped, "abort" \in Pc DEF BuildStepFails, Pc
  <2>2. QED  BY <1>18, <2>1 DEF BuildStepFails, StoreTypeOK, store
<1>19. ASSUME BuildCrash(r)  PROVE CreateTypeOK'
  <2>1. req' \in [Batch -> ReqState]
    BY <1>19, EndTyped DEF BuildCrash
  <2>2. QED  BY <1>19, <2>1 DEF BuildCrash, StoreTypeOK, store
<1>20. QED
  BY <1>1, <1>2, <1>3, <1>5, <1>6, <1>7, <1>8, <1>9, <1>10, <1>11, <1>12, <1>13, <1>14,
     <1>15, <1>16, <1>17, <1>18, <1>19 DEF RequestStep

\* Every step of the system keeps the state well-typed.
LEMMA NextTyped == CreateTypeOK /\ [CreateNext]_cvars => CreateTypeOK'
<1> SUFFICES ASSUME CreateTypeOK, [CreateNext]_cvars  PROVE CreateTypeOK'
  OBVIOUS
<1>1. ASSUME NEW r \in Batch, RequestStep(r)  PROVE CreateTypeOK'
  BY <1>1, RequestTyped
<1>2. ASSUME NEW b \in Batch, Age(b)  PROVE CreateTypeOK'
  <2>1. batch' \in [Batch -> BatchDoc]
    <3>1. batch[b] \in BatchDoc  BY DEF CreateTypeOK, StoreTypeOK
    <3>2. [batch[b] EXCEPT !.stale = TRUE] \in BatchDoc  BY <3>1 DEF BatchDoc
    <3>3. batch' = [batch EXCEPT ![b] = [batch[b] EXCEPT !.stale = TRUE]]  BY <1>2 DEF Age
    <3>4. QED  BY <3>2, <3>3 DEF CreateTypeOK, StoreTypeOK
  <2>2. QED  BY <1>2, <2>1 DEF Age, CreateTypeOK, StoreTypeOK
<1>3. ASSUME CronScan  PROVE CreateTypeOK'
  BY <1>3 DEF CronScan, StaleBuilds, CreateTypeOK, StoreTypeOK, store
<1>4. ASSUME NEW b \in Batch, CronClean(b)  PROVE CreateTypeOK'
  <2>1. StoreTypeOK'  BY <1>4, DeleteTyped DEF CronClean, CreateTypeOK
  <2>2. QED  BY <1>4, <2>1 DEF CronClean, CreateTypeOK
<1>5. ASSUME CronStops  PROVE CreateTypeOK'
  BY <1>5 DEF CronStops, CreateTypeOK, StoreTypeOK, store
<1>6. ASSUME NEW b \in Batch, AbandonReady(b)  PROVE CreateTypeOK'
  <2>1. StoreTypeOK'  BY <1>6, AbandonTyped DEF AbandonReady, CreateTypeOK
  <2>2. QED  BY <1>6, <2>1 DEF AbandonReady, CreateTypeOK
<1>7. ASSUME UNCHANGED cvars  PROVE CreateTypeOK'
  BY <1>7 DEF cvars, store, CreateTypeOK, StoreTypeOK
<1>8. QED
  BY <1>1, <1>2, <1>3, <1>4, <1>5, <1>6, <1>7 DEF CreateNext, CleanupStep

\* The state of the create pipeline is always well-typed.
THEOREM TypeCorrect == CreateSpec => []CreateTypeOK
<1>1. QED  BY InitTyped, NextTyped, PTL DEF CreateSpec

-----------------------------------------------------------------------------
(* The inductive invariant                                                 *)
(*                                                                         *)
(* None of the properties is inductive alone: that a published batch is     *)
(* whole rests on what the request that builds it has already checked, and  *)
(* that no reclaim reaches it on a request having no document before its    *)
(* reservation and only that request finalizing it.                         *)

BeforeReserve == {"idle", "canCreate", "prepare", "reserve", "insert", "reclaim", "sweep"}
AfterReserve == {"persist", "verify", "locks", "finalize"}

\* What a request r with local state q may rely on.
Consistent(r, q) ==
  /\ q.pc \in BeforeReserve => batch[r].assembly = "none"
  /\ q.pc \notin {"idle", "done", "failed"} => q.sel # {}
  /\ q.pc = "insert" => q.slot \in 1 .. MaxBatchNumber
  /\ q.pc \in AfterReserve /\ Building(r) => \A u \in Ulb : lock[u] = r <=> u \in q.sel
  /\ q.pc \in AfterReserve /\ Building(r) => batch[r].key = q.key
  /\ q.pc \in {"locks", "finalize"} /\ Building(r) => child[r] = q.sel /\ q.seen = q.sel
  /\ Ready(r) => q.pc \in {"done", "abort", "failed"}
  /\ q.pc = "done" => /\ q.result \in Batch
                      /\ Ready(q.result)
                      /\ batch[q.result].key = q.key

OnlyReadyAbandoned == \A b \in Batch : batch[b].abandoned => Ready(b)

OnlyReadyClaims == \A b \in Batch : ~Ready(b) => batch[b].content = {}

StoreInv ==
  /\ OnlyReadyAbandoned /\ OnlyReadyClaims /\ LocksAreBacked /\ ReadyIsWhole /\ AuditTrail
  /\ SlotsAreDistinct /\ OneBatchPerKey

CreateInv == CreateTypeOK /\ StoreInv /\ \A r \in Batch : Consistent(r, req[r])

\* The initial state satisfies the invariant.
LEMMA InitInv == CreateInit => CreateInv
<1> SUFFICES ASSUME CreateInit  PROVE CreateInv
  OBVIOUS
<1>1. CreateTypeOK  BY InitTyped
<1>2. \A b \in Batch : batch[b].assembly = "none" /\ ~batch[b].abandoned
  BY DEF CreateInit, StoreInit, NoDoc
<1>3. \A r \in Batch : Consistent(r, req[r])
  BY <1>2 DEF CreateInit, CreateProcInit, IdleReq, Consistent, AfterReserve, Ready
<1>4. LocksAreBacked  BY DEF LocksAreBacked, CreateInit, StoreInit
<1>5. AuditTrail  BY <1>2 DEF AuditTrail, Ready, CreateInit, StoreInit
<1>6. OnlyReadyAbandoned /\ ReadyIsWhole /\ SlotsAreDistinct /\ OneBatchPerKey
  BY <1>2 DEF OnlyReadyAbandoned, ReadyIsWhole, SlotsAreDistinct, OneBatchPerKey, InProgressOrReview,
              HoldsSlot, Exists, Ready
<1>8. OnlyReadyClaims  BY DEF OnlyReadyClaims, CreateInit, StoreInit, NoDoc
<1>7. QED  BY <1>1, <1>3, <1>4, <1>5, <1>6, <1>8 DEF CreateInv, StoreInv

-----------------------------------------------------------------------------
(* The writes                                                              *)

\* A write that keeps what every request relies on, made by a request r that then relies on what is
\* true, keeps the requests' part of the invariant.
LEMMA StepKeepsRequests ==
  ASSUME CreateTypeOK, \A p \in Batch : Consistent(p, req[p]),
         NEW r \in Batch, NEW q0, Step(r, q0), Consistent(r, q0)',
         \A p \in Batch \ {r} : \A q \in ReqState : Consistent(p, q) => Consistent(p, q)'
  PROVE  (\A p \in Batch : Consistent(p, req[p]))'
<1>1. ASSUME NEW p \in Batch  PROVE Consistent(p, req[p])'
  <2>1. CASE p = r
    <3>1. req'[p] = q0  BY <2>1 DEF Step, CreateTypeOK
    <3>2. QED  BY <2>1, <3>1 DEF Consistent
  <2>2. CASE p # r
    <3>1. req'[p] = req[p] /\ req[p] \in ReqState  BY <2>2 DEF Step, CreateTypeOK
    <3>2. Consistent(p, req[p])  OBVIOUS
    <3>3. PICK q \in ReqState : q = req[p]  BY <3>1
    <3>4. Consistent(p, q)'  BY <2>2, <3>2, <3>3
    <3>5. QED  BY <3>1, <3>3, <3>4 DEF Consistent
  <2>3. QED  BY <2>1, <2>2
<1>2. QED  BY <1>1

\* A step that writes no document or lock changes nothing anybody relies on.
LEMMA ReadKeeps ==
  ASSUME StoreInv, UNCHANGED store
  PROVE  /\ StoreInv'
         /\ \A p \in Batch : \A q \in ReqState : Consistent(p, q) => Consistent(p, q)'
BY DEF store, StoreInv, OnlyReadyAbandoned, OnlyReadyClaims, LocksAreBacked, ReadyIsWhole, AuditTrail, SlotsAreDistinct,
       OneBatchPerKey, Consistent, Exists, Building, Ready, HoldsSlot, LocksOf, InProgressOrReview

\* Deleting a build takes nothing from a published batch.
LEMMA DeleteKeeps ==
  ASSUME CreateTypeOK, StoreInv, NEW b \in Batch, DeleteBuildingArtifacts(b)
  PROVE  StoreInv'
<1>1. CASE ~Building(b)
  BY <1>1, ReadKeeps DEF DeleteBuildingArtifacts
<1>2. CASE Building(b)
  <2> USE <1>2 DEF Building, Ready, Exists
  <2>0. /\ DeletedDoc.assembly = "deleted" /\ ~DeletedDoc.abandoned
        /\ DeletedDoc.content = {}
    <3>1. NoDoc.abandoned = FALSE /\ NoDoc.content = {} /\ NoDoc \in BatchDoc
      BY StoreAssumption DEF NoDoc, BatchDoc, AssemblyStatus, FormStatus
    <3>2. QED  BY <3>1 DEF DeletedDoc, BatchDoc
  <2>1. /\ batch'[b].assembly = "deleted" /\ ~batch'[b].abandoned
        /\ \A c \in Batch \ {b} : batch'[c] = batch[c] /\ child'[c] = child[c]
        /\ \A u \in Ulb : lock'[u] = IF lock[u] = b THEN NoBatch ELSE lock[u]
        /\ history' = history
    BY <2>0 DEF DeleteBuildingArtifacts, CreateTypeOK, StoreTypeOK
  <2>2. \A c \in Batch \ {b} : LocksOf(c)' = LocksOf(c)
    BY <2>1, StoreAssumption DEF LocksOf
  <2>3. OnlyReadyAbandoned'  BY <2>1 DEF StoreInv, OnlyReadyAbandoned
  <2>4. LocksAreBacked'
    BY <2>1, StoreAssumption DEF StoreInv, LocksAreBacked, CreateTypeOK, StoreTypeOK
  <2>5. ReadyIsWhole'  BY <2>1, <2>2 DEF StoreInv, ReadyIsWhole, InProgressOrReview
  <2>6. AuditTrail'  BY <2>1 DEF StoreInv, AuditTrail
  <2>7. SlotsAreDistinct'  BY <2>1 DEF StoreInv, SlotsAreDistinct, HoldsSlot
  <2>8. OneBatchPerKey'  BY <2>1 DEF StoreInv, OneBatchPerKey
  <2>11. OnlyReadyClaims'
    <3>1. batch'[b].content = {}
      BY <2>0 DEF DeleteBuildingArtifacts, CreateTypeOK, StoreTypeOK
    <3>2. QED  BY <2>1, <3>1 DEF StoreInv, OnlyReadyClaims
  <2>10. QED  BY <2>3, <2>4, <2>5, <2>6, <2>7, <2>8, <2>11 DEF StoreInv
<1>3. QED  BY <1>1, <1>2

\* A history of one entry grows to one of two.
LEMMA CreatedThenAbandoned == Append(<<"CREATED">>, "ABANDONED") = <<"CREATED", "ABANDONED">>
<1> DEFINE s == Append(<<"CREATED">>, "ABANDONED")
           t == <<"CREATED", "ABANDONED">>
<1>1. s \in Seq(Transition) /\ Len(s) = 2 /\ s[1] = "CREATED" /\ s[2] = "ABANDONED"
  BY DEF Transition
<1>2. t \in Seq(Transition) /\ Len(t) = 2 /\ t[1] = "CREATED" /\ t[2] = "ABANDONED"
  BY DEF Transition
<1> HIDE DEF s, t
<1>3. s = t  BY <1>1, <1>2, SeqEqual
<1>4. QED  BY <1>3 DEF s, t

\* Abandoning a published batch takes nothing from a build or from another published batch.
LEMMA AbandonKeeps ==
  ASSUME CreateTypeOK, StoreInv, NEW b \in Batch, AbandonDraft(b)
  PROVE  /\ StoreInv'
         /\ \A p \in Batch : \A q \in ReqState : Consistent(p, q) => Consistent(p, q)'
<1> USE DEF Building, Ready, Exists
<1>1. /\ Ready(b) /\ ~batch[b].abandoned
      /\ batch'[b] = [batch[b] EXCEPT !.abandoned = TRUE]
      /\ \A c \in Batch \ {b} : batch'[c] = batch[c] /\ history'[c] = history[c]
      /\ \A u \in Ulb : lock'[u] = IF lock[u] = b THEN NoBatch ELSE lock[u]
      /\ history'[b] = Append(history[b], "ABANDONED")
      /\ child' = child
  BY DEF AbandonDraft, Record, CreateTypeOK, StoreTypeOK
<1>2. /\ batch'[b].assembly = batch[b].assembly /\ batch'[b].abandoned = TRUE
      /\ batch'[b].number = batch[b].number /\ batch'[b].key = batch[b].key
  BY <1>1 DEF CreateTypeOK, StoreTypeOK, BatchDoc
<1>12. \A c \in Batch : /\ batch'[c].assembly = batch[c].assembly
                      /\ batch'[c].number = batch[c].number /\ batch'[c].key = batch[c].key
  BY <1>1, <1>2
<1>13. \A c \in Batch : ~batch'[c].abandoned => ~batch[c].abandoned
  BY <1>1, <1>2
<1>3. \A c \in Batch \ {b} : LocksOf(c)' = LocksOf(c)
  BY <1>1, StoreAssumption DEF LocksOf
<1>4. OnlyReadyAbandoned'  BY <1>1, <1>2 DEF StoreInv, OnlyReadyAbandoned
<1>5. LocksAreBacked'
  BY <1>1, <1>2, StoreAssumption DEF StoreInv, LocksAreBacked, CreateTypeOK, StoreTypeOK
<1>6. ReadyIsWhole'  BY <1>1, <1>2, <1>3 DEF StoreInv, ReadyIsWhole, InProgressOrReview
<1>7. AuditTrail'
  <2>1. history[b] = IF batch[b].abandoned THEN <<"CREATED", "ABANDONED">> ELSE <<"CREATED">>
    BY <1>1 DEF StoreInv, AuditTrail
  <2>2. history[b] = <<"CREATED">>  BY <1>1, <2>1
  <2>3. history'[b] = <<"CREATED", "ABANDONED">>  BY <1>1, <2>2, CreatedThenAbandoned
  <2>4. ASSUME NEW c \in Batch
        PROVE  history'[c] = IF ~Ready(c)' THEN <<>>
                             ELSE IF batch'[c].abandoned THEN <<"CREATED", "ABANDONED">>
                             ELSE <<"CREATED">>
    <3>1. CASE c = b  BY <1>1, <1>2, <2>3, <3>1
    <3>2. CASE c # b  BY <1>1, <3>2 DEF StoreInv, AuditTrail
    <3>3. QED  BY <3>1, <3>2
  <2>5. QED  BY <2>4, Zenon DEF AuditTrail
<1>8. SlotsAreDistinct'  BY <1>12, <1>13 DEF StoreInv, SlotsAreDistinct, HoldsSlot
<1>9. OneBatchPerKey'  BY <1>12 DEF StoreInv, OneBatchPerKey
<1>10. ASSUME NEW p \in Batch, NEW q \in ReqState, Consistent(p, q)  PROVE Consistent(p, q)'
  <2>1. Building(p)' => \A u \in Ulb : lock'[u] = p <=> lock[u] = p
    BY <1>1, <1>12, StoreAssumption
  <2>2. q.pc = "done" => Ready(q.result)' /\ batch'[q.result].key = q.key
    BY <1>10, <1>12 DEF Consistent
  <2>3. Building(p)' <=> Building(p)  BY <1>12
  <2>4. Ready(p)' <=> Ready(p)  BY <1>12
  <2>5. q.pc \in BeforeReserve => batch'[p].assembly = "none"  BY <1>10, <1>12 DEF Consistent
  <2>6. QED  BY <1>1, <1>10, <2>1, <2>2, <2>3, <2>4, <2>5 DEF Consistent
<1>14. OnlyReadyClaims'  BY <1>1, <1>12 DEF StoreInv, OnlyReadyClaims
<1>11. QED  BY <1>4, <1>5, <1>6, <1>7, <1>8, <1>9, <1>10, <1>14 DEF StoreInv

\* Time only makes a build stale.
LEMMA AgeKeeps ==
  ASSUME CreateTypeOK, StoreInv, NEW b \in Batch, Age(b)
  PROVE  /\ StoreInv'
         /\ \A p \in Batch : \A q \in ReqState : Consistent(p, q) => Consistent(p, q)'
<1>1. /\ \A c \in Batch : /\ batch'[c].assembly = batch[c].assembly
                         /\ batch'[c].abandoned = batch[c].abandoned
                         /\ batch'[c].number = batch[c].number /\ batch'[c].key = batch[c].key
                         /\ batch'[c].content = batch[c].content
      /\ lock' = lock /\ child' = child /\ history' = history
  BY DEF Age, CreateTypeOK, StoreTypeOK, BatchDoc
<1> USE <1>1 DEF StoreInv, Exists, Building, Ready, HoldsSlot
<1>2. OnlyReadyAbandoned' /\ OnlyReadyClaims'  BY DEF OnlyReadyAbandoned, OnlyReadyClaims
<1>8. LocksAreBacked'
  BY SMTT(30), StoreAssumption DEF LocksAreBacked, CreateTypeOK, StoreTypeOK
<1>3. ReadyIsWhole'  BY DEF ReadyIsWhole, LocksOf, InProgressOrReview
<1>4. AuditTrail'  BY DEF AuditTrail
<1>5. SlotsAreDistinct' /\ OneBatchPerKey'  BY DEF SlotsAreDistinct, OneBatchPerKey
<1>6. ASSUME NEW p \in Batch, NEW q \in ReqState, Consistent(p, q)  PROVE Consistent(p, q)'
  BY <1>6 DEF Consistent
<1>7. QED  BY <1>2, <1>3, <1>4, <1>5, <1>6, <1>8

-----------------------------------------------------------------------------
(* What the requests rely on                                               *)
(*                                                                         *)
(* This half of the invariant needs of the collections only that a lock     *)
(* names a batch that exists, so it survives where the other half does not. *)

Creates == \A r \in Batch : Consistent(r, req[r])

\* A lock names a batch that exists.
LocksName == \A u \in Ulb : lock[u] # NoBatch => Exists(lock[u])

\* A write to the documents of one batch, which stays published if it was, changes nothing the
\* requests of the other batches rely on.
LEMMA OthersRely ==
  ASSUME NEW b \in Batch,
         \A c \in Batch \ {b} : /\ batch'[c] = batch[c] /\ child'[c] = child[c]
                                /\ \A u \in Ulb : lock'[u] = c <=> lock[u] = c,
         Ready(b) => Ready(b)' /\ batch'[b].key = batch[b].key
  PROVE  \A p \in Batch \ {b} : \A q \in ReqState : Consistent(p, q) => Consistent(p, q)'
<1> SUFFICES ASSUME NEW p \in Batch \ {b}, NEW q \in ReqState, Consistent(p, q)
             PROVE  Consistent(p, q)'
  OBVIOUS
<1>1. q.pc = "done" => Ready(q.result)' /\ batch'[q.result].key = q.key
  BY DEF Consistent, Ready
<1>2. QED  BY <1>1 DEF Consistent, Ready, Building

\* Deleting a build takes nothing any request relies on: its own expects no document to be left.
LEMMA DeleteRely ==
  ASSUME CreateTypeOK, NEW b \in Batch, DeleteBuildingArtifacts(b)
  PROVE  \A p \in Batch : \A q \in ReqState : Consistent(p, q) => Consistent(p, q)'
<1>1. CASE ~Building(b)
  BY <1>1 DEF DeleteBuildingArtifacts, store, Consistent, Building, Ready
<1>2. CASE Building(b)
  <2>1. DeletedDoc.assembly = "deleted"
    <3>1. NoDoc \in BatchDoc
      BY StoreAssumption DEF NoDoc, BatchDoc, AssemblyStatus, FormStatus
    <3>2. QED  BY <3>1 DEF DeletedDoc, BatchDoc
  <2>2. /\ batch'[b].assembly = "deleted"
        /\ \A c \in Batch \ {b} : batch'[c] = batch[c] /\ child'[c] = child[c]
        /\ \A u \in Ulb : lock'[u] = IF lock[u] = b THEN NoBatch ELSE lock[u]
    BY <1>2, <2>1 DEF DeleteBuildingArtifacts, CreateTypeOK, StoreTypeOK
  <2>3. \A p \in Batch \ {b} : \A q \in ReqState : Consistent(p, q) => Consistent(p, q)'
    BY <1>2, <2>2, StoreAssumption, OthersRely DEF Building, Ready
  <2>4. ASSUME NEW q \in ReqState, Consistent(b, q)  PROVE Consistent(b, q)'
    <3>1. q.pc = "done" => Ready(q.result)' /\ batch'[q.result].key = q.key
      BY <1>2, <2>2, <2>4 DEF Consistent, Building, Ready
    <3>2. QED  BY <1>2, <2>2, <2>4, <3>1 DEF Consistent, BeforeReserve, Building, Ready
  <2>5. QED  BY <2>3, <2>4
<1>3. QED  BY <1>1, <1>2

\* A chunk of child rows matters to the build that writes it only.
LEMMA PersistRely ==
  ASSUME CreateTypeOK, Creates, NEW r \in Batch, NEW C \in SUBSET Ulb, PersistChunk(r, C)
  PROVE  Creates' /\ ~Ready(r)
<1> USE DEF Building, Ready, Exists
<1>1. /\ batch' = batch /\ lock' = lock
      /\ \A c \in Batch \ {r} : child'[c] = child[c]
      /\ req[r].pc = "persist"
  BY DEF CreateTypeOK, StoreTypeOK, PersistChunk, At
<1>2. Consistent(r, req[r]) /\ req[r] \in ReqState  BY DEF Creates, CreateTypeOK
<1>3. ~Ready(r)  BY <1>1, <1>2 DEF Consistent
<1>4. PICK pc \in {"verify", "persist"} : Step(r, [req[r] EXCEPT !.todo = @ \ C, !.pc = pc])
  BY DEF PersistChunk
<1>5. PICK q0 : q0 = [req[r] EXCEPT !.todo = @ \ C, !.pc = pc]  OBVIOUS
<1>6. q0.pc \in {"verify", "persist"} /\ q0.sel = req[r].sel /\ q0.key = req[r].key
  BY <1>2, <1>4, <1>5 DEF ReqState
<1>7. Consistent(r, q0)'
  BY <1>1, <1>2, <1>3, <1>6 DEF Consistent, BeforeReserve, AfterReserve
<1>8. \A p \in Batch \ {r} : \A q \in ReqState : Consistent(p, q) => Consistent(p, q)'
  BY <1>1 DEF Consistent
<1>9. QED  BY <1>3, <1>4, <1>5, <1>7, <1>8, StepKeepsRequests DEF Creates

\* The reservation is of ULBs that nobody has, and of no batch there was.
LEMMA ReserveRely ==
  ASSUME CreateTypeOK, Creates, LocksName, NEW r \in Batch, Reserve(r)
  PROVE  Creates'
<1> USE DEF Building, Ready, Exists
<1> DEFINE doc == [NoDoc EXCEPT !.assembly = "BUILDING", !.number = req[r].slot,
                       !.key = req[r].key, !.createdAt = clock]
<1>1. req[r] \in ReqState /\ req[r].pc = "insert" /\ Consistent(r, req[r])
  BY DEF Creates, CreateTypeOK, Reserve, At
<1>2. batch[r].assembly = "none" /\ req[r].sel # {}
  BY <1>1 DEF Consistent, BeforeReserve
<1>3. PICK q0 : q0 = [req[r] EXCEPT !.pc = "persist", !.todo = req[r].sel]  OBVIOUS
<1>4. q0.pc = "persist" /\ q0.sel = req[r].sel /\ q0.key = req[r].key  BY <1>1, <1>3 DEF ReqState
<1>5. Step(r, q0)  BY <1>3 DEF Reserve
<1>6. doc.assembly = "BUILDING" /\ doc.key = req[r].key
  <2>1. NoDoc \in BatchDoc
    BY StoreAssumption DEF NoDoc, BatchDoc, AssemblyStatus, FormStatus
  <2>2. QED  BY <2>1 DEF BatchDoc
<1>7. batch' = [batch EXCEPT ![r] = doc]  BY DEF Reserve
<1> HIDE DEF doc
<1>8. /\ batch'[r].assembly = "BUILDING" /\ batch'[r].key = req[r].key
      /\ \A c \in Batch \ {r} : batch'[c] = batch[c]
  BY <1>6, <1>7 DEF CreateTypeOK, StoreTypeOK
<1>9. /\ \A u \in req[r].sel : lock[u] = NoBatch
      /\ \A u \in Ulb : lock'[u] = IF u \in req[r].sel THEN r ELSE lock[u]
      /\ child' = child
  BY DEF Reserve, LockClash
<1>10. \A u \in Ulb : lock[u] # r  BY <1>2, StoreAssumption DEF LocksName
<1>11. Consistent(r, q0)'
  BY <1>2, <1>4, <1>8, <1>9, <1>10 DEF Consistent, BeforeReserve, AfterReserve
<1>12. \A p \in Batch \ {r} : \A q \in ReqState : Consistent(p, q) => Consistent(p, q)'
  BY <1>2, <1>8, <1>9, StoreAssumption, OthersRely
<1>13. QED  BY <1>5, <1>11, <1>12, StepKeepsRequests DEF Creates

\* A build that publishes is over, or goes on to an abort that will find it published.
LEMMA FinalizeRely ==
  ASSUME CreateTypeOK, Creates, NEW r \in Batch, Finalize(r)
  PROVE  Creates'
<1> USE DEF Building, Ready, Exists
<1>1. req[r] \in ReqState /\ req[r].pc = "finalize" /\ Consistent(r, req[r]) /\ Building(r)
  BY DEF Creates, CreateTypeOK, Finalize, At
<1>2. req[r].sel # {} /\ batch[r].key = req[r].key
  BY <1>1 DEF Consistent, AfterReserve
<1> DEFINE doc == [batch[r] EXCEPT !.assembly = "READY", !.stale = FALSE, !.content = req[r].seen]
<1>3. batch[r] \in BatchDoc  BY DEF CreateTypeOK, StoreTypeOK
<1>4. doc.assembly = "READY" /\ doc.key = batch[r].key  BY <1>3 DEF BatchDoc
<1>5. batch' = [batch EXCEPT ![r] = doc]  BY DEF Finalize
<1> HIDE DEF doc
<1>6. /\ batch'[r].assembly = "READY" /\ batch'[r].key = batch[r].key
      /\ \A c \in Batch \ {r} : batch'[c] = batch[c]
      /\ lock' = lock /\ child' = child
  BY <1>4, <1>5 DEF Finalize, CreateTypeOK, StoreTypeOK
<1>7. PICK q0 : /\ Step(r, q0)
                /\ \/ q0 = [IdleReq EXCEPT !.pc = "done", !.key = req[r].key, !.result = r]
                   \/ q0 = [req[r] EXCEPT !.pc = "abort"]
  BY DEF Finalize, Answer, Goto
<1>8. Consistent(r, q0)'
  <2>1. CASE q0 = [IdleReq EXCEPT !.pc = "done", !.key = req[r].key, !.result = r]
    <3>1. q0.pc = "done" /\ q0.key = req[r].key /\ q0.result = r
      BY <2>1, AnswerShape
    <3>2. QED  BY <1>2, <1>6, <3>1 DEF Consistent, BeforeReserve, AfterReserve
  <2>2. CASE q0 = [req[r] EXCEPT !.pc = "abort"]
    <3>1. q0.pc = "abort" /\ q0.sel = req[r].sel  BY <1>1, <2>2 DEF ReqState
    <3>2. QED  BY <1>2, <1>6, <3>1 DEF Consistent, BeforeReserve, AfterReserve
  <2>3. QED  BY <1>7, <2>1, <2>2
<1>9. \A p \in Batch \ {r} : \A q \in ReqState : Consistent(p, q) => Consistent(p, q)'
  BY <1>1, <1>6, OthersRely
<1>10. QED  BY <1>7, <1>8, <1>9, StepKeepsRequests DEF Creates

\* A request that writes nothing may rely on what is true.
LEMMA ReadRely ==
  ASSUME CreateTypeOK, Creates, NEW r \in Batch, NEW q0, Step(r, q0), UNCHANGED store,
         Consistent(r, q0)
  PROVE  Creates'
<1>1. \A p \in Batch : \A q \in ReqState : Consistent(p, q) => Consistent(p, q)'
  BY DEF store, Consistent, Building, Ready
<1>2. Consistent(r, q0)'  BY DEF Consistent, Ready, Building, store
<1>3. QED  BY <1>1, <1>2, StepKeepsRequests DEF Creates

\* A request that gives up knows nothing.
LEMMA FailIsConsistent ==
  ASSUME NEW r \in Batch, NEW q, q = [IdleReq EXCEPT !.pc = "failed"]
  PROVE  Consistent(r, q) /\ Consistent(r, q)'
BY FailShape DEF Consistent, BeforeReserve, AfterReserve

\* Moving to a program counter where no more is known.
LEMMA GotoIsConsistent ==
  ASSUME NEW r \in Batch, NEW q, NEW pc, Consistent(r, req[r]), req[r] \in ReqState,
         q = [req[r] EXCEPT !.pc = pc],
         \/ pc \in BeforeReserve \ {"insert"} /\ req[r].pc \in BeforeReserve \ {"idle"}
         \/ pc \in {"abort", "lookup"} /\ req[r].pc \in AfterReserve \cup {"lookup"} /\ ~Ready(r)
         \/ pc = "abort" /\ req[r].pc \in AfterReserve \cup {"lookup"}
  PROVE  Consistent(r, q)
<1>1. q.pc = pc /\ q.sel = req[r].sel  BY DEF ReqState
<1>2. QED  BY <1>1 DEF Consistent, BeforeReserve, AfterReserve

\* Whatever a request does, what every request relies on stays true.
LEMMA RequestRelies ==
  ASSUME CreateTypeOK, Creates, LocksName, NEW r \in Batch, RequestStep(r)
  PROVE  Creates'
<1>r. req[r] \in ReqState /\ Consistent(r, req[r])  BY DEF Creates, CreateTypeOK
<1>f. ASSUME Fail(r), UNCHANGED store  PROVE Creates'
  <2>1. PICK q : q = [IdleReq EXCEPT !.pc = "failed"]  OBVIOUS
  <2>2. QED  BY <1>f, <2>1, FailIsConsistent, ReadRely DEF Fail
<1>g. ASSUME NEW pc, Goto(r, pc), UNCHANGED store,
             \/ pc \in BeforeReserve \ {"insert"} /\ req[r].pc \in BeforeReserve \ {"idle"}
             \/ pc \in {"abort", "lookup"} /\ req[r].pc \in AfterReserve \cup {"lookup"}
      PROVE  Creates'
  <2>1. PICK q : q = [req[r] EXCEPT !.pc = pc]  OBVIOUS
  <2>2. req[r].pc \in AfterReserve \cup {"lookup"} => ~Ready(r)
    BY <1>r DEF Consistent, AfterReserve
  <2>3. Consistent(r, q)  BY <1>g, <1>r, <2>1, <2>2, GotoIsConsistent
  <2>4. QED  BY <1>g, <2>1, <2>3, ReadRely DEF Goto
<1>d. ASSUME NEW b \in Batch, DeleteBuildingArtifacts(b), NEW q0, Step(r, q0), Consistent(r, q0),
             q0 \in ReqState
      PROVE  Creates'
  <2>1. \A p \in Batch : \A q \in ReqState : Consistent(p, q) => Consistent(p, q)'
    BY <1>d, DeleteRely
  <2>2. QED  BY <1>d, <2>1, StepKeepsRequests DEF Creates
<1>1. ASSUME NEW k \in Key, NEW S \in SUBSET Ulb, Arrive(r, k, S)  PROVE Creates'
  <2>1. req[r].pc = "idle" /\ UNCHANGED store /\ S # {} /\ batch[r].assembly = "none"
    BY <1>1, <1>r DEF Arrive, At, Consistent, BeforeReserve
  <2>2. CASE Step(r, [IdleReq EXCEPT !.pc = "canCreate", !.key = k, !.sel = S])
    <3>1. PICK q : q = [IdleReq EXCEPT !.pc = "canCreate", !.key = k, !.sel = S]  OBVIOUS
    <3>2. q.pc = "canCreate" /\ q.sel = S  BY <3>1 DEF IdleReq
    <3>3. Consistent(r, q)  BY <2>1, <3>2 DEF Consistent, AfterReserve, Ready
    <3>4. QED  BY <2>1, <2>2, <3>1, <3>3, ReadRely
  <2>3. ASSUME NEW b \in Batch, Ready(b), batch[b].key = k, Answer(r, k, b)  PROVE Creates'
    <3>1. PICK q : q = [IdleReq EXCEPT !.pc = "done", !.key = k, !.result = b]  OBVIOUS
    <3>2. q.pc = "done" /\ q.key = k /\ q.result = b  BY <3>1, AnswerShape
    <3>3. Consistent(r, q)  BY <2>1, <2>3, <3>2 DEF Consistent, BeforeReserve, AfterReserve
    <3>4. QED  BY <2>1, <2>3, <3>1, <3>3, ReadRely DEF Answer
  <2>4. QED  BY <1>1, <1>f, <2>1, <2>2, <2>3 DEF Arrive
<1>2. ASSUME CheckCanCreate(r)  PROVE Creates'
  BY <1>2, <1>f, <1>g DEF CheckCanCreate, At, BeforeReserve
<1>3. ASSUME Prepare(r)  PROVE Creates'
  BY <1>3, <1>f, <1>g DEF Prepare, At, BeforeReserve
<1>4. ASSUME Reclaimable(r), UNCHANGED store, req[r].pc \in {"reserve", "insert"}  PROVE Creates'
  BY <1>4, <1>f, <1>g DEF Reclaimable, BeforeReserve
<1>5. ASSUME AllocateSlot(r)  PROVE Creates'
  <2>1. CASE FreeSlots = {}  BY <1>4, <1>5, <2>1 DEF AllocateSlot, At
  <2>2. CASE FreeSlots # {}
    <3>1. PICK n \in FreeSlots : Step(r, [req[r] EXCEPT !.pc = "insert", !.slot = n])
      BY <1>5, <2>2 DEF AllocateSlot
    <3>2. PICK q : q = [req[r] EXCEPT !.pc = "insert", !.slot = n]  OBVIOUS
    <3>3. q.pc = "insert" /\ q.sel = req[r].sel /\ q.slot = n  BY <1>r, <3>2 DEF ReqState
    <3>4. req[r].pc = "reserve" /\ UNCHANGED store  BY <1>5 DEF AllocateSlot, At
    <3>5. n \in 1 .. MaxBatchNumber  BY DEF FreeSlots
    <3>6. Consistent(r, q)
      BY <1>r, <3>3, <3>4, <3>5 DEF Consistent, BeforeReserve, AfterReserve
    <3>7. QED  BY <3>1, <3>2, <3>4, <3>6, ReadRely
  <2>3. QED  BY <2>1, <2>2
<1>6. ASSUME SlotTaken(r)  PROVE Creates'
  BY <1>6, <1>f DEF SlotTaken
<1>7. ASSUME UlbLocked(r)  PROVE Creates'
  BY <1>4, <1>7 DEF UlbLocked, At
<1>8. ASSUME Reserve(r)  PROVE Creates'
  BY <1>8, ReserveRely
<1>9. ASSUME FindStale(r)  PROVE Creates'
  <2> DEFINE cand == {b \in StaleBuilds : HoldsSlot(b) \/ \E u \in req[r].sel : lock[u] = b}
  <2>1. CASE cand = {}  BY <1>9, <1>f, <2>1 DEF FindStale
  <2>2. CASE cand # {}
    <3>1. PICK q : q = [req[r] EXCEPT !.pc = "sweep", !.cand = cand]  OBVIOUS
    <3>2. q.pc = "sweep" /\ q.sel = req[r].sel  BY <1>r, <3>1 DEF ReqState
    <3>3. req[r].pc = "reclaim" /\ UNCHANGED store /\ Step(r, q)
      BY <1>9, <2>2, <3>1 DEF FindStale, At
    <3>4. Consistent(r, q)  BY <1>r, <3>2, <3>3 DEF Consistent, BeforeReserve, AfterReserve
    <3>5. QED  BY <3>3, <3>4, ReadRely
  <2>3. QED  BY <2>1, <2>2
<1>10. ASSUME NEW b \in Batch, ReclaimOne(r, b)  PROVE Creates'
  <2>1. PICK pc \in {"reserve", "sweep"} :
          Step(r, [req[r] EXCEPT !.cand = @ \ {b}, !.retried = TRUE, !.pc = pc])
    BY <1>10 DEF ReclaimOne
  <2>2. PICK q : q = [req[r] EXCEPT !.cand = @ \ {b}, !.retried = TRUE, !.pc = pc]  OBVIOUS
  <2>3. q \in ReqState /\ q.pc \in {"reserve", "sweep"} /\ q.sel = req[r].sel
    BY <1>r, <2>1, <2>2 DEF ReqState, Pc
  <2>4. req[r].pc = "sweep" /\ DeleteBuildingArtifacts(b)  BY <1>10 DEF ReclaimOne, At
  <2>5. Consistent(r, q)  BY <1>r, <2>3, <2>4 DEF Consistent, BeforeReserve, AfterReserve
  <2>6. QED  BY <1>d, <2>1, <2>2, <2>3, <2>4, <2>5
<1>11. ASSUME NEW C \in SUBSET Ulb, PersistChunk(r, C)  PROVE Creates'
  BY <1>11, PersistRely
<1>12. ASSUME VerifyChildren(r)  PROVE Creates'
  <2>1. req[r].pc = "verify" /\ UNCHANGED store  BY <1>12 DEF VerifyChildren, At
  <2>2. CASE Goto(r, "abort")  BY <1>g, <2>1, <2>2 DEF AfterReserve
  <2>3. CASE child[r] = req[r].sel /\ Step(r, [req[r] EXCEPT !.pc = "locks", !.seen = child[r]])
    <3>1. PICK q : q = [req[r] EXCEPT !.pc = "locks", !.seen = child[r]]  OBVIOUS
    <3>2. q.pc = "locks" /\ q.sel = req[r].sel /\ q.seen = child[r] /\ q.key = req[r].key
      BY <1>r, <3>1 DEF ReqState
    <3>3. Consistent(r, q)
      BY <1>r, <2>1, <2>3, <3>2 DEF Consistent, BeforeReserve, AfterReserve
    <3>4. QED  BY <2>1, <2>3, <3>1, <3>3, ReadRely
  <2>4. QED  BY <1>12, <2>2, <2>3 DEF VerifyChildren
<1>13. ASSUME VerifyLocks(r)  PROVE Creates'
  <2>1. req[r].pc = "locks" /\ UNCHANGED store  BY <1>13 DEF VerifyLocks, At
  <2>2. CASE Goto(r, "abort")  BY <1>g, <2>1, <2>2 DEF AfterReserve
  <2>3. CASE Goto(r, "finalize")
    <3>1. PICK q : q = [req[r] EXCEPT !.pc = "finalize"]  OBVIOUS
    <3>2. q.pc = "finalize" /\ q.sel = req[r].sel /\ q.seen = req[r].seen /\ q.key = req[r].key
      BY <1>r, <3>1 DEF ReqState
    <3>3. Consistent(r, q)
      BY <1>r, <2>1, <3>2 DEF Consistent, BeforeReserve, AfterReserve
    <3>4. QED  BY <2>1, <2>3, <3>1, <3>3, ReadRely DEF Goto
  <2>4. QED  BY <1>13, <2>2, <2>3 DEF VerifyLocks
<1>14. ASSUME Finalize(r)  PROVE Creates'
  BY <1>14, FinalizeRely
<1>15. ASSUME FinalizeMissed(r)  PROVE Creates'
  BY <1>15, <1>g DEF FinalizeMissed, At, AfterReserve
<1>16. ASSUME ResolveAlreadyFinalized(r)  PROVE Creates'
  <2>1. ~Ready(r)  BY <1>16, <1>r DEF ResolveAlreadyFinalized, At, Consistent
  <2>2. QED  BY <1>16, <1>g, <2>1 DEF ResolveAlreadyFinalized, At
<1>17. ASSUME AbortBuild(r)  PROVE Creates'
  <2>1. PICK q : q = [IdleReq EXCEPT !.pc = "failed"]  OBVIOUS
  <2>2. IdleReq \in ReqState  BY StoreAssumption DEF IdleReq, ReqState, Pc
  <2>3. q \in ReqState  BY <2>1, <2>2 DEF ReqState, Pc
  <2>4. QED  BY <1>17, <1>d, <2>1, <2>3, FailIsConsistent DEF AbortBuild, Fail
<1>18. ASSUME BuildStepFails(r)  PROVE Creates'
  <2>1. CASE Fail(r)  BY <1>18, <1>f, <2>1 DEF BuildStepFails
  <2>2. CASE req[r].pc \in {"persist", "verify", "locks", "finalize", "lookup"}
    BY <1>18, <1>g, <2>2 DEF BuildStepFails, AfterReserve
  <2>3. QED  BY <1>18, <2>1, <2>2 DEF BuildStepFails
<1>19. ASSUME BuildCrash(r)  PROVE Creates'
  BY <1>19, <1>f DEF BuildCrash
<1>20. QED
  BY <1>1, <1>2, <1>3, <1>5, <1>6, <1>7, <1>8, <1>9, <1>10, <1>11, <1>12, <1>13, <1>14,
     <1>15, <1>16, <1>17, <1>18, <1>19 DEF RequestStep
-----------------------------------------------------------------------------
(* What the collections keep                                               *)

\* A chunk of child rows is of a batch that is not published.
LEMMA PersistKeeps ==
  ASSUME CreateTypeOK, StoreInv, NEW r \in Batch, NEW C \in SUBSET Ulb, PersistChunk(r, C), ~Ready(r)
  PROVE  StoreInv'
<1> USE DEF Building, Ready, Exists, StoreInv
<1>1. /\ batch' = batch /\ lock' = lock /\ history' = history
      /\ \A c \in Batch \ {r} : child'[c] = child[c]
  BY DEF CreateTypeOK, StoreTypeOK, PersistChunk
<1>2. OnlyReadyAbandoned' /\ SlotsAreDistinct'
  BY <1>1 DEF OnlyReadyAbandoned, SlotsAreDistinct, HoldsSlot
<1>3. LocksAreBacked' /\ AuditTrail' /\ OneBatchPerKey'
  BY <1>1 DEF LocksAreBacked, AuditTrail, OneBatchPerKey
<1>4. ReadyIsWhole'  BY <1>1 DEF ReadyIsWhole, InProgressOrReview, LocksOf
<1>5. OnlyReadyClaims'  BY <1>1 DEF OnlyReadyClaims
<1>6. QED  BY <1>2, <1>3, <1>4, <1>5

\* The reservation brings a document into the world with its locks, on a slot, a key and ULBs that
\* nobody has.
LEMMA ReserveKeeps ==
  ASSUME CreateInv, NEW r \in Batch, Reserve(r)
  PROVE  StoreInv'
<1> USE DEF Building, Ready, Exists
<1> DEFINE doc == [NoDoc EXCEPT !.assembly = "BUILDING", !.number = req[r].slot,
                       !.key = req[r].key, !.createdAt = clock]
<1>2. req[r] \in ReqState /\ req[r].pc = "insert" /\ Consistent(r, req[r])
  BY DEF CreateInv, CreateTypeOK, Reserve, At
<1>3. batch[r].assembly = "none" /\ req[r].sel # {} /\ req[r].slot \in 1 .. MaxBatchNumber
  BY <1>2 DEF Consistent, BeforeReserve
<1>6. /\ doc.assembly = "BUILDING" /\ doc.number = req[r].slot /\ doc.key = req[r].key
      /\ ~doc.abandoned /\ doc.content = {}
  <2>1. NoDoc \in BatchDoc /\ NoDoc.abandoned = FALSE /\ NoDoc.content = {}
    BY StoreAssumption DEF NoDoc, BatchDoc, AssemblyStatus, FormStatus
  <2>2. QED  BY <2>1 DEF BatchDoc
<1>7. batch' = [batch EXCEPT ![r] = doc]  BY DEF Reserve
<1> HIDE DEF doc
<1>8. /\ batch'[r].assembly = "BUILDING" /\ batch'[r].number = req[r].slot
      /\ batch'[r].key = req[r].key
      /\ \A c \in Batch \ {r} : batch'[c] = batch[c]
  BY <1>6, <1>7 DEF CreateInv, CreateTypeOK, StoreTypeOK
<1>9. ~batch'[r].abandoned
  BY <1>6, <1>7 DEF CreateInv, CreateTypeOK, StoreTypeOK
<1>10. /\ \A u \in req[r].sel : lock[u] = NoBatch
       /\ \A u \in Ulb : lock'[u] = IF u \in req[r].sel THEN r ELSE lock[u]
       /\ child' = child /\ history' = history
  BY DEF Reserve, LockClash
<1>11. \A u \in Ulb : lock[u] # r
  BY <1>3, StoreAssumption DEF CreateInv, StoreInv, LocksAreBacked
<1>12. StoreInv'
  <2> USE DEF CreateInv, StoreInv
  <2>1. OnlyReadyAbandoned'  BY <1>3, <1>8, <1>9 DEF OnlyReadyAbandoned
  <2>2. LocksAreBacked'
    <3>1. ASSUME NEW u \in Ulb, u \notin req[r].sel, lock[u] # NoBatch
          PROVE  lock[u] \in Batch \ {r} /\ Exists(lock[u]) /\ ~batch[lock[u]].abandoned
      BY <1>11, <3>1 DEF LocksAreBacked, CreateTypeOK, StoreTypeOK
    <3>2. ASSUME NEW u \in Ulb, lock'[u] # NoBatch
          PROVE  (Exists(lock[u]))' /\ (~batch[lock[u]].abandoned)'
      <4>1. CASE u \in req[r].sel  BY <1>8, <1>9, <1>10, <4>1
      <4>2. CASE u \notin req[r].sel  BY <1>8, <1>10, <3>1, <3>2, <4>2
      <4>3. QED  BY <4>1, <4>2
    <3>3. QED  BY <3>2 DEF LocksAreBacked
  <2>3. \A c \in Batch \ {r} : LocksOf(c)' = LocksOf(c)
    BY <1>10, StoreAssumption DEF LocksOf
  <2>4. ReadyIsWhole'  BY <1>8, <1>10, <2>3 DEF ReadyIsWhole, InProgressOrReview
  <2>5. AuditTrail'  BY <1>3, <1>8, <1>10 DEF AuditTrail
  <2>6. \A c \in Batch : HoldsSlot(c) => batch[c].number # req[r].slot
    BY DEF Reserve, ParentClash
  <2>7. SlotsAreDistinct'  BY <1>3, <1>8, <1>9, <2>6 DEF SlotsAreDistinct, HoldsSlot
  <2>8. \A c \in Batch : Exists(c) => batch[c].key # req[r].key
    BY DEF Reserve, ParentClash
  <2>9. OneBatchPerKey'  BY <1>8, <2>8 DEF OneBatchPerKey
  <2>10. OnlyReadyClaims'
    <3>1. batch'[r].content = {}  BY <1>6, <1>7 DEF CreateTypeOK, StoreTypeOK
    <3>2. QED  BY <1>8, <3>1 DEF OnlyReadyClaims
  <2>11. QED  BY <2>1, <2>2, <2>4, <2>5, <2>7, <2>9, <2>10
<1>13. QED  BY <1>12

\* What is published is what was read back and is still locked.
LEMMA FinalizeKeeps ==
  ASSUME CreateInv, NEW r \in Batch, Finalize(r)
  PROVE  StoreInv'
<1> USE DEF Building, Ready, Exists
<1>2. req[r] \in ReqState /\ req[r].pc = "finalize" /\ Consistent(r, req[r]) /\ Building(r)
  BY DEF CreateInv, CreateTypeOK, Finalize, At
<1>3. /\ req[r].sel # {} /\ child[r] = req[r].sel /\ req[r].seen = req[r].sel
      /\ \A u \in Ulb : lock[u] = r <=> u \in req[r].sel
  BY <1>2 DEF Consistent, AfterReserve
<1> DEFINE doc == [batch[r] EXCEPT !.assembly = "READY", !.stale = FALSE, !.content = req[r].seen]
<1>4. batch[r] \in BatchDoc  BY DEF CreateInv, CreateTypeOK, StoreTypeOK
<1>5. /\ doc.assembly = "READY" /\ doc.number = batch[r].number /\ doc.key = batch[r].key
      /\ doc.content = req[r].seen
  BY <1>4 DEF BatchDoc
<1>6. doc.abandoned = batch[r].abandoned  BY <1>4 DEF BatchDoc
<1>7. batch' = [batch EXCEPT ![r] = doc]  BY DEF Finalize
<1> HIDE DEF doc
<1>8. /\ batch'[r].assembly = "READY" /\ batch'[r].number = batch[r].number
      /\ batch'[r].key = batch[r].key /\ batch'[r].content = req[r].seen
      /\ \A c \in Batch \ {r} : batch'[c] = batch[c]
  BY <1>5, <1>7 DEF CreateInv, CreateTypeOK, StoreTypeOK
<1>9. \A c \in Batch : batch'[c].abandoned = batch[c].abandoned
  BY <1>6, <1>7 DEF CreateInv, CreateTypeOK, StoreTypeOK
<1>10. ~batch[r].abandoned  BY <1>2 DEF CreateInv, StoreInv, OnlyReadyAbandoned
<1>11. /\ lock' = lock /\ child' = child /\ history'[r] = Append(history[r], "CREATED")
       /\ \A c \in Batch \ {r} : history'[c] = history[c]
  BY DEF Finalize, Record, CreateInv, CreateTypeOK, StoreTypeOK
<1>12. StoreInv'
  <2> USE DEF CreateInv, StoreInv
  <2>1. OnlyReadyAbandoned'  BY <1>2, <1>8, <1>9 DEF OnlyReadyAbandoned
  <2>2. LocksAreBacked'
    BY <1>8, <1>9, <1>11, StoreAssumption DEF LocksAreBacked, CreateTypeOK, StoreTypeOK
  <2>3. LocksOf(r) = req[r].sel  BY <1>2, <1>3 DEF LocksOf, ReqState
  <2>4. ReadyIsWhole'
    BY <1>3, <1>8, <1>9, <1>11, <2>3 DEF ReadyIsWhole, InProgressOrReview, LocksOf
  <2>5. AuditTrail'
    <3>1. history[r] = <<>>  BY <1>2 DEF AuditTrail
    <3>2. history'[r] = <<"CREATED">>  BY <1>11, <3>1
    <3>3. ASSUME NEW c \in Batch
          PROVE  history'[c] = IF ~Ready(c)' THEN <<>>
                               ELSE IF batch'[c].abandoned THEN <<"CREATED", "ABANDONED">>
                               ELSE <<"CREATED">>
      <4>1. CASE c = r  BY <1>8, <1>9, <1>10, <3>2, <4>1
      <4>2. CASE c # r  BY <1>8, <1>11, <4>2 DEF AuditTrail
      <4>3. QED  BY <4>1, <4>2
    <3>4. QED  BY <3>3, Zenon DEF AuditTrail
  <2>6. SlotsAreDistinct'  BY <1>2, <1>8, <1>9 DEF SlotsAreDistinct, HoldsSlot
  <2>7. OneBatchPerKey'  BY <1>2, <1>8 DEF OneBatchPerKey
  <2>8. OnlyReadyClaims'  BY SMTT(30), <1>8 DEF OnlyReadyClaims
  <2>9. QED  BY <2>1, <2>2, <2>4, <2>5, <2>6, <2>7, <2>8
<1>13. QED  BY <1>12

-----------------------------------------------------------------------------
(* The steps                                                               *)

\* What a request writes.
LEMMA RequestWrites ==
  ASSUME NEW r \in Batch, RequestStep(r)
  PROVE  \/ UNCHANGED store
         \/ \E b \in Batch : DeleteBuildingArtifacts(b)
         \/ \E C \in SUBSET Ulb : PersistChunk(r, C)
         \/ Reserve(r) \/ Finalize(r)
BY DEF RequestStep, Arrive, CheckCanCreate, Prepare, AllocateSlot, SlotTaken, UlbLocked, FindStale,
       ReclaimOne, VerifyChildren, VerifyLocks, FinalizeMissed, ResolveAlreadyFinalized, AbortBuild,
       BuildStepFails, BuildCrash

\* Whatever a request does, the invariant survives it.
LEMMA RequestKeepsInv ==
  ASSUME CreateInv, NEW r \in Batch, RequestStep(r)
  PROVE  CreateInv'
<1>0. CreateTypeOK /\ StoreInv /\ Creates  BY DEF CreateInv, Creates
<1>1. LocksName  BY <1>0 DEF StoreInv, LocksAreBacked, LocksName
<1>2. CreateTypeOK' /\ Creates'  BY <1>0, <1>1, RequestTyped, RequestRelies
<1>3. CASE UNCHANGED store  BY <1>0, <1>2, <1>3, ReadKeeps DEF CreateInv, Creates
<1>4. ASSUME NEW b \in Batch, DeleteBuildingArtifacts(b)  PROVE CreateInv'
  BY <1>0, <1>2, <1>4, DeleteKeeps DEF CreateInv, Creates
<1>5. ASSUME NEW C \in SUBSET Ulb, PersistChunk(r, C)  PROVE CreateInv'
  BY <1>0, <1>2, <1>5, PersistRely, PersistKeeps DEF CreateInv, Creates
<1>6. CASE Reserve(r)  BY <1>2, <1>6, ReserveKeeps DEF CreateInv, Creates
<1>7. CASE Finalize(r)  BY <1>2, <1>7, FinalizeKeeps DEF CreateInv, Creates
<1>8. QED  BY <1>3, <1>4, <1>5, <1>6, <1>7, RequestWrites

\* Requests that do not move keep what they rely on through a write that keeps it for everybody.
LEMMA OthersKeepRequests ==
  ASSUME CreateTypeOK, Creates, UNCHANGED req,
         \A p \in Batch : \A q \in ReqState : Consistent(p, q) => Consistent(p, q)'
  PROVE  Creates'
<1>1. ASSUME NEW p \in Batch  PROVE Consistent(p, req[p])'
  <2>1. PICK q \in ReqState : q = req[p]  BY DEF CreateTypeOK
  <2>2. Consistent(p, q)'  BY <2>1 DEF Creates
  <2>3. QED  BY <2>1, <2>2 DEF Consistent
<1>2. QED  BY <1>1 DEF Creates

\* The invariant is inductive.
LEMMA NextKeepsInv == CreateInv /\ [CreateNext]_cvars => CreateInv'
<1> SUFFICES ASSUME CreateInv, [CreateNext]_cvars  PROVE CreateInv'
  OBVIOUS
<1>0. CreateTypeOK /\ CreateTypeOK'  BY NextTyped DEF CreateInv
<1>q. ASSUME UNCHANGED store, UNCHANGED req  PROVE CreateInv'
  BY <1>0, <1>q, ReadKeeps, OthersKeepRequests DEF CreateInv, Creates
<1>1. ASSUME NEW r \in Batch, RequestStep(r)  PROVE CreateInv'
  BY <1>1, RequestKeepsInv
<1>2. ASSUME NEW b \in Batch, Age(b)  PROVE CreateInv'
  BY <1>0, <1>2, AgeKeeps, OthersKeepRequests DEF CreateInv, Creates, Age
<1>3. ASSUME CronScan  PROVE CreateInv'
  BY <1>3, <1>q DEF CronScan
<1>4. ASSUME NEW b \in Batch, CronClean(b)  PROVE CreateInv'
  BY <1>0, <1>4, DeleteKeeps, DeleteRely, OthersKeepRequests DEF CreateInv, Creates, CronClean
<1>5. ASSUME CronStops  PROVE CreateInv'
  BY <1>5, <1>q DEF CronStops
<1>6. ASSUME NEW b \in Batch, AbandonReady(b)  PROVE CreateInv'
  BY <1>0, <1>6, AbandonKeeps, OthersKeepRequests DEF CreateInv, Creates, AbandonReady
<1>7. ASSUME UNCHANGED cvars  PROVE CreateInv'
  BY <1>7, <1>q DEF cvars
<1>8. QED
  BY <1>1, <1>2, <1>3, <1>4, <1>5, <1>6, <1>7 DEF CreateNext, CleanupStep

\* The inductive invariant holds in every reachable state.
THEOREM InvAlways == CreateSpec => []CreateInv
<1>1. QED  BY InitInv, NextKeepsInv, PTL DEF CreateSpec

-----------------------------------------------------------------------------
(* The results                                                             *)

\* No lock outlives the claim it stands for.
THEOREM LocksBacked == CreateSpec => []LocksAreBacked
<1>1. CreateInv => LocksAreBacked  BY DEF CreateInv, StoreInv
<1>2. QED  BY <1>1, InvAlways, PTL

\* A published batch has the child rows and the locks of exactly the ULBs it claims.
THEOREM PublishedIsWhole == CreateSpec => []ReadyIsWhole
<1>1. CreateInv => ReadyIsWhole  BY DEF CreateInv, StoreInv
<1>2. QED  BY <1>1, InvAlways, PTL

\* The batches of an installment that hold a claim slot hold different ones within the limit, and one
\* idempotency key never leaves two batches.
THEOREM DistinctBatches == CreateSpec => []BatchesAreDistinct
<1>1. CreateInv => BatchesAreDistinct  BY DEF CreateInv, StoreInv, BatchesAreDistinct
<1>2. QED  BY <1>1, InvAlways, PTL

\* The audit rows of every batch are exactly its transitions.
THEOREM HistoryIsExact == CreateSpec => []AuditTrail
<1>1. CreateInv => AuditTrail  BY DEF CreateInv, StoreInv
<1>2. QED  BY <1>1, InvAlways, PTL

\* Success is only answered with a published batch of the request's key.
THEOREM SuccessIsReady == CreateSpec => []SuccessMeansReady
<1>1. CreateInv => SuccessMeansReady
  BY SMTT(30), StoreAssumption DEF CreateInv, SuccessMeansReady, Consistent, At
<1>2. QED  BY <1>1, InvAlways, PTL

-----------------------------------------------------------------------------
(* Steps never undo what was published                                     *)

\* What a step may do to the documents and the locks.
WriteKinds ==
  \/ batch' = batch /\ lock' = lock
  \/ \E b \in Batch : DeleteBuildingArtifacts(b) \/ AbandonDraft(b)
  \/ \E b \in Batch : Age(b) \/ Reserve(b) \/ Finalize(b)

\* Every step is a write of one of these kinds.
LEMMA StepKinds == [CreateNext]_cvars => WriteKinds
BY DEF CreateNext, RequestStep, CleanupStep, WriteKinds, cvars, store, Arrive, CheckCanCreate,
       Prepare, AllocateSlot, SlotTaken, UlbLocked, FindStale, ReclaimOne, PersistChunk,
       VerifyChildren, VerifyLocks, FinalizeMissed, ResolveAlreadyFinalized, AbortBuild,
       BuildStepFails, BuildCrash, CronScan, CronClean, CronStops, AbandonReady

\* The documents after each kind of write.
LEMMA DocsAfter ==
  ASSUME CreateInv, WriteKinds
  PROVE  \A c \in Batch : Ready(c) => Ready(c)' /\ batch'[c].content = batch[c].content
<1> USE DEF Ready
<1>0. CreateTypeOK  BY DEF CreateInv
<1>1. CASE batch' = batch /\ lock' = lock  BY <1>1
<1>2. ASSUME NEW b \in Batch, DeleteBuildingArtifacts(b)
      PROVE  \A c \in Batch : Ready(c) => batch'[c] = batch[c]
  BY <1>0, <1>2 DEF DeleteBuildingArtifacts, Building, store, CreateTypeOK, StoreTypeOK
<1>3. ASSUME NEW b \in Batch, AbandonDraft(b)
      PROVE  \A c \in Batch : /\ batch'[c].assembly = batch[c].assembly
                            /\ batch'[c].content = batch[c].content
  BY <1>0, <1>3 DEF AbandonDraft, CreateTypeOK, StoreTypeOK, BatchDoc
<1>4. ASSUME NEW b \in Batch, Age(b)
      PROVE  \A c \in Batch : /\ batch'[c].assembly = batch[c].assembly
                            /\ batch'[c].content = batch[c].content
  BY <1>0, <1>4 DEF Age, CreateTypeOK, StoreTypeOK, BatchDoc
<1>5. ASSUME NEW r \in Batch, Reserve(r)
      PROVE  \A c \in Batch : Ready(c) => batch'[c] = batch[c]
  <2>1. batch[r].assembly = "none"
    BY <1>5 DEF CreateInv, Consistent, Reserve, At, BeforeReserve
  <2>2. \A c \in Batch \ {r} : batch'[c] = batch[c]
    BY <1>0, <1>5 DEF Reserve, CreateTypeOK, StoreTypeOK
  <2>3. QED  BY <2>1, <2>2
<1>6. ASSUME NEW r \in Batch, Finalize(r)
      PROVE  \A c \in Batch : Ready(c) => batch'[c] = batch[c]
  BY <1>0, <1>6 DEF Finalize, Building, CreateTypeOK, StoreTypeOK
<1>7. QED  BY <1>1, <1>2, <1>3, <1>4, <1>5, <1>6 DEF WriteKinds

\* No reclaim, cron run or roll-back takes back a published batch or changes what it claims.
THEOREM PublishedIsKept == CreateSpec => ReadyIsNeverLost
<1>1. CreateInv /\ [CreateNext]_cvars =>
        [\A b \in Batch : Ready(b) => Ready(b)' /\ batch'[b].content = batch[b].content]_cvars
  BY StepKinds, DocsAfter
<1>2. QED  BY <1>1, InvAlways, PTL DEF CreateSpec, ReadyIsNeverLost
-----------------------------------------------------------------------------
(* The pipeline implements the ledger                                      *)

\* The phases and claims of the ledger.
Phases == [b \in Batch |-> PhaseOf(batch[b])]
Claims == [b \in Batch |-> batch[b].content]

\* The phases of the documents the writes read and write.
LEMMA PhaseIs ==
  ASSUME NEW d \in BatchDoc
  PROVE  /\ d.assembly = "none" => PhaseOf(d) = "unused"
         /\ d.assembly = "BUILDING" => PhaseOf(d) = "building"
         /\ d.assembly = "READY" /\ ~d.abandoned => PhaseOf(d) = "published"
         /\ d.assembly = "READY" /\ d.abandoned => PhaseOf(d) = "withdrawn"
         /\ d.assembly = "deleted" => PhaseOf(d) = "cancelled"
BY DEF PhaseOf

\* Deleting the documents of a build cancels it and lets its ULBs go; deleting anything else is
\* no step of the ledger.
LEMMA DeleteMaps ==
  ASSUME CreateInv, NEW b \in Batch, DeleteBuildingArtifacts(b)
  PROVE  [Ledger!LedgerNext]_(Ledger!ledger)
<1>1. CreateTypeOK /\ batch[b] \in BatchDoc  BY DEF CreateInv, CreateTypeOK, StoreTypeOK
<1>2. CASE ~Building(b)
  BY <1>2 DEF DeleteBuildingArtifacts, store, Ledger!ledger
<1>3. CASE Building(b)
  <2>1. batch' = [batch EXCEPT ![b] = DeletedDoc]
        /\ lock' = [u \in Ulb |-> IF lock[u] = b THEN NoBatch ELSE lock[u]]
    BY <1>3 DEF DeleteBuildingArtifacts
  <2>2. DeletedDoc \in BatchDoc /\ DeletedDoc.assembly = "deleted" /\ DeletedDoc.content = {}
    <3>1. NoDoc \in BatchDoc /\ NoDoc.content = {}
      BY StoreAssumption DEF NoDoc, BatchDoc, AssemblyStatus, FormStatus
    <3>2. QED  BY <3>1 DEF DeletedDoc, BatchDoc, AssemblyStatus
  <2>3. Phases[b] = "building" /\ Phases' = [Phases EXCEPT ![b] = "cancelled"]
    BY <1>1, <1>3, <2>1, <2>2, PhaseIs DEF Building, Phases, CreateTypeOK, StoreTypeOK
  <2>4. Claims' = Claims
    <3>1. batch[b].content = {}
      BY <1>3 DEF CreateInv, StoreInv, OnlyReadyClaims, Building, Ready
    <3>2. Claims' = [Claims EXCEPT ![b] = {}] /\ Claims[b] = {}
      BY <1>1, <2>1, <2>2, <3>1 DEF Claims, CreateTypeOK, StoreTypeOK
    <3>3. Claims \in [Batch -> SUBSET Ulb]
      BY <1>1 DEF Claims, CreateTypeOK, StoreTypeOK, BatchDoc
    <3>4. QED  BY <3>2, <3>3
  <2>5. Ledger!Cancel(b)
    BY <2>1, <2>3, <2>4 DEF Ledger!Cancel, Ledger!Move, Ledger!LetGo, Phases, Claims
  <2>6. QED  BY <2>5 DEF Ledger!LedgerNext
<1>4. QED  BY <1>2, <1>3

\* Abandoning is withdrawing.
LEMMA AbandonMaps ==
  ASSUME CreateInv, NEW b \in Batch, AbandonDraft(b)
  PROVE  [Ledger!LedgerNext]_(Ledger!ledger)
<1>1. CreateTypeOK /\ batch[b] \in BatchDoc  BY DEF CreateInv, CreateTypeOK, StoreTypeOK
<1>2. PICK d : d = [batch[b] EXCEPT !.abandoned = TRUE]  OBVIOUS
<1>3. d \in BatchDoc /\ d.assembly = batch[b].assembly /\ d.content = batch[b].content
  BY <1>1, <1>2 DEF BatchDoc
<1>4. d.abandoned = TRUE  BY <1>1, <1>2 DEF BatchDoc
<1>5. batch' = [batch EXCEPT ![b] = d]
      /\ lock' = [u \in Ulb |-> IF lock[u] = b THEN NoBatch ELSE lock[u]]
      /\ batch[b].assembly = "READY"
  BY <1>2 DEF AbandonDraft, Ready
<1>6. ~batch[b].abandoned  BY DEF AbandonDraft
<1>7. PhaseOf(batch[b]) = "published"  BY <1>1, <1>5, <1>6, PhaseIs
<1>8. PhaseOf(d) = "withdrawn"  BY <1>3, <1>4, <1>5, PhaseIs
<1>9. Phases[b] = "published" /\ Phases' = [Phases EXCEPT ![b] = "withdrawn"]
  BY <1>1, <1>5, <1>7, <1>8 DEF Phases, CreateTypeOK, StoreTypeOK
<1>10. Claims' = Claims
  <2>1. Claims' = [Claims EXCEPT ![b] = batch[b].content] /\ Claims[b] = batch[b].content
    BY <1>1, <1>3, <1>5 DEF Claims, CreateTypeOK, StoreTypeOK
  <2>2. Claims \in [Batch -> SUBSET Ulb]
    BY <1>1 DEF Claims, CreateTypeOK, StoreTypeOK, BatchDoc
  <2>3. QED  BY <2>1, <2>2
<1>11. Ledger!Withdraw(b)
  BY <1>5, <1>9, <1>10 DEF Ledger!Withdraw, Ledger!Move, Ledger!LetGo, Phases, Claims
<1>12. QED  BY <1>11 DEF Ledger!LedgerNext

\* The reservation holds the selected ULBs, all of them free until then.
LEMMA ReserveMaps ==
  ASSUME CreateInv, NEW r \in Batch, Reserve(r)
  PROVE  [Ledger!LedgerNext]_(Ledger!ledger)
<1>1. CreateTypeOK /\ batch[r] \in BatchDoc /\ req[r] \in ReqState
  BY DEF CreateInv, CreateTypeOK, StoreTypeOK
<1>2. batch[r].assembly = "none" /\ req[r].sel # {}
  BY DEF CreateInv, Consistent, BeforeReserve, Reserve, At
<1>3. PICK d : d = [NoDoc EXCEPT !.assembly = "BUILDING", !.number = req[r].slot,
                       !.key = req[r].key, !.createdAt = clock]
  OBVIOUS
<1>4. d \in BatchDoc /\ d.assembly = "BUILDING" /\ d.content = {}
  <2>1. NoDoc \in BatchDoc /\ NoDoc.content = {}
    BY StoreAssumption DEF NoDoc, BatchDoc, AssemblyStatus, FormStatus
  <2>2. QED
    BY <1>1, <1>3, <2>1 DEF BatchDoc, AssemblyStatus, ReqState, CreateTypeOK, StoreTypeOK
<1>5. batch' = [batch EXCEPT ![r] = d]  BY <1>3 DEF Reserve
<1>6. Phases[r] = "unused" /\ Phases' = [Phases EXCEPT ![r] = "building"]
  BY <1>1, <1>2, <1>4, <1>5, PhaseIs DEF Phases, CreateTypeOK, StoreTypeOK
<1>7. Claims' = Claims
  <2>1. batch[r].content = {}
    BY <1>2 DEF CreateInv, StoreInv, OnlyReadyClaims, Ready
  <2>2. Claims' = [Claims EXCEPT ![r] = {}] /\ Claims[r] = {}
    BY <1>1, <1>4, <1>5, <2>1 DEF Claims, CreateTypeOK, StoreTypeOK
  <2>3. Claims \in [Batch -> SUBSET Ulb]
    BY <1>1 DEF Claims, CreateTypeOK, StoreTypeOK, BatchDoc
  <2>4. QED  BY <2>2, <2>3
<1>8. Ledger!HoldUlbs(r, req[r].sel)
  <2>1. \A u \in req[r].sel : lock[u] = NoBatch  BY DEF Reserve, LockClash
  <2>2. lock' = [u \in Ulb |-> IF u \in req[r].sel THEN r ELSE lock[u]]  BY DEF Reserve
  <2>3. QED
    BY <1>2, <1>6, <1>7, <2>1, <2>2 DEF Ledger!HoldUlbs, Ledger!Move, Phases, Claims
<1>9. req[r].sel \in SUBSET Ulb  BY <1>1 DEF ReqState
<1>10. QED  BY <1>8, <1>9 DEF Ledger!LedgerNext

\* Finalizing publishes what the batch holds: what was read back is what is still locked.
LEMMA FinalizeMaps ==
  ASSUME CreateInv, NEW r \in Batch, Finalize(r)
  PROVE  [Ledger!LedgerNext]_(Ledger!ledger)
<1>1. CreateTypeOK /\ batch[r] \in BatchDoc /\ req[r] \in ReqState
  BY DEF CreateInv, CreateTypeOK, StoreTypeOK
<1>2. batch[r].assembly = "BUILDING" /\ req[r].pc = "finalize"  BY DEF Finalize, At, Building
<1>3. req[r].seen = req[r].sel /\ \A u \in Ulb : lock[u] = r <=> u \in req[r].sel
  BY <1>2 DEF CreateInv, Consistent, AfterReserve, Building
<1>4. PICK d : d = [batch[r] EXCEPT !.assembly = "READY", !.stale = FALSE,
                                      !.content = req[r].seen]
  OBVIOUS
<1>5. d \in BatchDoc /\ d.assembly = "READY" /\ d.content = req[r].seen
  BY <1>1, <1>4 DEF BatchDoc, AssemblyStatus, ReqState
<1>6. ~d.abandoned
  <2>1. ~batch[r].abandoned
    BY <1>2 DEF CreateInv, StoreInv, OnlyReadyAbandoned, Ready
  <2>2. d.abandoned = batch[r].abandoned  BY <1>1, <1>4 DEF BatchDoc
  <2>3. QED  BY <2>1, <2>2
<1>7. batch' = [batch EXCEPT ![r] = d]  BY <1>4 DEF Finalize
<1>8. PhaseOf(d) = "published"  BY <1>5, <1>6, PhaseIs
<1>9. PhaseOf(batch[r]) = "building"  BY <1>1, <1>2, PhaseIs
<1>10. /\ Phases[r] = "building" /\ Phases' = [Phases EXCEPT ![r] = "published"]
       /\ Claims' = [Claims EXCEPT ![r] = req[r].seen]
  BY <1>1, <1>5, <1>7, <1>8, <1>9 DEF Phases, Claims, CreateTypeOK, StoreTypeOK
<1>11. req[r].seen = {u \in Ulb : lock[u] = r}
  <2>1. req[r].sel \in SUBSET Ulb  BY <1>1 DEF ReqState
  <2>2. QED  BY <1>3, <2>1
<1>12. Ledger!Publish(r)
  BY <1>10, <1>11 DEF Ledger!Publish, Ledger!Move, Ledger!Held, Phases, Claims, Finalize
<1>13. QED  BY <1>12 DEF Ledger!LedgerNext

\* A build that becomes stale is the same build.
LEMMA AgeMaps ==
  ASSUME CreateInv, NEW b \in Batch, Age(b)
  PROVE  UNCHANGED Ledger!ledger
<1>1. CreateTypeOK /\ batch[b] \in BatchDoc  BY DEF CreateInv, CreateTypeOK, StoreTypeOK
<1>2. PICK d : d = [batch[b] EXCEPT !.stale = TRUE]  OBVIOUS
<1>3. d \in BatchDoc /\ d.assembly = batch[b].assembly /\ d.content = batch[b].content
  BY <1>1, <1>2 DEF BatchDoc
<1>4. batch[b].assembly = "BUILDING"  BY DEF Age, Building
<1>5. batch' = [batch EXCEPT ![b] = d] /\ lock' = lock  BY <1>2 DEF Age
<1>6. PhaseOf(d) = PhaseOf(batch[b])  BY <1>1, <1>3, <1>4, PhaseIs
<1>7. \A c \in Batch : PhaseOf(batch'[c]) = PhaseOf(batch[c])
                       /\ batch'[c].content = batch[c].content
  BY <1>1, <1>3, <1>5, <1>6 DEF CreateTypeOK, StoreTypeOK
<1>8. Phases' = Phases /\ Claims' = Claims  BY <1>7 DEF Phases, Claims
<1>9. QED  BY <1>5, <1>8 DEF Ledger!ledger, Phases, Claims

\* The whole pipeline, with its roll-backs, reclaims, cron and crashes, implements the ledger.
THEOREM PipelineImplementsLedger == CreateSpec => ImplementsLedger
<1>1. CreateInit => Ledger!LedgerInit
  <2> SUFFICES ASSUME CreateInit  PROVE Ledger!LedgerInit
    OBVIOUS
  <2>1. NoDoc \in BatchDoc /\ NoDoc.assembly = "none" /\ NoDoc.content = {}
    BY StoreAssumption DEF NoDoc, BatchDoc, AssemblyStatus, FormStatus
  <2>2. \A b \in Batch : PhaseOf(batch[b]) = "unused" /\ batch[b].content = {}
    BY <2>1, PhaseIs DEF CreateInit, StoreInit
  <2>3. QED  BY <2>2 DEF CreateInit, StoreInit, Ledger!LedgerInit
<1>2. CreateInv /\ [CreateNext]_cvars => [Ledger!LedgerNext]_(Ledger!ledger)
  <2> SUFFICES ASSUME CreateInv, [CreateNext]_cvars
               PROVE  [Ledger!LedgerNext]_(Ledger!ledger)
    OBVIOUS
  <2>1. CASE batch' = batch /\ lock' = lock  BY <2>1 DEF Ledger!ledger
  <2>2. QED
    BY <2>1, StepKinds, DeleteMaps, AbandonMaps, AgeMaps, ReserveMaps, FinalizeMaps DEF WriteKinds
<1>3. QED  BY <1>1, <1>2, InvAlways, PTL DEF CreateSpec, ImplementsLedger, Ledger!LedgerSpec
=============================================================================
