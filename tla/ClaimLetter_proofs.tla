--------------------------- MODULE ClaimLetter_proofs ---------------------------
(***************************************************************************)
(* Proofs about the claim letter as a whole: creates and their clean-up,    *)
(* edits, and everything up to the submit, interleaved over the same        *)
(* documents, for every number of each.                                     *)
(***************************************************************************)
EXTENDS ClaimLetterProps, MCLetterScenes, ClaimCreate_proofs, ClaimDraft_proofs

-----------------------------------------------------------------------------
(* Types                                                                   *)

LetterTyped == LetterTypeOK /\ EditShape /\ SubmitShape

\* The clean-up keeps the create pipeline well-typed, and so does any of its steps.
LEMMA PipelineTyped ==
  ASSUME CreateTypeOK, (\E r \in Batch : RequestStep(r)) \/ CleanupStep
  PROVE  CreateTypeOK'
BY NextTyped DEF CreateNext

\* Every step keeps the state well-typed: a step of one part writes what that part's types cover and
\* the documents, and leaves the requests of the others alone.
LEMMA LetterStepTyped == LetterTyped /\ [LetterNext]_lvars => LetterTyped'
<1> SUFFICES ASSUME LetterTyped, [LetterNext]_lvars  PROVE LetterTyped'  OBVIOUS
<1>0. CreateTypeOK /\ EditTypeOK /\ SubmitTypeOK /\ EditShape /\ SubmitShape
  BY DEF LetterTyped, LetterTypeOK
<1>1. CASE /\ (\E r \in Batch : RequestStep(r)) \/ CleanupStep
           /\ UNCHANGED <<draft, edit, subvars>>
  <2>1. CreateTypeOK'  BY <1>0, <1>1, PipelineTyped
  <2>2. EditTypeOK' /\ EditShape'
    BY <1>0, <1>1, <2>1 DEF CreateTypeOK, EditTypeOK, DraftTypeOK, EditShape
  <2>3. SubmitTypeOK' /\ SubmitShape'
    BY <1>0, <1>1, <2>2 DEF EditTypeOK, SubmitTypeOK, SubmitShape, subvars
  <2>4. QED  BY <2>1, <2>2, <2>3 DEF LetterTyped, LetterTypeOK
<1>2. CASE /\ (\E e \in Editor : EditStep(e)) \/ (\E b \in Batch : LeaseExpires(b))
           /\ UNCHANGED <<createOnly, subvars>>
  <2>1. EditNext  BY <1>2 DEF EditNext
  <2>2. EditTypeOK' /\ EditShape'  BY <1>0, <2>1, EditStepTyped
  <2>3. CreateTypeOK'
    BY <1>0, <1>2, <2>2 DEF EditTypeOK, DraftTypeOK, CreateTypeOK, createOnly
  <2>4. SubmitTypeOK' /\ SubmitShape'
    BY <1>0, <1>2, <2>2 DEF EditTypeOK, SubmitTypeOK, SubmitShape, subvars
  <2>5. QED  BY <2>2, <2>3, <2>4 DEF LetterTyped, LetterTypeOK
<1>3. CASE SubmitStep /\ UNCHANGED <<createOnly, edit>>
  <2>1. SubmitTypeOK' /\ SubmitShape'  BY <1>0, <1>3, SubmitStepTyped DEF SubmitNext
  <2>2. CreateTypeOK'
    BY <1>0, <1>3, <2>1 DEF SubmitTypeOK, DraftTypeOK, CreateTypeOK, createOnly
  <2>3. EditTypeOK' /\ EditShape'
    BY <1>0, <1>3, <2>1 DEF SubmitTypeOK, EditTypeOK, EditShape
  <2>4. QED  BY <2>1, <2>2, <2>3 DEF LetterTyped, LetterTypeOK
<1>4. ASSUME NEW b \in Batch, AbandonAny(b)  PROVE LetterTyped'
  <2>1. AbandonUnedited(b) /\ AbandonUnsubmitted(b) /\ UNCHANGED createOnly
    BY <1>4 DEF AbandonAny, AbandonUnedited, AbandonUnsubmitted
  <2>2. EditTypeOK' /\ EditShape'  BY <1>0, <2>1, EditStepTyped DEF EditNext
  <2>3. SubmitTypeOK' /\ SubmitShape'  BY <1>0, <2>1, SubmitStepTyped DEF SubmitNext
  <2>4. CreateTypeOK'
    BY <1>0, <2>1, <2>2 DEF EditTypeOK, DraftTypeOK, CreateTypeOK, createOnly
  <2>5. QED  BY <2>2, <2>3, <2>4 DEF LetterTyped, LetterTypeOK
<1>5. CASE UNCHANGED lvars
  <2>1. UNCHANGED <<dstore, createOnly, edit, subvars>>  BY <1>5 DEF lvars
  <2>2. UNCHANGED cvars /\ UNCHANGED evars /\ UNCHANGED svars
    BY <2>1 DEF cvars, evars, svars, dstore, createOnly
  <2>3. QED
    BY <1>0, <2>2, NextTyped, EditStepTyped, SubmitStepTyped DEF LetterTyped, LetterTypeOK
<1>6. QED  BY <1>1, <1>2, <1>3, <1>4, <1>5 DEF LetterNext

\* The empty database is well-typed.
LEMMA LetterInitTyped == LetterInit => LetterTyped
<1> SUFFICES ASSUME LetterInit  PROVE LetterTyped  OBVIOUS
<1>1. CreateTypeOK  BY InitTyped DEF LetterInit
<1>2. DraftTypeOK  BY <1>1, InitialRecords DEF LetterInit, CreateTypeOK, DraftTypeOK
<1>3. EditTypeOK /\ EditShape
  BY <1>2, InitialRecords, WorkingIs DEF LetterInit, EditProcInit, EditTypeOK, EditShape, IdleEdit
<1>4. SubmitTypeOK
  BY <1>2, FirstRecords DEF LetterInit, SubmitProcInit, SubmitTypeOK
<1>5. SubmitShape
  BY DEF LetterInit, SubmitProcInit, SubmitShape, InFlight, IdleSub
<1>6. QED  BY <1>1, <1>3, <1>4, <1>5 DEF LetterTyped, LetterTypeOK

\* Type correctness of the whole: from the empty database, whatever creates, clean-ups, edits,
\* saves, merges, submits and abandons interleave and whatever fails.
THEOREM LetterTypeCorrect == LetterSpec => []LetterTypeOK
<1>1. LetterTyped => LetterTypeOK  BY DEF LetterTyped
<1>2. QED  BY <1>1, LetterInitTyped, LetterStepTyped, PTL DEF LetterSpec

-----------------------------------------------------------------------------
(* The invariants of the documents                                         *)
(*                                                                         *)
(* The invariant of the create pipeline alone is lost here: an edit that    *)
(* began before an abandon locks ULBs for an abandoned draft. What the      *)
(* composition keeps is what each request relies on (Consistent) and that   *)
(* edits and submits work on batches that are published.                    *)

\* Before it is published a batch claims nothing, and nobody has touched its draft.
Unpublished ==
  \A b \in Batch : ~Ready(b) =>
    /\ ~batch[b].abandoned
    /\ batch[b].status = "IN_PROGRESS"
    /\ batch[b].content = {}
    /\ draft[b] = NewDraft

EditsOnReady ==
  \A e \in Editor : edit[e].pc \in Working \cup {"claim"} => Ready(edit[e].on) /\ edit[e].sel # {}

SubmitsOnReady ==
  /\ \A s \in Submitter : sub[s].pc \in InFlight => Ready(sub[s].on)
  /\ \A m \in merges : Ready(m.on)

DocsInv == LocksName /\ Unpublished /\ EditsOnReady /\ SubmitsOnReady

\* A live draft nobody works on, as the create pipeline publishes it and every edit leaves it.
Whole(b) ==
  /\ child[b] = batch[b].content
  /\ LocksOf(b) = batch[b].content
  /\ batch[b].content # {}

-----------------------------------------------------------------------------
(* What a step writes: the documents of one batch                          *)

OnlyTouches(b) ==
  \A c \in Batch \ {b} :
    /\ batch'[c] = batch[c] /\ child'[c] = child[c]
    /\ history'[c] = history[c] /\ draft'[c] = draft[c]
    /\ \A u \in Ulb : lock'[u] = c <=> lock[u] = c

\* A step of the create pipeline, up to and with the one that publishes.
UnpublishedStep(b) ==
  /\ ~Ready(b)
  /\ OnlyTouches(b)
  /\ UNCHANGED <<draft, edit, subvars>>
  /\ ~batch'[b].abandoned
  /\ batch'[b].status = "IN_PROGRESS"
  /\ \A u \in Ulb : lock'[u] = b => Exists(b)'
  /\ \/ ~Ready(b)' /\ batch'[b].content = {} /\ history'[b] = history[b]
     \/ Ready(b)' /\ Whole(b)' /\ history'[b] = Append(history[b], "CREATED")

\* A step of an edit, a submit or an abandon.
PublishedStep(b) ==
  /\ Ready(b) /\ Ready(b)'
  /\ OnlyTouches(b)
  /\ batch'[b].key = batch[b].key
  /\ UNCHANGED createOnly

\* Deleting a build touches that build, before it is published.
LEMMA DeleteTouches ==
  ASSUME LetterTyped, NEW b \in Batch, DeleteBuildingArtifacts(b), UNCHANGED <<draft, edit, subvars>>
  PROVE  UNCHANGED dstore \/ UnpublishedStep(b)
<1>0. /\ batch \in [Batch -> BatchDoc] /\ child \in [Batch -> SUBSET Ulb]
      /\ lock \in [Ulb -> Batch \cup {NoBatch}]
  BY DEF LetterTyped, LetterTypeOK, CreateTypeOK, StoreTypeOK
<1>1. CASE ~Building(b)
  BY <1>1 DEF DeleteBuildingArtifacts, dstore
<1>2. CASE Building(b)
  <2>1. /\ DeletedDoc.assembly = "deleted" /\ DeletedDoc.abandoned = FALSE
        /\ DeletedDoc.status = "IN_PROGRESS" /\ DeletedDoc.content = {}
    <3>1. NoDoc.abandoned = FALSE /\ NoDoc.content = {} /\ NoDoc.status = "IN_PROGRESS"
      BY DEF NoDoc
    <3>2. QED  BY <3>1, InitialRecords DEF DeletedDoc, BatchDoc
  <2>2. /\ batch' = [batch EXCEPT ![b] = DeletedDoc]
        /\ child' = [child EXCEPT ![b] = {}]
        /\ lock' = [u \in Ulb |-> IF lock[u] = b THEN NoBatch ELSE lock[u]]
        /\ history' = history
    BY <1>2 DEF DeleteBuildingArtifacts
  <2>3. batch'[b] = DeletedDoc  BY <1>0, <2>2
  <2>4. OnlyTouches(b)  BY <1>0, <2>2, StoreAssumption DEF OnlyTouches
  <2>5. ~Ready(b) /\ ~Ready(b)'  BY <1>2, <2>1, <2>3 DEF Building, Ready
  <2>6. \A u \in Ulb : lock'[u] # b  BY <2>2, StoreAssumption
  <2>7. QED  BY <2>1, <2>2, <2>3, <2>4, <2>5, <2>6 DEF UnpublishedStep
<1>3. QED  BY <1>1, <1>2

\* The reservation, from no document at all.
LEMMA ReserveTouches ==
  ASSUME LetterTyped, LetterTyped', DocsInv, Creates, NEW r \in Batch, Reserve(r),
         UNCHANGED <<draft, edit, subvars>>
  PROVE  UnpublishedStep(r)
<1>0. /\ batch \in [Batch -> BatchDoc] /\ lock \in [Ulb -> Batch \cup {NoBatch}]
      /\ req[r] \in ReqState
  BY DEF LetterTyped, LetterTypeOK, CreateTypeOK, StoreTypeOK
<1>1. batch[r].assembly = "none"
  BY DEF Creates, Consistent, BeforeReserve, Reserve, At
<1> DEFINE doc == [NoDoc EXCEPT !.assembly = "BUILDING", !.number = req[r].slot,
                       !.key = req[r].key, !.createdAt = clock]
<1>2. /\ doc.assembly = "BUILDING" /\ doc.abandoned = FALSE /\ doc.content = {}
      /\ doc.status = "IN_PROGRESS"
  BY DEF NoDoc
<1>3. batch' = [batch EXCEPT ![r] = doc]  BY DEF Reserve
<1> HIDE DEF doc
<1>4. batch'[r] = doc /\ \A c \in Batch \ {r} : batch'[c] = batch[c]  BY <1>0, <1>3
<1>5. /\ \A u \in Ulb : lock'[u] = IF u \in req[r].sel THEN r ELSE lock[u]
      /\ \A u \in req[r].sel : lock[u] = NoBatch
      /\ child' = child /\ history' = history
  BY DEF Reserve, LockClash
<1>6. OnlyTouches(r)  BY <1>4, <1>5, StoreAssumption DEF OnlyTouches
<1>7. Exists(r)' /\ ~Ready(r) /\ ~Ready(r)'  BY <1>1, <1>2, <1>4 DEF Exists, Ready
<1>8. QED  BY <1>2, <1>4, <1>5, <1>6, <1>7 DEF UnpublishedStep

\* Publishing makes a whole draft.
LEMMA FinalizeTouches ==
  ASSUME LetterTyped, DocsInv, Creates, NEW r \in Batch, Finalize(r),
         UNCHANGED <<draft, edit, subvars>>
  PROVE  UnpublishedStep(r)
<1>0. /\ batch \in [Batch -> BatchDoc] /\ history \in [Batch -> Seq(Transition)]
      /\ req[r] \in ReqState /\ batch[r] \in BatchDoc
  BY DEF LetterTyped, LetterTypeOK, CreateTypeOK, StoreTypeOK
<1>1. Building(r) /\ req[r].pc = "finalize" /\ Consistent(r, req[r])
  BY DEF Creates, Finalize, At
<1>2. /\ req[r].sel # {} /\ child[r] = req[r].sel /\ req[r].seen = req[r].sel
      /\ \A u \in Ulb : lock[u] = r <=> u \in req[r].sel
  BY <1>1 DEF Consistent, AfterReserve
<1> DEFINE doc == [batch[r] EXCEPT !.assembly = "READY", !.stale = FALSE, !.content = req[r].seen]
<1>3. /\ doc.assembly = "READY" /\ doc.abandoned = batch[r].abandoned
      /\ doc.status = batch[r].status /\ doc.content = req[r].seen
  BY <1>0 DEF BatchDoc
<1>4. batch' = [batch EXCEPT ![r] = doc]  BY DEF Finalize
<1> HIDE DEF doc
<1>5. batch'[r] = doc /\ \A c \in Batch \ {r} : batch'[c] = batch[c]  BY <1>0, <1>4
<1>6. /\ lock' = lock /\ child' = child /\ history'[r] = Append(history[r], "CREATED")
      /\ \A c \in Batch \ {r} : history'[c] = history[c]
  BY <1>0 DEF Finalize, Record
<1>7. OnlyTouches(r)  BY <1>5, <1>6 DEF OnlyTouches
<1>8. ~Ready(r) /\ ~batch[r].abandoned /\ batch[r].status = "IN_PROGRESS"
  BY <1>1 DEF DocsInv, Unpublished, Building, Ready
<1>9. Ready(r)' /\ Exists(r)'  BY <1>3, <1>5 DEF Ready, Exists
<1>10. LocksOf(r)' = req[r].sel
  BY <1>0, <1>2, <1>6 DEF LocksOf, ReqState
<1>11. Whole(r)'  BY <1>2, <1>3, <1>5, <1>6, <1>10 DEF Whole
<1>12. QED  BY <1>3, <1>5, <1>6, <1>7, <1>8, <1>9, <1>11 DEF UnpublishedStep

\* A chunk of child rows is written by a build that is not published.
LEMMA PersistTouches ==
  ASSUME LetterTyped, DocsInv, Creates, NEW r \in Batch, NEW C \in SUBSET Ulb, PersistChunk(r, C),
         UNCHANGED <<draft, edit, subvars>>
  PROVE  UnpublishedStep(r)
<1>0. CreateTypeOK  BY DEF LetterTyped, LetterTypeOK
<1>1. ~Ready(r)  BY <1>0, PersistRely
<1>2. /\ batch' = batch /\ lock' = lock /\ history' = history
      /\ \A c \in Batch \ {r} : child'[c] = child[c]
  BY <1>0 DEF PersistChunk, CreateTypeOK, StoreTypeOK
<1>3. OnlyTouches(r) /\ ~Ready(r)'  BY <1>1, <1>2 DEF OnlyTouches, Ready
<1>4. ~batch[r].abandoned /\ batch[r].status = "IN_PROGRESS" /\ batch[r].content = {}
  BY <1>1 DEF DocsInv, Unpublished
<1>5. \A u \in Ulb : lock'[u] = r => Exists(r)'
  BY <1>2, StoreAssumption DEF DocsInv, LocksName, Exists
<1>6. QED  BY <1>1, <1>2, <1>3, <1>4, <1>5 DEF UnpublishedStep

\* Time makes a build stale, and takes nothing any request relies on.
LEMMA AgeTouches ==
  ASSUME LetterTyped, DocsInv, Creates, NEW b \in Batch, Age(b), UNCHANGED <<draft, edit, subvars>>
  PROVE  UnpublishedStep(b) /\ Creates'
<1>0. CreateTypeOK /\ batch \in [Batch -> BatchDoc] /\ batch[b] \in BatchDoc
  BY DEF LetterTyped, LetterTypeOK, CreateTypeOK, StoreTypeOK
<1> DEFINE doc == [batch[b] EXCEPT !.stale = TRUE]
<1>1. /\ doc.assembly = batch[b].assembly /\ doc.key = batch[b].key
      /\ doc.abandoned = batch[b].abandoned /\ doc.status = batch[b].status
      /\ doc.content = batch[b].content
  BY <1>0 DEF BatchDoc
<1>2. batch' = [batch EXCEPT ![b] = doc]  BY DEF Age
<1> HIDE DEF doc
<1>3. /\ batch'[b] = doc /\ \A c \in Batch \ {b} : batch'[c] = batch[c]
      /\ lock' = lock /\ child' = child /\ history' = history /\ req' = req
  BY <1>0, <1>2 DEF Age
<1>4. Building(b) /\ ~Ready(b) /\ Building(b)' /\ ~Ready(b)'
  BY <1>1, <1>3 DEF Age, Building, Ready
<1>5. OnlyTouches(b)  BY <1>3 DEF OnlyTouches
<1>6. Exists(b)'  BY <1>4 DEF Building, Exists
<1>7. ~batch[b].abandoned /\ batch[b].status = "IN_PROGRESS" /\ batch[b].content = {}
  BY <1>4 DEF DocsInv, Unpublished
<1>8. UnpublishedStep(b)
  BY <1>1, <1>3, <1>4, <1>5, <1>6, <1>7 DEF UnpublishedStep
<1>9. \A c \in Batch : batch'[c].assembly = batch[c].assembly /\ batch'[c].key = batch[c].key
  BY <1>1, <1>3
<1>10. \A p \in Batch : \A q \in ReqState : Consistent(p, q) => Consistent(p, q)'
  BY <1>3, <1>9 DEF Consistent, Building, Ready
<1>11. QED  BY <1>0, <1>3, <1>8, <1>10, OthersKeepRequests

\* What the create pipeline and its clean-up write is the documents of one batch before it is
\* published, and what the requests rely on stays true.
LEMMA CreateWrites ==
  ASSUME LetterTyped, LetterTyped', DocsInv, Creates,
         (\E r \in Batch : RequestStep(r)) \/ CleanupStep, UNCHANGED <<draft, edit, subvars>>
  PROVE  /\ UNCHANGED dstore \/ \E b \in Batch : UnpublishedStep(b)
         /\ Creates'
<1>0. CreateTypeOK /\ LocksName  BY DEF LetterTyped, LetterTypeOK, DocsInv
<1>1. ASSUME NEW r \in Batch, RequestStep(r)
      PROVE  Creates' /\ (UNCHANGED dstore \/ \E b \in Batch : UnpublishedStep(b))
  <2>1. Creates'  BY <1>0, <1>1, RequestRelies
  <2>2. CASE UNCHANGED store  BY <2>1, <2>2 DEF dstore
  <2>3. CASE \E b \in Batch : DeleteBuildingArtifacts(b)  BY <2>1, <2>3, DeleteTouches
  <2>4. CASE \E C \in SUBSET Ulb : PersistChunk(r, C)  BY <2>1, <2>4, PersistTouches
  <2>5. CASE Reserve(r)  BY <2>1, <2>5, ReserveTouches
  <2>6. CASE Finalize(r)  BY <2>1, <2>6, FinalizeTouches
  <2>7. QED  BY <1>1, <2>2, <2>3, <2>4, <2>5, <2>6, RequestWrites
<1>2. ASSUME NEW b \in Batch, CronClean(b)
      PROVE  Creates' /\ (UNCHANGED dstore \/ \E c \in Batch : UnpublishedStep(c))
  <2>1. DeleteBuildingArtifacts(b) /\ UNCHANGED req  BY <1>2 DEF CronClean
  <2>2. Creates'  BY <1>0, <2>1, DeleteRely, OthersKeepRequests
  <2>3. QED  BY <2>1, <2>2, DeleteTouches
<1>3. CASE CronScan \/ CronStops
  <2>1. UNCHANGED <<store, req>>  BY <1>3 DEF CronScan, CronStops
  <2>2. Creates'  BY <2>1 DEF Creates, Consistent, store, Building, Ready
  <2>3. QED  BY <2>1, <2>2 DEF dstore
<1>4. ASSUME NEW b \in Batch, Age(b)  PROVE Creates' /\ UnpublishedStep(b)  BY <1>4, AgeTouches
<1>5. QED  BY <1>1, <1>2, <1>3, <1>4 DEF CleanupStep

\* A write before the publishing keeps what the collections promise.
LEMMA UnpublishedKeepsDocs ==
  ASSUME LetterTyped, LetterTyped', DocsInv, NEW b \in Batch, UnpublishedStep(b)
  PROVE  DocsInv'
<1>0. \A u \in Ulb : lock'[u] \in Batch \cup {NoBatch}
  BY DEF LetterTyped, LetterTypeOK, CreateTypeOK, StoreTypeOK
<1>1. \A c \in Batch : Ready(c) => Ready(c)'
  BY DEF UnpublishedStep, OnlyTouches, Ready
<1>2. \A c \in Batch \ {b} : /\ batch'[c] = batch[c]
                             /\ \A u \in Ulb : lock'[u] = c <=> lock[u] = c
  BY DEF UnpublishedStep, OnlyTouches
<1>3. LocksName'
  <2>1. SUFFICES ASSUME NEW u \in Ulb, NEW c \in Batch, lock'[u] = c  PROVE Exists(c)'
    BY <1>0 DEF LocksName, Exists
  <2>2. CASE c = b  BY <2>1, <2>2 DEF UnpublishedStep
  <2>3. CASE c # b  BY <1>2, <2>1, <2>3, StoreAssumption DEF DocsInv, LocksName, Exists
  <2>4. QED  BY <2>2, <2>3
<1>4. Unpublished'
  <2>1. draft' = draft /\ ~Ready(b)  BY DEF UnpublishedStep
  <2>2. SUFFICES ASSUME NEW c \in Batch, ~Ready(c)'
                 PROVE  /\ ~batch'[c].abandoned /\ batch'[c].status = "IN_PROGRESS"
                        /\ batch'[c].content = {} /\ draft[c] = NewDraft
    BY <2>1 DEF Unpublished
  <2>3. CASE c = b  BY <2>1, <2>2, <2>3 DEF DocsInv, Unpublished, UnpublishedStep
  <2>4. CASE c # b  BY <1>2, <2>2, <2>4 DEF DocsInv, Unpublished, Ready
  <2>5. QED  BY <2>3, <2>4
<1>5. EditsOnReady'
  <2>1. edit' = edit  BY DEF UnpublishedStep
  <2>2. QED  BY <1>1, <2>1 DEF DocsInv, EditsOnReady, LetterTyped, EditShape
<1>6. SubmitsOnReady'
  <2>1. sub' = sub /\ merges' = merges  BY DEF UnpublishedStep, subvars
  <2>2. \A m \in merges : m.on \in Batch
    BY DEF LetterTyped, LetterTypeOK, SubmitTypeOK
  <2>3. QED  BY <1>1, <2>1, <2>2 DEF DocsInv, SubmitsOnReady, LetterTyped, SubmitShape
<1>7. QED  BY <1>3, <1>4, <1>5, <1>6 DEF DocsInv

\* A write to a published batch, of which it stays the key, keeps what the others rely on.
LEMMA PublishedKeepsDocs ==
  ASSUME LetterTyped, LetterTyped', LocksName, Unpublished, Creates,
         NEW b \in Batch, PublishedStep(b)
  PROVE  LocksName' /\ Unpublished' /\ Creates' /\ \A c \in Batch : Ready(c) => Ready(c)'
<1>1. \A c \in Batch : Ready(c) => Ready(c)'
  BY DEF PublishedStep, OnlyTouches, Ready
<1>2. \A c \in Batch \ {b} : /\ batch'[c] = batch[c] /\ child'[c] = child[c] /\ draft'[c] = draft[c]
                             /\ \A u \in Ulb : lock'[u] = c <=> lock[u] = c
  BY DEF PublishedStep, OnlyTouches
<1>3. Ready(b) /\ Ready(b)' /\ batch'[b].key = batch[b].key /\ UNCHANGED req
  BY DEF PublishedStep, createOnly
<1>4. LocksName'
  <2>1. \A u \in Ulb : lock'[u] \in Batch \cup {NoBatch}
    BY DEF LetterTyped, LetterTypeOK, CreateTypeOK, StoreTypeOK
  <2>2. SUFFICES ASSUME NEW u \in Ulb, NEW c \in Batch, lock'[u] = c  PROVE Exists(c)'
    BY <2>1 DEF LocksName, Exists
  <2>3. CASE c = b  BY <1>3, <2>3 DEF Exists, Ready
  <2>4. CASE c # b  BY <1>2, <2>2, <2>4, StoreAssumption DEF LocksName, Exists
  <2>5. QED  BY <2>3, <2>4
<1>5. Unpublished'  BY <1>2, <1>3 DEF Unpublished, Ready
<1>6. \A p \in Batch \ {b} : \A q \in ReqState : Consistent(p, q) => Consistent(p, q)'
  BY <1>2, <1>3, OthersRely
<1>7. ASSUME NEW q \in ReqState, Consistent(b, q)  PROVE Consistent(b, q)'
  <2>1. q.pc = "done" => Ready(q.result)' /\ batch'[q.result].key = q.key
    BY <1>1, <1>2, <1>3, <1>7 DEF Consistent
  <2>2. QED  BY <1>3, <1>7, <2>1 DEF Consistent, Ready, Building
<1>8. Creates'
  BY <1>3, <1>6, <1>7, OthersKeepRequests DEF LetterTyped, LetterTypeOK
<1>9. QED  BY <1>1, <1>4, <1>5, <1>8

-----------------------------------------------------------------------------
(* What each step keeps of what the parts promise                          *)

\* What the submit promises.
PromiseInv == SubmitAuditTrail /\ SignedLetterIsCurrent /\ SubmittedArtifacts

\* Under review a batch is out of reach of the edits.
SubmittedIsClosed == \A b \in Batch : Submitted(b) => ~batch[b].abandoned /\ LeaseFree(b)

LeaseInv == ClaimInv /\ SubmittedIsClosed

\* The first audit row.
LEMMA FirstRow == Append(<<>>, "CREATED") = <<"CREATED">>
<1> DEFINE a == Append(<<>>, "CREATED")
           c == <<"CREATED">>
<1>1. <<>> \in Seq(Transition) /\ Len(<<>>) = 0 /\ "CREATED" \in Transition  BY DEF Transition
<1>2. a \in Seq(Transition) /\ Len(a) = 1 /\ a[1] = "CREATED"  BY <1>1, AppendProperties
<1>3. c \in Seq(Transition) /\ Len(c) = 1 /\ c[1] = "CREATED"  BY DEF Transition
<1> HIDE DEF a, c
<1>4. a = c  BY <1>2, <1>3, SeqEqual
<1>5. QED  BY <1>4 DEF a, c

\* The audit row one batch should have, of which a step that writes another batch changes nothing.
LEMMA UnpublishedKeepsPromise ==
  ASSUME DocsInv, PromiseInv, NEW b \in Batch, UnpublishedStep(b)
  PROVE  PromiseInv'
<1>1. \A c \in Batch \ {b} : batch'[c] = batch[c] /\ history'[c] = history[c]
  BY DEF UnpublishedStep, OnlyTouches
<1>2. draft' = draft /\ signedFor' = signedFor /\ ~Submitted(b)'
  BY DEF UnpublishedStep, subvars, Submitted
<1>3. draft[b].signed = NoPath
  BY DEF DocsInv, Unpublished, UnpublishedStep, NewDraft
<1>4. SignedLetterIsCurrent'
  BY <1>1, <1>2, <1>3 DEF PromiseInv, SignedLetterIsCurrent
<1>5. SubmittedArtifacts'
  BY <1>1, <1>2 DEF PromiseInv, SubmittedArtifacts, Submitted
<1>6. history[b] = <<>>
  BY DEF PromiseInv, SubmitAuditTrail, UnpublishedStep
<1>7. history'[b] = IF ~Ready(b)' THEN <<>> ELSE <<"CREATED">>
  BY <1>6, FirstRow DEF UnpublishedStep
<1>8. ASSUME NEW c \in Batch
      PROVE  history'[c] = IF ~Ready(c)' THEN <<>>
                           ELSE IF Submitted(c)' THEN <<"CREATED", "SUBMITTED">>
                           ELSE IF batch'[c].abandoned THEN <<"CREATED", "ABANDONED">>
                           ELSE <<"CREATED">>
  <2>1. CASE c = b  BY <1>2, <1>7, <2>1 DEF UnpublishedStep
  <2>2. CASE c # b  BY <1>1, <2>2 DEF PromiseInv, SubmitAuditTrail, Ready, Submitted
  <2>3. QED  BY <2>1, <2>2
<1>9. SubmitAuditTrail'  BY <1>8 DEF SubmitAuditTrail
<1>10. QED  BY <1>4, <1>5, <1>9 DEF PromiseInv

\* What is published is claimed and locked, and no edit works on what is not published.
LEMMA UnpublishedKeepsLeases ==
  ASSUME LetterTyped, DocsInv, LeaseInv, NEW b \in Batch, UnpublishedStep(b)
  PROVE  LeaseInv'
<1>1. \A c \in Batch \ {b} : batch'[c] = batch[c] /\ LocksOf(c)' = LocksOf(c)
  BY DEF UnpublishedStep, OnlyTouches, LocksOf
<1>2. draft' = draft /\ edit' = edit /\ ~Submitted(b)'
  BY DEF UnpublishedStep, Submitted
<1>3. \A e \in Editor : edit[e].pc \in Working => edit[e].on \in Batch \ {b}
  BY DEF LetterTyped, EditShape, DocsInv, EditsOnReady, UnpublishedStep
<1>4. WorkerHoldsLease'  BY <1>2 DEF LeaseInv, ClaimInv, WorkerHoldsLease
<1>5. ClaimedStaysLocked'
  <2>1. Ready(b)' => batch'[b].content = LocksOf(b)'  BY DEF UnpublishedStep, Whole
  <2>2. QED
    BY <1>1, <2>1 DEF LeaseInv, ClaimInv, ClaimedStaysLocked, InProgressOrReview, Ready
<1>6. AddedIsUnclaimed'
  BY <1>1, <1>2, <1>3
  DEF LeaseInv, ClaimInv, AddedIsUnclaimed, InProgressOrReview, Ready, Added
<1>7. VerifiedIsLocked'
  BY <1>1, <1>2, <1>3, WorkingIs DEF LeaseInv, ClaimInv, VerifiedIsLocked, EditAt
<1>8. SubmittedIsClosed'
  BY <1>1, <1>2 DEF LeaseInv, SubmittedIsClosed, Submitted, LeaseFree
<1>9. QED  BY <1>4, <1>5, <1>6, <1>7, <1>8 DEF LeaseInv, ClaimInv

-----------------------------------------------------------------------------
(* What edits write                                                        *)

\* A step of an edit on the draft b: the audit rows, the status, the details and the merge stay,
\* and the content changes only in progress, with the signed letter cleared.
EditedDraft(b) ==
  /\ PublishedStep(b)
  /\ batch'[b].status = batch[b].status /\ batch'[b].abandoned = batch[b].abandoned
  /\ history'[b] = history[b]
  /\ draft'[b].details = draft[b].details /\ draft'[b].pdf = draft[b].pdf
  /\ \/ batch'[b].content = batch[b].content /\ draft'[b].signed = draft[b].signed
     \/ batch[b].status = "IN_PROGRESS" /\ draft'[b].signed = NoPath

\* The requests that work on a draft, or will: where they go on, they do so on the draft and with
\* the ULBs they were opened for.
LEMMA EditGoesOn ==
  ASSUME LetterTyped, NEW e \in Editor, EditStep(e)
  PROVE  /\ \A d \in Editor \ {e} : edit'[d] = edit[d]
         /\ edit'[e].pc \in Working \cup {"claim"} =>
              \/ /\ edit[e].pc \in Working \cup {"claim"}
                 /\ edit'[e].on = edit[e].on /\ edit'[e].sel = edit[e].sel
              \/ /\ edit[e].pc = "idle" /\ edit'[e].pc = "claim" /\ UNCHANGED dstore
                 /\ Ready(edit'[e].on) /\ edit'[e].sel # {}
<1>0. EditTypeOK /\ edit \in [Editor -> EditState] /\ edit[e] \in EditState
  BY DEF LetterTyped, LetterTypeOK, EditTypeOK
<1>1. ASSUME OwnStep(e)
      PROVE  /\ \A d \in Editor \ {e} : edit'[d] = edit[d]
             /\ edit'[e].pc \in Working \cup {"claim"} =>
                  edit[e].pc \in Working /\ edit'[e].on = edit[e].on /\ edit'[e].sel = edit[e].sel
  <2>1. \A d \in Editor \ {e} : edit'[d] = edit[d]  BY <1>0, <1>1 DEF OwnStep
  <2>2. QED  BY <1>1, <2>1, WorkingIs DEF OwnStep
<1>2. ASSUME NEW b \in Batch, NEW S \in SUBSET Ulb, Open(e, b, S)
      PROVE  /\ \A d \in Editor \ {e} : edit'[d] = edit[d]
             /\ edit[e].pc = "idle" /\ edit'[e].pc = "claim" /\ UNCHANGED dstore
             /\ Ready(edit'[e].on) /\ edit'[e].sel # {}
  <2> DEFINE q == [IdleEdit EXCEPT !.pc = "claim", !.on = b, !.sel = S,
                                   !.revision = draft[b].revision]
  <2>1. q.pc = "claim" /\ q.on = b /\ q.sel = S  BY DEF IdleEdit
  <2>2. edit' = [edit EXCEPT ![e] = q]  BY <1>2 DEF Open
  <2> HIDE DEF q
  <2>3. edit'[e] = q /\ \A d \in Editor \ {e} : edit'[d] = edit[d]  BY <1>0, <2>2
  <2>4. QED  BY <1>2, <2>1, <2>3 DEF Open, EditAt
<1>3. ASSUME Claim(e)
      PROVE  /\ \A d \in Editor \ {e} : edit'[d] = edit[d]
             /\ edit'[e].pc \in Working \cup {"claim"} =>
                  edit[e].pc = "claim" /\ edit'[e].on = edit[e].on /\ edit'[e].sel = edit[e].sel
  <2>1. CASE EditGoto(e, "read")
    BY <1>0, <1>3, <2>1 DEF EditGoto, Claim, EditAt, EditState
  <2>2. CASE EditEnd(e, "failed")
    <3>1. edit'[e].pc = "failed" /\ \A d \in Editor \ {e} : edit'[d] = edit[d]
      BY SMTT(30), <1>0, <2>2 DEF EditEnd, IdleEdit
    <3>2. QED  BY <3>1, WorkingIs
  <2>3. QED  BY <1>3, <2>1, <2>2 DEF Claim
<1>4. ASSUME Commit(e) \/ ReleaseEditLock(e)
      PROVE  /\ \A d \in Editor \ {e} : edit'[d] = edit[d]
             /\ edit'[e].pc \in Working \cup {"claim"} =>
                  edit[e].pc \in Working /\ edit'[e].on = edit[e].on /\ edit'[e].sel = edit[e].sel
  <2>1. edit[e].pc \in Working  BY <1>4, WorkingIs DEF Commit, CommitEdit, ReleaseEditLock, EditAt
  <2>2. CASE EditGoto(e, "undo")
    <3>1. edit' = [edit EXCEPT ![e] = [edit[e] EXCEPT !.pc = "undo"]]  BY <2>2 DEF EditGoto
    <3>2. QED  BY <1>0, <2>1, <3>1 DEF EditState
  <2>3. ASSUME NEW pc \in {"done", "failed"}, EditEnd(e, pc)
        PROVE  edit'[e].pc = pc /\ \A d \in Editor \ {e} : edit'[d] = edit[d]
    BY <1>0, <2>3 DEF EditEnd, IdleEdit
  <2>4. QED  BY SMTT(30), <1>4, <2>1, <2>2, <2>3, WorkingIs DEF Commit, ReleaseEditLock
<1>5. CASE LockFreeStep(e)  BY <1>1, <1>5 DEF LockFreeStep
<1>6. CASE \/ AddLocks(e) \/ LocksMisreported(e) \/ ReleaseAddedLocks(e)
           \/ \E C \in SUBSET Ulb : UnlockMisreported(e, C)
  BY <1>0, <1>1, <1>6, LockStepsAreOwn
<1>7. CASE CommitMisreported(e)
  <2>1. edit[e].pc \in Misreported /\ Catch(e)  BY <1>7 DEF CommitMisreported
  <2>2. QED  BY <1>0, <2>1, MisreportGoes
<1>8. QED
  BY <1>0, <1>2, <1>3, <1>4, <1>5, <1>6, <1>7, LockFreeSteps
  DEF EditStep, EditWork, WriteMisreported

\* The steps that leave batch documents, drafts and locks alone write rows of their own draft only.
LEMMA RowSteps ==
  ASSUME LetterTyped, NEW e \in Editor,
         \/ ReadChildren(e) \/ Refuse(e) \/ DeleteChildren(e) \/ Totals(e) \/ Verify(e)
         \/ \E C \in SUBSET Ulb : PersistRows(e, C) \/ RestoreRows(e, C)
         \/ Undo(e) \/ EditStepFails(e) \/ EditCrash(e)
         \/ \E C \in SUBSET Ulb : RowsMisreported(e, C)
  PROVE  history' = history /\ \A c \in Batch \ {edit[e].on} : child'[c] = child[c]
<1>1. child \in [Batch -> SUBSET Ulb]
  BY DEF LetterTyped, LetterTypeOK, CreateTypeOK, StoreTypeOK
<1>2. CASE ReadChildren(e) \/ Refuse(e) \/ Totals(e) \/ Verify(e) \/ EditStepFails(e) \/ EditCrash(e)
  BY <1>2 DEF ReadChildren, Refuse, Totals, Verify, EditStepFails, EditCrash, dstore, store
<1>3. CASE DeleteChildren(e) \/ Undo(e)
  BY <1>1, <1>3 DEF DeleteChildren, Undo
<1>4. ASSUME NEW C \in SUBSET Ulb, PersistRows(e, C) \/ RestoreRows(e, C)
      PROVE  history' = history /\ \A c \in Batch \ {edit[e].on} : child'[c] = child[c]
  BY <1>1, <1>4 DEF PersistRows, RestoreRows, InsertRows
<1>5. CASE \E C \in SUBSET Ulb : RowsMisreported(e, C)
  BY <1>1, <1>5 DEF RowsMisreported
<1>6. QED  BY <1>2, <1>3, <1>4, <1>5

\* An edit writes the documents of its own draft, which is published, and writes the draft of a
\* batch under review only if it works on it.
LEMMA EditWrites ==
  ASSUME LetterTyped, DocsInv, NEW e \in Editor, NEW b, b = edit[e].on, EditStep(e),
         UNCHANGED <<createOnly, subvars>>
  PROVE  \/ UNCHANGED dstore
         \/ b \in Batch /\ EditedDraft(b) /\ (edit[e].pc \in Working \/ ~Submitted(b))
<1>0. /\ EditTypeOK /\ edit[e] \in EditState
      /\ batch \in [Batch -> BatchDoc] /\ lock \in [Ulb -> Batch \cup {NoBatch}]
      /\ draft \in [Batch -> DraftDoc]
  BY DEF LetterTyped, LetterTypeOK, EditTypeOK, DraftTypeOK, StoreTypeOK
<1>1. edit[e].pc \in Working \cup {"claim"} => b \in Batch /\ Ready(b)
  BY DEF LetterTyped, EditShape, DocsInv, EditsOnReady
<1>k. UNCHANGED createOnly  OBVIOUS
<1>2. ASSUME b \in Batch, Ready(b), UNCHANGED <<batch, draft, history>>,
             \A c \in Batch \ {b} : child'[c] = child[c],
             \A c \in Batch \ {b} : \A u \in Ulb : lock'[u] = c <=> lock[u] = c
      PROVE  EditedDraft(b)
  <2>1. OnlyTouches(b)  BY <1>2 DEF OnlyTouches
  <2>2. QED  BY <1>2, <1>k, <2>1 DEF EditedDraft, PublishedStep, Ready
<1>3. ASSUME LockFreeStep(e), history' = history, \A c \in Batch \ {b} : child'[c] = child[c]
      PROVE  EditedDraft(b) /\ b \in Batch /\ edit[e].pc \in Working
  <2>1. UNCHANGED <<batch, draft, lock>> /\ edit[e].pc \in Working
    BY <1>3 DEF LockFreeStep, OwnStep
  <2>2. b \in Batch /\ Ready(b)  BY <1>1, <2>1
  <2>3. EditedDraft(b)
    <3>1. \A c \in Batch \ {b} : child'[c] = child[c]  BY <1>3
    <3>2. \A c \in Batch \ {b} : \A u \in Ulb : lock'[u] = c <=> lock[u] = c  BY <2>1
    <3>3. UNCHANGED <<batch, draft, history>>  BY <1>3, <2>1
    <3>4. QED  BY <1>2, <2>2, <3>1, <3>2, <3>3
  <2>4. QED  BY <2>1, <2>2, <2>3
<1>4. ASSUME \/ LockAdded(e) \/ ReleaseAddedLocks(e)
             \/ \E C \in SUBSET Ulb : UnlockMisreported(e, C)
      PROVE  EditedDraft(b) /\ b \in Batch /\ edit[e].pc \in Working
  <2>1. edit[e].pc \in Working /\ UNCHANGED <<batch, draft, history, child>>
    BY <1>4, WorkingIs DEF LockAdded, ReleaseAddedLocks, UnlockMisreported, EditAt
  <2>2. \A c \in Batch \ {b} : \A u \in Ulb : lock'[u] = c <=> lock[u] = c
    <3>1. CASE LockAdded(e)  BY <3>1, StoreAssumption DEF LockAdded
    <3>2. CASE ReleaseAddedLocks(e)  BY <3>2, StoreAssumption DEF ReleaseAddedLocks
    <3>3. CASE \E C \in SUBSET Ulb : UnlockMisreported(e, C)
      BY <3>3, StoreAssumption DEF UnlockMisreported
    <3>4. QED  BY <1>4, <3>1, <3>2, <3>3
  <2>3. b \in Batch /\ Ready(b)  BY <1>1, <2>1
  <2>4. EditedDraft(b)
    <3>1. QED  BY <1>2, <2>1, <2>2, <2>3
  <2>5. QED  BY <2>1, <2>3, <2>4
<1>5. ASSUME CommitEdit(e)
      PROVE  EditedDraft(b) /\ b \in Batch /\ edit[e].pc \in Working
  <2>1. edit[e].pc \in Working /\ b \in Batch /\ Ready(b)
    BY SMTT(30), <1>1, <1>5, WorkingIs DEF CommitEdit, EditAt
  <2>2. /\ batch[b].status = "IN_PROGRESS"
        /\ batch' = [batch EXCEPT ![b] = [batch[b] EXCEPT !.content = edit[e].sel]]
        /\ draft' = [draft EXCEPT ![b] = [draft[b] EXCEPT !.revision = @ + 1, !.token = NoEditor,
                                                       !.expired = FALSE, !.signed = NoPath]]
        /\ lock' = [u \in Ulb |-> IF u \in Removed(e) /\ lock[u] = b THEN NoBatch ELSE lock[u]]
        /\ UNCHANGED <<child, history>>
    BY <1>0, <1>5, <2>1 DEF CommitEdit, CommitFits
  <2>3. batch'[b] = [batch[b] EXCEPT !.content = edit[e].sel] /\ batch[b] \in BatchDoc
    BY <1>0, <2>1, <2>2
  <2>4. /\ batch'[b].status = batch[b].status /\ batch'[b].abandoned = batch[b].abandoned
        /\ batch'[b].assembly = batch[b].assembly /\ batch'[b].key = batch[b].key
    BY <2>3 DEF BatchDoc
  <2>5. draft'[b] = [draft[b] EXCEPT !.revision = @ + 1, !.token = NoEditor,
                                     !.expired = FALSE, !.signed = NoPath]
        /\ draft[b] \in DraftDoc
    BY <1>0, <2>1, <2>2
  <2>6. /\ draft'[b].details = draft[b].details /\ draft'[b].pdf = draft[b].pdf
        /\ draft'[b].signed = NoPath
    BY <2>5 DEF DraftDoc
  <2>7. \A c \in Batch \ {b} : batch'[c] = batch[c] /\ draft'[c] = draft[c]
    BY <1>0, <2>2
  <2>8. \A c \in Batch \ {b} : \A u \in Ulb : lock'[u] = c <=> lock[u] = c
    BY <2>2, StoreAssumption
  <2>9. OnlyTouches(b)  BY <2>2, <2>7, <2>8 DEF OnlyTouches
  <2>10. QED  BY <1>k, <2>1, <2>2, <2>4, <2>6, <2>9 DEF EditedDraft, PublishedStep, Ready
<1>6. ASSUME NEW D \in [Batch -> DraftDoc], draft' = D, UNCHANGED store, b \in Batch, Ready(b),
             \A c \in Batch \ {b} : D[c] = draft[c],
             D[b].signed = draft[b].signed, D[b].details = draft[b].details,
             D[b].pdf = draft[b].pdf
      PROVE  EditedDraft(b)
  <2>1. OnlyTouches(b)  BY <1>6 DEF OnlyTouches, store
  <2>2. QED  BY <1>6, <1>k, <2>1 DEF EditedDraft, PublishedStep, Ready, store
<1>7. ASSUME Claim(e), ~UNCHANGED dstore
      PROVE  EditedDraft(b) /\ b \in Batch /\ ~Submitted(b)
  <2>1. b \in Batch /\ Ready(b) /\ UNCHANGED store
    BY <1>1, <1>7 DEF Claim, EditAt
  <2>2. /\ draft' = [draft EXCEPT ![b] = [draft[b] EXCEPT !.token = e, !.expired = FALSE]]
        /\ ~Submitted(b)
    <3>1. Editable(b, edit[e].revision)
      BY <1>7, <2>1 DEF Claim, dstore
    <3>2. draft' = [draft EXCEPT ![b].token = e, ![b].expired = FALSE]
      BY <1>7, <3>1 DEF Claim
    <3>3. ~Submitted(b)  BY <3>1 DEF Editable, Submitted
    <3>4. QED  BY <1>0, <2>1, <3>2, <3>3
  <2>0. draft[b] \in DraftDoc  BY <1>0, <2>1
  <2>3. draft[b] \in DraftDoc /\ [draft[b] EXCEPT !.token = e, !.expired = FALSE] \in DraftDoc
    BY <2>0 DEF DraftDoc
  <2>4. draft' \in [Batch -> DraftDoc] /\ \A c \in Batch \ {b} : draft'[c] = draft[c]
    BY <1>0, <2>2, <2>3
  <2>5. draft'[b] = [draft[b] EXCEPT !.token = e, !.expired = FALSE]  BY <1>0, <2>1, <2>2
  <2>6. /\ draft'[b].signed = draft[b].signed /\ draft'[b].details = draft[b].details
        /\ draft'[b].pdf = draft[b].pdf
    BY <2>3, <2>5 DEF DraftDoc
  <2>7. QED  BY <1>6, <2>1, <2>2, <2>4, <2>6
<1>8. ASSUME ReleaseEditLock(e), ~UNCHANGED dstore
      PROVE  EditedDraft(b) /\ b \in Batch /\ edit[e].pc \in Working
  <2>1. b \in Batch /\ Ready(b) /\ UNCHANGED store /\ edit[e].pc \in Working
    BY <1>1, <1>8, WorkingIs DEF ReleaseEditLock, EditAt
  <2>2. draft' = [draft EXCEPT ![b] = [draft[b] EXCEPT !.token = NoEditor, !.expired = FALSE]]
    <3>1. draft[b].token = e  BY <1>8, <2>1 DEF ReleaseEditLock, dstore
    <3>2. draft' = [draft EXCEPT ![b].token = NoEditor, ![b].expired = FALSE]
      BY <1>8, <3>1 DEF ReleaseEditLock
    <3>3. QED  BY <1>0, <2>1, <3>2
  <2>0. draft[b] \in DraftDoc  BY <1>0, <2>1
  <2>3. draft[b] \in DraftDoc /\ [draft[b] EXCEPT !.token = NoEditor, !.expired = FALSE] \in DraftDoc
    BY <2>0 DEF DraftDoc
  <2>4. draft' \in [Batch -> DraftDoc] /\ \A c \in Batch \ {b} : draft'[c] = draft[c]
    BY <1>0, <2>2, <2>3
  <2>5. draft'[b] = [draft[b] EXCEPT !.token = NoEditor, !.expired = FALSE]  BY <1>0, <2>1, <2>2
  <2>6. /\ draft'[b].signed = draft[b].signed /\ draft'[b].details = draft[b].details
        /\ draft'[b].pdf = draft[b].pdf
    BY <2>3, <2>5 DEF DraftDoc
  <2>7. QED  BY <1>6, <2>1, <2>4, <2>6
<1>9. CASE \/ ReadChildren(e) \/ Refuse(e) \/ DeleteChildren(e) \/ Totals(e) \/ Verify(e)
           \/ \E C \in SUBSET Ulb : PersistRows(e, C) \/ RestoreRows(e, C)
           \/ Undo(e) \/ EditStepFails(e) \/ EditCrash(e)
           \/ \E C \in SUBSET Ulb : RowsMisreported(e, C)
  BY <1>0, <1>3, <1>9, LockFreeSteps, RowSteps
<1>10. CASE \E c \in Batch, S \in SUBSET Ulb : Open(e, c, S)  BY <1>10 DEF Open
<1>11. CASE \/ AddLocks(e) \/ LocksMisreported(e) \/ ReleaseAddedLocks(e)
            \/ \E C \in SUBSET Ulb : UnlockMisreported(e, C)
  BY <1>4, <1>11 DEF AddLocks, LocksMisreported
<1>12. CASE Commit(e) \/ CommitMisreported(e)
  BY <1>5, <1>12 DEF Commit, CommitMisreported
<1>13. QED
  BY <1>7, <1>8, <1>9, <1>10, <1>11, <1>12 DEF EditStep, EditWork, WriteMisreported

\* The end of a lease is written in a published draft, which is held, so not under review.
LEMMA ExpiryWrites ==
  ASSUME LetterTyped, DocsInv, NEW b \in Batch, LeaseExpires(b), UNCHANGED <<createOnly, subvars>>
  PROVE  EditedDraft(b) /\ ~LeaseFree(b) /\ edit' = edit
<1>0. draft \in [Batch -> DraftDoc] /\ draft[b] \in DraftDoc
  BY DEF LetterTyped, LetterTypeOK, EditTypeOK, DraftTypeOK
<1>1. /\ draft[b].token # NoEditor /\ ~draft[b].expired /\ UNCHANGED <<store, edit>>
      /\ draft' = [draft EXCEPT ![b] = [draft[b] EXCEPT !.expired = TRUE]]
  BY <1>0 DEF LeaseExpires
<1>2. Ready(b)
  BY <1>1 DEF DocsInv, Unpublished, NewDraft
<1>3. draft'[b] = [draft[b] EXCEPT !.expired = TRUE] /\ \A c \in Batch \ {b} : draft'[c] = draft[c]
  BY <1>0, <1>1
<1>4. /\ draft'[b].signed = draft[b].signed /\ draft'[b].details = draft[b].details
      /\ draft'[b].pdf = draft[b].pdf
  BY <1>0, <1>3 DEF DraftDoc
<1>5. UNCHANGED <<batch, lock, child, history>>  BY <1>1 DEF store
<1>6. OnlyTouches(b)  BY <1>3, <1>5 DEF OnlyTouches
<1>7. UNCHANGED createOnly  OBVIOUS
<1>8. EditedDraft(b)  BY <1>2, <1>4, <1>5, <1>6, <1>7 DEF EditedDraft, PublishedStep, Ready
<1>9. ~LeaseFree(b)  BY <1>1 DEF LeaseFree
<1>10. QED  BY <1>1, <1>8, <1>9

\* Where no document changes and no create does anything, what the documents promise is kept.
LEMMA StillKeepsDocs ==
  ASSUME LetterTyped, UNCHANGED <<dstore, createOnly>>
  PROVE  /\ LocksName => LocksName'
         /\ Unpublished => Unpublished'
         /\ Creates => Creates'
         /\ \A b \in Batch : Ready(b) => Ready(b)'
<1>1. UNCHANGED <<batch, lock, child, history, draft, req>>  BY DEF dstore, store, createOnly
<1>2. QED
  BY <1>1 DEF LocksName, Unpublished, Creates, Consistent, Exists, Ready, Building

\* Edits work on published batches, and go on doing so.
LEMMA EditKeepsDocs ==
  ASSUME LetterTyped, LetterTyped', DocsInv, Creates, UNCHANGED <<createOnly, subvars>>,
         (\E e \in Editor : EditStep(e)) \/ \E b \in Batch : LeaseExpires(b)
  PROVE  DocsInv' /\ Creates'
<1>1. /\ LocksName' /\ Unpublished' /\ Creates'
      /\ \A b \in Batch : Ready(b) => Ready(b)'
  <2>1. CASE UNCHANGED dstore
    <3>1. UNCHANGED <<dstore, createOnly>>  BY <2>1
    <3>2. QED  BY <3>1, StillKeepsDocs DEF DocsInv
  <2>2. CASE \E b \in Batch : PublishedStep(b)  BY <2>2, PublishedKeepsDocs DEF DocsInv
  <2>3. ASSUME NEW e \in Editor, EditStep(e)
        PROVE  UNCHANGED dstore \/ \E b \in Batch : PublishedStep(b)
    <3>1. PICK b : b = edit[e].on  OBVIOUS
    <3>2. QED  BY <2>3, <3>1, EditWrites DEF EditedDraft
  <2>4. ASSUME NEW b \in Batch, LeaseExpires(b)  PROVE PublishedStep(b)
    BY <2>4, ExpiryWrites DEF EditedDraft
  <2>5. QED  BY <2>1, <2>2, <2>3, <2>4
<1>2. EditsOnReady'
  <2>1. ASSUME NEW e \in Editor, EditStep(e)  PROVE EditsOnReady'
    <3> SUFFICES ASSUME NEW d \in Editor, edit'[d].pc \in Working \cup {"claim"}
                 PROVE  Ready(edit[d].on)' /\ edit'[d].sel # {}
      BY DEF EditsOnReady
    <3>1. PICK b : b = edit'[d].on  OBVIOUS
    <3>2. b \in Batch  BY <3>1 DEF LetterTyped, EditShape
    <3>3. Ready(b) /\ edit'[d].sel # {}
      <4>1. CASE d = e
        <5>1. \/ /\ edit[e].pc \in Working \cup {"claim"}
                 /\ edit'[e].on = edit[e].on /\ edit'[e].sel = edit[e].sel
              \/ Ready(edit'[e].on) /\ edit'[e].sel # {}
          BY <2>1, <4>1, EditGoesOn
        <5>2. QED  BY <3>1, <4>1, <5>1 DEF DocsInv, EditsOnReady
      <4>2. CASE d # e
        <5>1. edit'[d] = edit[d]  BY <2>1, <4>2, EditGoesOn
        <5>2. QED  BY <3>1, <5>1 DEF DocsInv, EditsOnReady
      <4>3. QED  BY <4>1, <4>2
    <3>4. Ready(b)'  BY <1>1, <3>2, <3>3
    <3>5. QED  BY <3>1, <3>3, <3>4 DEF Ready
  <2>2. ASSUME NEW b \in Batch, LeaseExpires(b)  PROVE EditsOnReady'
    <3>1. edit' = edit  BY <2>2 DEF LeaseExpires
    <3>2. QED  BY <1>1, <3>1 DEF DocsInv, EditsOnReady, LetterTyped, EditShape, Ready
  <2>3. QED  BY <2>1, <2>2
<1>3. SubmitsOnReady'
  <2>1. sub' = sub /\ merges' = merges  BY DEF subvars
  <2>2. \A m \in merges : m.on \in Batch  BY DEF LetterTyped, LetterTypeOK, SubmitTypeOK
  <2>3. QED  BY <1>1, <2>1, <2>2 DEF DocsInv, SubmitsOnReady, LetterTyped, SubmitShape
<1>4. QED  BY <1>1, <1>2, <1>3 DEF DocsInv

-----------------------------------------------------------------------------
(* What the submit promises, beside everything else                        *)

Promise(b) ==
  /\ history[b] = IF ~Ready(b) THEN <<>>
                  ELSE IF Submitted(b) THEN <<"CREATED", "SUBMITTED">>
                  ELSE IF batch[b].abandoned THEN <<"CREATED", "ABANDONED">>
                  ELSE <<"CREATED">>
  /\ draft[b].signed # NoPath =>
       signedFor[b] = [content |-> batch[b].content, details |-> draft[b].details]
  /\ Submitted(b) =>
       ~batch[b].abandoned /\ draft[b].signed # NoPath /\ draft[b].pdf = draft[b].signed

\* What is promised is promised of every batch.
LEMMA PromiseOfEach == PromiseInv <=> \A b \in Batch : Promise(b)
BY DEF PromiseInv, SubmitAuditTrail, SignedLetterIsCurrent, SubmittedArtifacts, Promise

\* A step that writes one batch has to keep the promise of that one.
LEMMA PromiseFrame ==
  ASSUME PromiseInv, NEW b \in Batch, OnlyTouches(b), Promise(b)',
         \A c \in Batch \ {b} : signedFor'[c] = signedFor[c]
  PROVE  PromiseInv'
<1>1. ASSUME NEW c \in Batch  PROVE Promise(c)'
  <2>1. CASE c = b  BY <2>1
  <2>2. CASE c # b
    <3>1. Promise(c)  BY PromiseOfEach
    <3>2. /\ batch'[c] = batch[c] /\ draft'[c] = draft[c] /\ history'[c] = history[c]
          /\ signedFor'[c] = signedFor[c]
      BY <2>2 DEF OnlyTouches
    <3>3. QED  BY <3>1, <3>2 DEF Promise, Ready, Submitted
  <2>3. QED  BY <2>1, <2>2
<1>2. QED
  BY <1>1 DEF PromiseInv, SubmitAuditTrail, SignedLetterIsCurrent, SubmittedArtifacts, Promise

\* Where no document changes, and no upload is remembered, nothing is promised anew.
LEMMA StillKeepsPromise ==
  ASSUME PromiseInv, UNCHANGED <<dstore, signedFor>>
  PROVE  PromiseInv'
<1>1. UNCHANGED <<batch, draft, history, signedFor>>  BY DEF dstore, store
<1>2. QED
  BY <1>1 DEF PromiseInv, SubmitAuditTrail, SignedLetterIsCurrent, SubmittedArtifacts, Ready, Submitted

\* An edit takes the letter away with the ULBs it was signed for, and leaves what is under review.
LEMMA EditedKeepsPromise ==
  ASSUME PromiseInv, NEW b \in Batch, EditedDraft(b), UNCHANGED signedFor
  PROVE  PromiseInv'
<1>1. Promise(b)  BY PromiseOfEach
<1>2. /\ Ready(b) /\ Ready(b)' /\ history'[b] = history[b] /\ OnlyTouches(b)
      /\ batch'[b].status = batch[b].status /\ batch'[b].abandoned = batch[b].abandoned
      /\ draft'[b].details = draft[b].details /\ draft'[b].pdf = draft[b].pdf
      /\ \/ batch'[b].content = batch[b].content /\ draft'[b].signed = draft[b].signed
         \/ batch[b].status = "IN_PROGRESS" /\ draft'[b].signed = NoPath
  BY DEF EditedDraft, PublishedStep
<1>3. Promise(b)'  BY <1>1, <1>2 DEF Promise, Submitted
<1>4. QED  BY <1>2, <1>3, PromiseFrame

\* A step of a submit, a save, an upload or a merge that writes, and an abandon: its batch is not
\* under review, and neither its rows nor the ULBs its content names change.
SubmittedDraft(b) ==
  /\ PublishedStep(b)
  /\ ~Submitted(b)
  /\ child' = child
  /\ batch'[b].content = batch[b].content
  /\ draft'[b].token = draft[b].token /\ draft'[b].expired = draft[b].expired

\* It takes no lock and abandons nothing, and submits only what no edit holds.
LockedDraft(b) ==
  /\ SubmittedDraft(b)
  /\ lock' = lock
  /\ batch'[b].abandoned = batch[b].abandoned
  /\ Submitted(b)' => ~batch[b].abandoned /\ LeaseFree(b)

\* A write of the draft alone.
LEMMA DraftWrites ==
  ASSUME LetterTyped, NEW b \in Batch, Ready(b), ~Submitted(b), UNCHANGED <<store, createOnly>>,
         NEW doc \in DraftDoc, draft' = [draft EXCEPT ![b] = doc],
         doc.token = draft[b].token, doc.expired = draft[b].expired
  PROVE  LockedDraft(b) /\ draft'[b] = doc
<1>1. draft \in [Batch -> DraftDoc]  BY DEF LetterTyped, LetterTypeOK, EditTypeOK, DraftTypeOK
<1>2. draft'[b] = doc /\ \A c \in Batch \ {b} : draft'[c] = draft[c]  BY <1>1
<1>3. UNCHANGED <<batch, lock, child, history>>  BY DEF store
<1>4. OnlyTouches(b)  BY <1>2, <1>3 DEF OnlyTouches
<1>5. PublishedStep(b)  BY <1>3, <1>4 DEF PublishedStep, Ready
<1>6. SubmittedDraft(b)  BY <1>2, <1>3, <1>5 DEF SubmittedDraft
<1>7. ~Submitted(b)'  BY <1>3 DEF Submitted
<1>8. QED  BY <1>2, <1>3, <1>6, <1>7 DEF LockedDraft

\* An upload signs for what the draft is at that moment.
LEMMA UploadWrites ==
  ASSUME LetterTyped, PromiseInv, NEW b \in Batch, NEW p \in Path, Upload(b, p),
         UNCHANGED <<createOnly, edit>>
  PROVE  LockedDraft(b) /\ PromiseInv'
<1>0. draft \in [Batch -> DraftDoc] /\ draft[b] \in DraftDoc
      /\ signedFor \in [Batch -> [content : SUBSET Ulb, details : Nat]]
  BY DEF LetterTyped, LetterTypeOK, SubmitTypeOK, DraftTypeOK
<1> DEFINE doc == [draft[b] EXCEPT !.signed = p]
<1>1. /\ doc \in DraftDoc /\ doc.token = draft[b].token /\ doc.expired = draft[b].expired
      /\ doc.details = draft[b].details
  BY <1>0 DEF DraftDoc
<1>2. draft' = [draft EXCEPT ![b] = doc]  BY <1>0 DEF Upload
<1> HIDE DEF doc
<1>3. Ready(b) /\ ~Submitted(b) /\ UNCHANGED <<store, createOnly>>
  BY DEF Upload, CanEdit, Submitted
<1>4. LockedDraft(b) /\ draft'[b] = doc  BY <1>1, <1>2, <1>3, DraftWrites
<1>5. /\ signedFor'[b] = [content |-> batch[b].content, details |-> draft[b].details]
      /\ \A c \in Batch \ {b} : signedFor'[c] = signedFor[c]
  BY <1>0 DEF Upload
<1>6. UNCHANGED <<batch, history>>  BY <1>3 DEF store
<1>7. Promise(b)  BY PromiseOfEach
<1>8. Promise(b)'
  <2>1. history'[b] = history[b] /\ batch'[b] = batch[b]  BY <1>6
  <2>2. signedFor'[b] = [content |-> batch'[b].content, details |-> draft'[b].details]
    BY <1>1, <1>4, <1>5, <2>1
  <2>3. QED  BY <1>3, <1>7, <2>1, <2>2 DEF Promise, Ready, Submitted
<1>9. QED  BY <1>4, <1>5, <1>8, PromiseFrame DEF LockedDraft, SubmittedDraft, PublishedStep

\* A save takes the letter away with the details it was signed for.
LEMMA SaveWrites ==
  ASSUME LetterTyped, PromiseInv, NEW w \in Saver, WriteDetails(w), UNCHANGED <<createOnly, edit>>
  PROVE  (UNCHANGED dstore \/ \E b \in Batch : LockedDraft(b)) /\ PromiseInv'
<1>0. draft \in [Batch -> DraftDoc] /\ save[w] \in SaveState
  BY DEF LetterTyped, LetterTypeOK, SubmitTypeOK, DraftTypeOK
<1>1. CASE ~Savable(w)
  <2>1. UNCHANGED <<store, draft, signedFor>>  BY <1>1 DEF WriteDetails
  <2>2. QED  BY <2>1, StillKeepsPromise DEF dstore
<1>2. CASE Savable(w)
  <2>1. PICK b \in Batch : b = save[w].on  BY <1>0 DEF WriteDetails, SaveState
  <2>2. Ready(b) /\ ~Submitted(b) /\ UNCHANGED <<store, createOnly>> /\ signedFor' = signedFor
    BY <1>2, <2>1 DEF WriteDetails, Savable, CanEdit, Submitted
  <2> DEFINE doc == [draft[b] EXCEPT !.details = @ + 1, !.signed = NoPath]
  <2>3. draft' = [draft EXCEPT ![b] = doc]  BY <1>0, <1>2, <2>1 DEF WriteDetails
  <2>4. draft[b] \in DraftDoc  BY <1>0
  <2>5. /\ doc \in DraftDoc /\ doc.token = draft[b].token /\ doc.expired = draft[b].expired
        /\ doc.signed = NoPath
    <3>1. draft[b].details + 1 \in Nat  BY <2>4 DEF DraftDoc
    <3>2. doc = [draft[b] EXCEPT !.details = draft[b].details + 1, !.signed = NoPath]
      BY <2>4 DEF DraftDoc
    <3>3. QED  BY <2>4, <3>1, <3>2 DEF DraftDoc
  <2> HIDE DEF doc
  <2>6. LockedDraft(b) /\ draft'[b] = doc  BY <2>2, <2>3, <2>5, DraftWrites
  <2>7. history'[b] = history[b] /\ batch'[b] = batch[b]  BY <2>2 DEF store
  <2>8. Promise(b)'
    <3>1. Promise(b)  BY PromiseOfEach
    <3>2. QED  BY <2>2, <2>5, <2>6, <2>7, <3>1 DEF Promise, Ready, Submitted
  <2>9. QED
    BY <2>2, <2>6, <2>8, PromiseFrame DEF LockedDraft, SubmittedDraft, PublishedStep
<1>3. QED  BY <1>1, <1>2

\* A merge is stored in a draft in progress only, and changes neither its letter nor its details.
LEMMA MergeWrites ==
  ASSUME LetterTyped, DocsInv, PromiseInv, NEW m \in merges, StoreMerge(m),
         UNCHANGED <<createOnly, edit>>
  PROVE  (UNCHANGED dstore \/ \E b \in Batch : LockedDraft(b)) /\ PromiseInv'
<1>0. draft \in [Batch -> DraftDoc] /\ m.on \in Batch /\ m.key \in Path
  BY DEF LetterTyped, LetterTypeOK, SubmitTypeOK, DraftTypeOK
<1>1. CASE batch[m.on].status # "IN_PROGRESS"
  <2>1. UNCHANGED <<store, draft, signedFor>>  BY <1>1 DEF StoreMerge
  <2>2. QED  BY <2>1, StillKeepsPromise DEF dstore
<1>2. CASE batch[m.on].status = "IN_PROGRESS"
  <2>1. PICK b \in Batch : b = m.on  BY <1>0
  <2>2. Ready(b) /\ ~Submitted(b) /\ UNCHANGED <<store, createOnly>> /\ signedFor' = signedFor
    BY <1>2, <2>1 DEF StoreMerge, Submitted, DocsInv, SubmitsOnReady
  <2> DEFINE doc == [draft[b] EXCEPT !.pdf = m.key]
  <2>3. draft' = [draft EXCEPT ![b] = doc]  BY <1>0, <1>2, <2>1 DEF StoreMerge
  <2>4. draft[b] \in DraftDoc  BY <1>0
  <2>5. /\ doc \in DraftDoc /\ doc.token = draft[b].token /\ doc.expired = draft[b].expired
        /\ doc.signed = draft[b].signed /\ doc.details = draft[b].details
    BY <1>0, <2>4 DEF DraftDoc
  <2> HIDE DEF doc
  <2>6. LockedDraft(b) /\ draft'[b] = doc  BY <2>2, <2>3, <2>5, DraftWrites
  <2>7. history'[b] = history[b] /\ batch'[b] = batch[b]  BY <2>2 DEF store
  <2>8. Promise(b)'
    <3>1. Promise(b)  BY PromiseOfEach
    <3>2. QED  BY <2>2, <2>5, <2>6, <2>7, <3>1 DEF Promise, Ready, Submitted
  <2>9. QED
    BY <2>2, <2>6, <2>8, PromiseFrame DEF LockedDraft, SubmittedDraft, PublishedStep
<1>3. QED  BY <1>1, <1>2

\* A submit that is not refused moves the draft it read, as it read it.
LEMMA CommitSubmitWrites ==
  ASSUME LetterTyped, DocsInv, PromiseInv, NEW s \in Submitter, CommitSubmit(s),
         UNCHANGED <<createOnly, edit>>
  PROVE  (UNCHANGED dstore \/ \E b \in Batch : LockedDraft(b)) /\ PromiseInv'
<1>0. batch \in [Batch -> BatchDoc] /\ history \in [Batch -> Seq(Transition)]
  BY DEF LetterTyped, LetterTypeOK, SubmitTypeOK, DraftTypeOK, StoreTypeOK
<1>1. PICK b : b = sub[s].on  OBVIOUS
<1>2. b \in Batch /\ Ready(b) /\ sub[s].signed # NoPath
  BY <1>1 DEF LetterTyped, SubmitShape, DocsInv, SubmitsOnReady, CommitSubmit, InFlight
<1>3. CASE ~Submittable(s, b)
  <2>1. UNCHANGED <<store, draft, signedFor>>  BY <1>1, <1>3 DEF CommitSubmit, store
  <2>2. QED  BY <2>1, StillKeepsPromise DEF dstore
<1>4. CASE Submittable(s, b)
  <2>1. /\ batch[b].status = "IN_PROGRESS" /\ ~batch[b].abandoned /\ LeaseFree(b)
        /\ draft[b].signed = sub[s].signed /\ draft[b].pdf = sub[s].signed
    BY <1>4 DEF Submittable
  <2> DEFINE doc == [batch[b] EXCEPT !.status = "UNDER_REVIEW_BY_MOHUA"]
  <2>2. /\ batch' = [batch EXCEPT ![b] = doc]
        /\ history' = [history EXCEPT ![b] = Append(history[b], "SUBMITTED")]
        /\ UNCHANGED <<lock, child, draft, signedFor>>
    BY <1>1, <1>4 DEF CommitSubmit, Record
  <2>3. batch[b] \in BatchDoc  BY <1>0, <1>2
  <2>4. /\ doc.assembly = batch[b].assembly /\ doc.abandoned = batch[b].abandoned
        /\ doc.content = batch[b].content /\ doc.key = batch[b].key
        /\ doc.status = "UNDER_REVIEW_BY_MOHUA"
    BY <2>3 DEF BatchDoc
  <2> HIDE DEF doc
  <2>5. /\ batch'[b] = doc /\ history'[b] = Append(history[b], "SUBMITTED")
        /\ \A c \in Batch \ {b} : batch'[c] = batch[c] /\ history'[c] = history[c]
    BY <1>0, <1>2, <2>2
  <2>6. OnlyTouches(b)  BY <2>2, <2>5 DEF OnlyTouches
  <2>7. ~Submitted(b) /\ Submitted(b)' /\ Ready(b)'
    BY <1>2, <2>1, <2>4, <2>5 DEF Submitted, Ready
  <2>8. PublishedStep(b)  BY <1>2, <2>4, <2>5, <2>6, <2>7 DEF PublishedStep
  <2>9. LockedDraft(b)  BY <2>1, <2>2, <2>4, <2>5, <2>7, <2>8 DEF LockedDraft, SubmittedDraft
  <2>10. Promise(b)  BY <1>2, PromiseOfEach
  <2>11. history[b] = <<"CREATED">>  BY <1>2, <2>1, <2>7, <2>10 DEF Promise
  <2>12. history'[b] = <<"CREATED", "SUBMITTED">>  BY <2>5, <2>11, SecondRow DEF Transition
  <2>13. Promise(b)'
    BY <1>2, <2>1, <2>2, <2>4, <2>5, <2>7, <2>10, <2>12 DEF Promise
  <2>14. QED  BY <1>2, <2>2, <2>6, <2>9, <2>13, PromiseFrame
<1>5. QED  BY <1>3, <1>4

\* What leads to a submit writes one published draft, which is not under review yet.
LEMMA SubmitWrites ==
  ASSUME LetterTyped, DocsInv, PromiseInv, SubmitStep, UNCHANGED <<createOnly, edit>>
  PROVE  (UNCHANGED dstore \/ \E b \in Batch : LockedDraft(b)) /\ PromiseInv'
<1>1. CASE \E s \in Submitter : CommitSubmit(s)  BY <1>1, CommitSubmitWrites
<1>2. CASE \E b \in Batch, p \in Path : Upload(b, p)  BY <1>2, UploadWrites
<1>3. CASE \E w \in Saver : WriteDetails(w)  BY <1>3, SaveWrites
<1>4. CASE \E m \in merges : StoreMerge(m)  BY <1>4, MergeWrites
<1>5. CASE \/ \E s \in Submitter :
                \/ \E b \in Batch : BeginSubmit(s, b)
                \/ CheckActive(s) \/ CheckEligible(s) \/ CheckFinal(s)
           \/ \E w \in Saver, b \in Batch : ReadDetails(w, b)
           \/ \E b \in Batch : StartMerge(b)
  <2>1. UNCHANGED <<dstore, signedFor>>
    BY <1>5 DEF BeginSubmit, CheckActive, CheckEligible, CheckFinal, ReadDetails, StartMerge
  <2>2. QED  BY SMTT(30), <2>1, StillKeepsPromise
<1>6. QED  BY <1>1, <1>2, <1>3, <1>4, <1>5 DEF SubmitStep

\* Submits and merges are of published batches.
LEMMA SubmitGoesOn ==
  ASSUME LetterTyped, LetterTyped', SubmitsOnReady, SubmitStep,
         \A b \in Batch : Ready(b) => Ready(b)'
  PROVE  SubmitsOnReady'
<1>0. sub \in [Submitter -> SubState] /\ \A m \in merges : m.on \in Batch
  BY DEF LetterTyped, LetterTypeOK, SubmitTypeOK
<1>1. \A s \in Submitter : sub'[s].pc \in InFlight =>
        \/ sub[s].pc \in InFlight /\ sub'[s].on = sub[s].on
        \/ Ready(sub'[s].on)
  <2>1. ASSUME NEW s \in Submitter, NEW b \in Batch, BeginSubmit(s, b)
        PROVE  /\ \A r \in Submitter \ {s} : sub'[r] = sub[r]
               /\ Ready(sub'[s].on)
    <3> DEFINE q == [IdleSub EXCEPT !.pc = "active", !.on = b, !.signed = draft[b].signed,
                                    !.details = draft[b].details]
    <3>1. q.on = b  BY DEF IdleSub
    <3>2. sub' = [sub EXCEPT ![s] = q]  BY <2>1 DEF BeginSubmit
    <3> HIDE DEF q
    <3>3. QED  BY <1>0, <2>1, <3>1, <3>2 DEF BeginSubmit, CanEdit
  <2>2. ASSUME NEW s \in Submitter, CheckActive(s) \/ CheckEligible(s) \/ CheckFinal(s)
        PROVE  /\ \A r \in Submitter \ {s} : sub'[r] = sub[r]
               /\ sub[s].pc \in InFlight /\ sub'[s].on = sub[s].on
    BY <1>0, <2>2 DEF CheckActive, CheckEligible, CheckFinal, SubGoto, InFlight, SubState
  <2>3. ASSUME NEW s \in Submitter, CommitSubmit(s)
        PROVE  /\ \A r \in Submitter \ {s} : sub'[r] = sub[r]
               /\ sub'[s].pc \notin InFlight
    <3>1. PICK pc \in {"done", "failed"} : SubEnd(s, pc)  BY <2>3 DEF CommitSubmit
    <3>2. [IdleSub EXCEPT !.pc = pc].pc = pc  BY DEF IdleSub
    <3>3. QED  BY <1>0, <3>1, <3>2 DEF SubEnd, InFlight
  <2>4. CASE UNCHANGED sub  BY SMTT(30), <2>4
  <2>5. QED
    BY <2>1, <2>2, <2>3, <2>4 DEF SubmitStep, WriteDetails, ReadDetails, StoreMerge, StartMerge, Upload
<1>2. \A m \in merges' : m \in merges \/ (m.on \in Batch /\ Ready(m.on))
  <2>1. CASE UNCHANGED merges  BY <2>1
  <2>2. CASE \E m \in merges : StoreMerge(m)  BY <2>2 DEF StoreMerge
  <2>3. CASE \E b \in Batch : StartMerge(b)  BY <2>3 DEF StartMerge, CanEdit
  <2>4. QED
    BY <2>1, <2>2, <2>3 DEF SubmitStep, BeginSubmit, CheckActive, CheckEligible, CheckFinal,
                            CommitSubmit, WriteDetails, ReadDetails, Upload
<1>3. ASSUME NEW s \in Submitter, sub'[s].pc \in InFlight  PROVE Ready(sub[s].on)'
  <2>1. PICK b : b = sub'[s].on  OBVIOUS
  <2>2. b \in Batch  BY <1>3, <2>1 DEF LetterTyped, SubmitShape
  <2>3. Ready(b)  BY <1>1, <1>3, <2>1 DEF SubmitsOnReady
  <2>4. Ready(b)'  BY <2>2, <2>3
  <2>5. QED  BY <2>1, <2>4 DEF Ready
<1>4. ASSUME NEW m \in merges'  PROVE Ready(m.on)'
  <2>1. PICK b : b = m.on  OBVIOUS
  <2>2. b \in Batch /\ Ready(b)  BY <1>0, <1>2, <2>1 DEF SubmitsOnReady
  <2>3. Ready(b)'  BY <2>2
  <2>4. QED  BY <2>1, <2>3 DEF Ready
<1>5. QED  BY <1>3, <1>4 DEF SubmitsOnReady

\* They leave the edits alone.
LEMMA SubmitKeepsDocs ==
  ASSUME LetterTyped, LetterTyped', DocsInv, Creates, PromiseInv, SubmitStep,
         UNCHANGED <<createOnly, edit>>
  PROVE  DocsInv' /\ Creates'
<1>1. /\ LocksName' /\ Unpublished' /\ Creates'
      /\ \A b \in Batch : Ready(b) => Ready(b)'
  <2>1. CASE UNCHANGED dstore
    <3>1. UNCHANGED <<dstore, createOnly>>  BY <2>1
    <3>2. QED  BY <3>1, StillKeepsDocs DEF DocsInv
  <2>2. CASE \E b \in Batch : PublishedStep(b)  BY <2>2, PublishedKeepsDocs DEF DocsInv
  <2>3. QED  BY <2>1, <2>2, SubmitWrites DEF LockedDraft, SubmittedDraft
<1>2. EditsOnReady'
  <2>1. edit' = edit  OBVIOUS
  <2>2. QED  BY <1>1, <2>1 DEF DocsInv, EditsOnReady, LetterTyped, EditShape, Ready
<1>3. SubmitsOnReady'  BY <1>1, SubmitGoesOn DEF DocsInv
<1>4. QED  BY <1>1, <1>2, <1>3 DEF DocsInv

\* An abandon takes a draft away that is not under review, with all its locks.
LEMMA AbandonWrites ==
  ASSUME LetterTyped, PromiseInv, NEW b \in Batch, AbandonAny(b)
  PROVE  /\ SubmittedDraft(b) /\ batch'[b].abandoned /\ ~Submitted(b)' /\ LeaseFree(b)
         /\ PromiseInv'
<1>0. batch \in [Batch -> BatchDoc] /\ history \in [Batch -> Seq(Transition)] /\ batch[b] \in BatchDoc
  BY DEF LetterTyped, LetterTypeOK, SubmitTypeOK, DraftTypeOK, StoreTypeOK
<1> DEFINE doc == [batch[b] EXCEPT !.abandoned = TRUE]
<1>1. /\ Ready(b) /\ batch[b].status = "IN_PROGRESS" /\ ~batch[b].abandoned /\ LeaseFree(b)
      /\ batch' = [batch EXCEPT ![b] = doc]
      /\ lock' = [u \in Ulb |-> IF lock[u] = b THEN NoBatch ELSE lock[u]]
      /\ history' = [history EXCEPT ![b] = Append(history[b], "ABANDONED")]
      /\ child' = child /\ UNCHANGED <<draft, createOnly>> /\ signedFor' = signedFor
  BY <1>0 DEF AbandonAny, AbandonUnleased, AbandonDraft, Record, subvars
<1>2. /\ doc.assembly = batch[b].assembly /\ doc.status = batch[b].status
      /\ doc.content = batch[b].content /\ doc.key = batch[b].key /\ doc.abandoned = TRUE
  BY <1>0 DEF BatchDoc
<1> HIDE DEF doc
<1>3. /\ batch'[b] = doc /\ history'[b] = Append(history[b], "ABANDONED")
      /\ \A c \in Batch \ {b} : batch'[c] = batch[c] /\ history'[c] = history[c]
  BY <1>0, <1>1
<1>4. OnlyTouches(b)  BY <1>1, <1>3, StoreAssumption DEF OnlyTouches
<1>5. ~Submitted(b) /\ ~Submitted(b)' /\ Ready(b)'  BY <1>1, <1>2, <1>3 DEF Submitted, Ready
<1>6. SubmittedDraft(b)
  BY <1>1, <1>2, <1>3, <1>4, <1>5 DEF SubmittedDraft, PublishedStep
<1>7. Promise(b)  BY PromiseOfEach
<1>8. history[b] = <<"CREATED">>  BY <1>1, <1>5, <1>7 DEF Promise
<1>9. history'[b] = <<"CREATED", "ABANDONED">>  BY <1>3, <1>8, SecondRow DEF Transition
<1>10. Promise(b)'
  BY <1>1, <1>2, <1>3, <1>5, <1>7, <1>9 DEF Promise
<1>11. PromiseInv'  BY <1>1, <1>4, <1>10, PromiseFrame
<1>12. QED  BY <1>1, <1>2, <1>3, <1>5, <1>6, <1>11

\* It leaves edits and submits where they are: their batches stay published.
LEMMA AbandonKeepsDocs ==
  ASSUME LetterTyped, LetterTyped', DocsInv, Creates, PromiseInv, NEW b \in Batch, AbandonAny(b)
  PROVE  DocsInv' /\ Creates'
<1>1. PublishedStep(b)  BY AbandonWrites DEF SubmittedDraft
<1>2. /\ LocksName' /\ Unpublished' /\ Creates'
      /\ \A c \in Batch : Ready(c) => Ready(c)'
  BY <1>1, PublishedKeepsDocs DEF DocsInv
<1>3. edit' = edit /\ sub' = sub /\ merges' = merges  BY DEF AbandonAny, subvars
<1>4. EditsOnReady'
  BY <1>2, <1>3 DEF DocsInv, EditsOnReady, LetterTyped, EditShape, Ready
<1>5. SubmitsOnReady'
  <2>1. \A m \in merges : m.on \in Batch  BY DEF LetterTyped, LetterTypeOK, SubmitTypeOK
  <2>2. QED  BY <1>2, <1>3, <2>1 DEF DocsInv, SubmitsOnReady, LetterTyped, SubmitShape
<1>6. QED  BY <1>2, <1>4, <1>5 DEF DocsInv

\* The invariant of the whole under any failures, also of edits that outlive their leases.
LetterInv == LetterTyped /\ DocsInv /\ Creates /\ PromiseInv

\* It holds of the empty database.
LEMMA LetterInvInit == LetterInit => LetterInv
<1> SUFFICES ASSUME LetterInit  PROVE LetterInv  OBVIOUS
<1>1. LetterTyped  BY LetterInitTyped
<1>2. /\ batch = [b \in Batch |-> NoDoc] /\ lock = [u \in Ulb |-> NoBatch]
      /\ history = [b \in Batch |-> <<>>]
      /\ draft = [b \in Batch |-> NewDraft]
  BY DEF LetterInit, CreateInit, StoreInit
<1>3. /\ NoDoc.assembly = "none" /\ NoDoc.abandoned = FALSE /\ NoDoc.status = "IN_PROGRESS"
      /\ NoDoc.content = {} /\ NewDraft.signed = NoPath
  BY DEF NoDoc, NewDraft
<1>4. LocksName /\ Unpublished  BY <1>2, <1>3 DEF LocksName, Unpublished
<1>5. EditsOnReady
  BY WorkingIs DEF LetterInit, EditProcInit, IdleEdit, EditsOnReady
<1>6. SubmitsOnReady
  BY DEF LetterInit, SubmitProcInit, IdleSub, SubmitsOnReady, InFlight
<1>7. PromiseInv
  <2>1. ASSUME NEW b \in Batch  PROVE Promise(b)
    BY <1>2, <1>3 DEF Promise, Ready, Submitted
  <2>2. QED  BY <2>1, PromiseOfEach
<1>8. Creates  BY InitInv DEF LetterInit, CreateInv, Creates
<1>9. QED  BY <1>1, <1>4, <1>5, <1>6, <1>7, <1>8 DEF LetterInv, DocsInv

\* Every step keeps it: the parts meet in the documents, and each writes one batch at a time, of
\* which it keeps what the other parts rely on.
LEMMA LetterInvStep == LetterInv /\ [LetterNext]_lvars => LetterInv'
<1> SUFFICES ASSUME LetterInv, [LetterNext]_lvars  PROVE LetterInv'  OBVIOUS
<1>0. /\ LetterTyped /\ LetterTyped' /\ DocsInv /\ Creates /\ PromiseInv
  BY LetterStepTyped DEF LetterInv
<1>1. CASE /\ (\E r \in Batch : RequestStep(r)) \/ CleanupStep
           /\ UNCHANGED <<draft, edit, subvars>>
  <2>1. Creates' /\ (UNCHANGED dstore \/ \E b \in Batch : UnpublishedStep(b))
    BY <1>0, <1>1, CreateWrites
  <2>2. ASSUME UNCHANGED dstore  PROVE DocsInv' /\ PromiseInv'
    <3>1. UNCHANGED <<batch, lock, child, history, draft, edit, sub, merges>> /\ signedFor' = signedFor
      BY <1>1, <2>2 DEF dstore, store, subvars
    <3>2. PromiseInv'  BY <1>0, <2>2, <3>1, StillKeepsPromise
    <3>3. DocsInv'
      BY <1>0, <3>1 DEF DocsInv, LocksName, Unpublished, EditsOnReady, SubmitsOnReady, Exists, Ready
    <3>4. QED  BY <3>2, <3>3
  <2>3. ASSUME NEW b \in Batch, UnpublishedStep(b)  PROVE DocsInv' /\ PromiseInv'
    BY <1>0, <2>3, UnpublishedKeepsDocs, UnpublishedKeepsPromise
  <2>4. QED  BY <1>0, <2>1, <2>2, <2>3 DEF LetterInv
<1>2. CASE /\ (\E e \in Editor : EditStep(e)) \/ (\E b \in Batch : LeaseExpires(b))
           /\ UNCHANGED <<createOnly, subvars>>
  <2>0. signedFor' = signedFor  BY <1>2 DEF subvars
  <2>1. DocsInv' /\ Creates'  BY <1>0, <1>2, EditKeepsDocs
  <2>2. ASSUME NEW e \in Editor, EditStep(e)
        PROVE  UNCHANGED dstore \/ \E b \in Batch : EditedDraft(b)
    <3>1. PICK b : b = edit[e].on  OBVIOUS
    <3>2. QED  BY <1>0, <1>2, <2>2, <3>1, EditWrites
  <2>3. UNCHANGED dstore \/ \E b \in Batch : EditedDraft(b)  BY <1>0, <1>2, <2>2, ExpiryWrites
  <2>4. PromiseInv'
    <3>1. UNCHANGED dstore => UNCHANGED <<dstore, signedFor>>  BY <2>0
    <3>2. QED  BY <1>0, <2>0, <2>3, <3>1, StillKeepsPromise, EditedKeepsPromise
  <2>5. QED  BY <1>0, <2>1, <2>4 DEF LetterInv
<1>3. CASE SubmitStep /\ UNCHANGED <<createOnly, edit>>
  BY <1>0, <1>3, SubmitKeepsDocs, SubmitWrites DEF LetterInv
<1>4. ASSUME NEW b \in Batch, AbandonAny(b)  PROVE LetterInv'
  BY <1>0, <1>4, AbandonKeepsDocs, AbandonWrites DEF LetterInv
<1>5. CASE UNCHANGED lvars
  <2>1. UNCHANGED <<batch, lock, child, history, draft, edit, sub, merges, req, dstore, createOnly>>
        /\ signedFor' = signedFor
    BY <1>5 DEF lvars, dstore, store, subvars, createOnly
  <2>2. UNCHANGED <<dstore, signedFor>> /\ UNCHANGED <<dstore, createOnly>>  BY <2>1
  <2>3. PromiseInv' /\ LocksName' /\ Unpublished' /\ Creates'
    BY <1>0, <2>2, StillKeepsPromise, StillKeepsDocs DEF DocsInv
  <2>4. EditsOnReady' /\ SubmitsOnReady'
    BY <1>0, <2>1 DEF DocsInv, EditsOnReady, SubmitsOnReady, Ready
  <2>5. QED  BY <1>0, <2>3, <2>4 DEF LetterInv, DocsInv
<1>6. QED  BY <1>1, <1>2, <1>3, <1>4, <1>5 DEF LetterNext

\* The invariant holds in every reachable state, whatever creates, clean-ups, edits, saves, uploads,
\* merges, submits and abandons interleave.
THEOREM LetterInvAlways == LetterSpec => []LetterInv
BY LetterInvInit, LetterInvStep, PTL DEF LetterSpec

\* Beside creates and edits too a signed letter is of the ULBs and the details its batch has now:
\* an upload that comes in the middle of an edit does not survive it, also when that edit outlived
\* its lease and another one took over.
THEOREM LettersStayCurrent == LetterSpec => []SignedLetterIsCurrent
<1>1. LetterInv => SignedLetterIsCurrent  BY DEF LetterInv, PromiseInv
<1>2. QED  BY <1>1, LetterInvAlways, PTL

\* What MoHUA reviews is complete, whichever create, edit or clean-up ran beside the submit.
THEOREM SubmittedStayComplete == LetterSpec => []SubmittedArtifacts
<1>1. LetterInv => SubmittedArtifacts  BY DEF LetterInv, PromiseInv
<1>2. QED  BY <1>1, LetterInvAlways, PTL

\* From the empty database on, the audit rows of a batch are exactly what happened to it.
THEOREM LetterHistoryIsExact == LetterSpec => []SubmitAuditTrail
<1>1. LetterInv => SubmitAuditTrail  BY DEF LetterInv, PromiseInv
<1>2. QED  BY <1>1, LetterInvAlways, PTL

-----------------------------------------------------------------------------
(* What is under review is frozen                                          *)

\* An edit that works on a draft holds it, and what is under review nobody holds: edits write only
\* what is not under review.
LEMMA EditFindsOpen ==
  ASSUME LetterTyped, DocsInv, LeaseInv, UNCHANGED <<createOnly, subvars>>,
         (\E e \in Editor : EditStep(e)) \/ \E b \in Batch : LeaseExpires(b)
  PROVE  UNCHANGED dstore \/ \E b \in Batch : EditedDraft(b) /\ ~Submitted(b)
<1>1. ASSUME NEW e \in Editor, EditStep(e)
      PROVE  UNCHANGED dstore \/ \E b \in Batch : EditedDraft(b) /\ ~Submitted(b)
  <2>1. PICK b : b = edit[e].on  OBVIOUS
  <2>2. \/ UNCHANGED dstore
        \/ b \in Batch /\ EditedDraft(b) /\ (edit[e].pc \in Working \/ ~Submitted(b))
    BY <1>1, <2>1, EditWrites
  <2>3. edit[e].pc \in Working => ~LeaseFree(b)
    BY <2>1, DraftAssumption DEF LeaseInv, ClaimInv, WorkerHoldsLease, LeaseFree
  <2>4. QED  BY <2>2, <2>3 DEF LeaseInv, SubmittedIsClosed
<1>2. ASSUME NEW b \in Batch, LeaseExpires(b)  PROVE EditedDraft(b) /\ ~Submitted(b)
  BY <1>2, ExpiryWrites DEF LeaseInv, SubmittedIsClosed
<1>3. QED  BY <1>1, <1>2

\* Edits keep their leases, and hold nothing that is under review.
LEMMA EditKeepsLeases ==
  ASSUME "slow" \notin Faults, \A e \in Editor : ~CommitMisreported(e),
         LetterTyped, DocsInv, LeaseInv, UNCHANGED <<createOnly, subvars>>,
         (\E e \in Editor : EditStep(e)) \/ \E b \in Batch : LeaseExpires(b)
  PROVE  LeaseInv'
<1>1. ClaimInv'
  <2>1. EditNext  BY DEF EditNext
  <2>2. QED  BY <2>1, ClaimStep DEF LetterTyped, LetterTypeOK, LeaseInv
<1>2. SubmittedIsClosed'
  <2>1. CASE UNCHANGED dstore
    <3>1. batch' = batch /\ draft' = draft  BY <2>1 DEF dstore, store
    <3>2. QED  BY <3>1 DEF LeaseInv, SubmittedIsClosed, Submitted, LeaseFree
  <2>2. ASSUME NEW b \in Batch, EditedDraft(b), ~Submitted(b)  PROVE SubmittedIsClosed'
    <3>1. ~Submitted(b)'  BY <2>2 DEF EditedDraft, Submitted
    <3>2. \A c \in Batch \ {b} : batch'[c] = batch[c] /\ draft'[c] = draft[c]
      BY <2>2 DEF EditedDraft, PublishedStep, OnlyTouches
    <3>3. QED  BY <3>1, <3>2 DEF LeaseInv, SubmittedIsClosed, Submitted, LeaseFree
  <2>3. QED  BY <2>1, <2>2, EditFindsOpen
<1>3. QED  BY <1>1, <1>2 DEF LeaseInv

\* What leads to the submit takes no lease and no lock away, and submits what no edit holds.
LEMMA LockedKeepsLeases ==
  ASSUME LetterTyped, LeaseInv, NEW b \in Batch, LockedDraft(b), UNCHANGED edit
  PROVE  LeaseInv'
<1>1. \A c \in Batch :
        /\ batch'[c].content = batch[c].content /\ batch'[c].abandoned = batch[c].abandoned
        /\ draft'[c].token = draft[c].token /\ draft'[c].expired = draft[c].expired
        /\ Ready(c)' <=> Ready(c)
  <2>1. ASSUME NEW c \in Batch \ {b}  PROVE batch'[c] = batch[c] /\ draft'[c] = draft[c]
    BY DEF LockedDraft, SubmittedDraft, PublishedStep, OnlyTouches
  <2>2. QED  BY <2>1 DEF LockedDraft, SubmittedDraft, PublishedStep, Ready
<1>2. lock' = lock /\ edit' = edit  BY DEF LockedDraft
<1>3. \A e \in Editor : edit[e].pc \in Working => edit[e].on \in Batch
  BY DEF LetterTyped, EditShape
<1>4. WorkerHoldsLease'  BY <1>1, <1>2, <1>3 DEF LeaseInv, ClaimInv, WorkerHoldsLease
<1>5. ClaimedStaysLocked'
  BY <1>1, <1>2 DEF LeaseInv, ClaimInv, ClaimedStaysLocked, InProgressOrReview, LocksOf
<1>6. AddedIsUnclaimed'
  <2>1. SUFFICES ASSUME NEW e \in Editor,
                        edit[e].pc \in Working \ {"read", "prepare", "release"},
                        InProgressOrReview(edit[e].on)'
                 PROVE  (edit[e].sel \ edit[e].old) \cap batch'[edit[e].on].content = {}
    BY <1>2 DEF AddedIsUnclaimed, Added
  <2>2. PICK c \in Batch : c = edit[e].on  BY <1>3, <2>1
  <2>3. InProgressOrReview(c)'  BY <1>2, <2>1, <2>2 DEF InProgressOrReview, Ready
  <2>4. InProgressOrReview(c)  BY <1>1, <2>3 DEF InProgressOrReview
  <2>5. Added(e) \cap batch[c].content = {}
    BY <2>1, <2>2, <2>4 DEF LeaseInv, ClaimInv, AddedIsUnclaimed
  <2>6. QED  BY <1>1, <2>2, <2>5 DEF Added
<1>7. VerifiedIsLocked'
  BY <1>2 DEF LeaseInv, ClaimInv, VerifiedIsLocked, EditAt, LocksOf
<1>8. SubmittedIsClosed'
  <2>1. \A c \in Batch \ {b} : batch'[c] = batch[c]
    BY DEF LockedDraft, SubmittedDraft, PublishedStep, OnlyTouches
  <2>2. Submitted(b)' => ~batch[b].abandoned /\ LeaseFree(b)  BY DEF LockedDraft
  <2>3. SUFFICES ASSUME NEW c \in Batch, Submitted(c)'  PROVE ~batch'[c].abandoned /\ LeaseFree(c)'
    BY DEF SubmittedIsClosed
  <2>4. ~batch[c].abandoned /\ LeaseFree(c)
    BY <2>1, <2>2, <2>3 DEF LeaseInv, SubmittedIsClosed, Submitted
  <2>5. QED  BY <1>1, <2>4 DEF LeaseFree
<1>9. QED  BY <1>4, <1>5, <1>6, <1>7, <1>8 DEF LeaseInv, ClaimInv

\* Where neither documents nor edits change, no lease does.
LEMMA StillKeepsLeases ==
  ASSUME LeaseInv, UNCHANGED <<dstore, edit>>
  PROVE  LeaseInv'
<1>1. UNCHANGED <<batch, lock, draft, edit>>  BY DEF dstore, store
<1>2. QED
  BY <1>1 DEF LeaseInv, ClaimInv, WorkerHoldsLease, ClaimedStaysLocked, AddedIsUnclaimed,
              VerifiedIsLocked, SubmittedIsClosed, InProgressOrReview, Ready, LocksOf, Added, EditAt,
              Submitted, LeaseFree

\* An abandon needs a free lease.
LEMMA AbandonKeepsLeases ==
  ASSUME LetterTyped, LeaseInv, PromiseInv, NEW b \in Batch, AbandonAny(b)
  PROVE  LeaseInv'
<1>1. ClaimInv'
  <2>1. AbandonUnedited(b)  BY DEF AbandonAny, AbandonUnedited
  <2>2. QED  BY <2>1, EditAbandonKeeps DEF LetterTyped, LetterTypeOK, LeaseInv
<1>2. SubmittedIsClosed'
  <2>1. ~Submitted(b)' /\ \A c \in Batch \ {b} : batch'[c] = batch[c] /\ draft'[c] = draft[c]
    BY AbandonWrites DEF SubmittedDraft, PublishedStep, OnlyTouches
  <2>2. QED  BY <2>1 DEF LeaseInv, SubmittedIsClosed, Submitted, LeaseFree
<1>3. QED  BY <1>1, <1>2 DEF LeaseInv

\* Every step keeps the leases.
LEMMA LeaseInvStep ==
  ASSUME "slow" \notin Faults
  PROVE  (\A e \in Editor : ~CommitMisreported(e)) /\ LetterInv /\ LeaseInv /\ [LetterNext]_lvars
         => LeaseInv'
<1> SUFFICES ASSUME \A e \in Editor : ~CommitMisreported(e), LetterInv, LeaseInv,
                    [LetterNext]_lvars
             PROVE  LeaseInv'
  OBVIOUS
<1>0. /\ LetterTyped /\ LetterTyped' /\ DocsInv /\ Creates /\ PromiseInv
  BY LetterStepTyped DEF LetterInv
<1>1. CASE /\ (\E r \in Batch : RequestStep(r)) \/ CleanupStep
           /\ UNCHANGED <<draft, edit, subvars>>
  <2>1. UNCHANGED dstore \/ \E b \in Batch : UnpublishedStep(b)  BY <1>0, <1>1, CreateWrites
  <2>2. UNCHANGED dstore => UNCHANGED <<dstore, edit>>  BY <1>1
  <2>3. QED  BY <1>0, <2>1, <2>2, StillKeepsLeases, UnpublishedKeepsLeases
<1>2. CASE /\ (\E e \in Editor : EditStep(e)) \/ (\E b \in Batch : LeaseExpires(b))
           /\ UNCHANGED <<createOnly, subvars>>
  BY <1>0, <1>2, EditKeepsLeases
<1>3. CASE SubmitStep /\ UNCHANGED <<createOnly, edit>>
  <2>1. UNCHANGED dstore \/ \E b \in Batch : LockedDraft(b)  BY <1>0, <1>3, SubmitWrites
  <2>2. UNCHANGED dstore => UNCHANGED <<dstore, edit>>  BY <1>3
  <2>3. UNCHANGED edit  BY <1>3
  <2>4. QED  BY <1>0, <2>1, <2>2, <2>3, StillKeepsLeases, LockedKeepsLeases
<1>4. CASE \E b \in Batch : AbandonAny(b)  BY <1>0, <1>4, AbandonKeepsLeases
<1>5. CASE UNCHANGED lvars
  <2>1. UNCHANGED <<dstore, edit>>  BY <1>5 DEF lvars
  <2>2. QED  BY <2>1, StillKeepsLeases
<1>6. QED  BY <1>1, <1>2, <1>3, <1>4, <1>5 DEF LetterNext

\* Nothing is leased at the start.
LEMMA LeaseInvInit == LetterInit => LeaseInv
<1> SUFFICES ASSUME LetterInit  PROVE LeaseInv  OBVIOUS
<1>1. /\ batch = [b \in Batch |-> NoDoc] /\ \A e \in Editor : edit[e].pc = "idle"
  BY DEF LetterInit, CreateInit, StoreInit, EditProcInit, IdleEdit
<1>2. NoDoc.content = {} /\ NoDoc.status = "IN_PROGRESS"  BY DEF NoDoc
<1>3. ClaimedStaysLocked /\ SubmittedIsClosed
  BY <1>1, <1>2 DEF ClaimedStaysLocked, SubmittedIsClosed, Submitted
<1>4. WorkerHoldsLease /\ AddedIsUnclaimed /\ VerifiedIsLocked
  BY <1>1, WorkingIs DEF WorkerHoldsLease, AddedIsUnclaimed, VerifiedIsLocked, EditAt
<1>5. QED  BY <1>3, <1>4 DEF LeaseInv, ClaimInv

\* Whichever step is taken, what it writes is one batch that is not under review.
LEMMA StepsFindOpen ==
  ASSUME LetterInv, LeaseInv, [LetterNext]_lvars
  PROVE  UNCHANGED dstore \/ \E b \in Batch : OnlyTouches(b) /\ ~Submitted(b)
<1>0. /\ LetterTyped /\ LetterTyped' /\ DocsInv /\ Creates /\ PromiseInv
  BY LetterStepTyped DEF LetterInv
<1>1. CASE /\ (\E r \in Batch : RequestStep(r)) \/ CleanupStep
           /\ UNCHANGED <<draft, edit, subvars>>
  <2>1. UNCHANGED dstore \/ \E b \in Batch : UnpublishedStep(b)  BY <1>0, <1>1, CreateWrites
  <2>2. ASSUME NEW b \in Batch, UnpublishedStep(b)  PROVE OnlyTouches(b) /\ ~Submitted(b)
    BY <1>0, <2>2 DEF UnpublishedStep, DocsInv, Unpublished, Submitted
  <2>3. QED  BY <2>1, <2>2
<1>2. CASE /\ (\E e \in Editor : EditStep(e)) \/ (\E b \in Batch : LeaseExpires(b))
           /\ UNCHANGED <<createOnly, subvars>>
  BY <1>0, <1>2, EditFindsOpen DEF EditedDraft, PublishedStep
<1>3. CASE SubmitStep /\ UNCHANGED <<createOnly, edit>>
  BY <1>0, <1>3, SubmitWrites DEF LockedDraft, SubmittedDraft, PublishedStep
<1>4. CASE \E b \in Batch : AbandonAny(b)
  BY <1>0, <1>4, AbandonWrites DEF SubmittedDraft, PublishedStep
<1>5. CASE UNCHANGED lvars  BY <1>5 DEF lvars
<1>6. QED  BY <1>1, <1>2, <1>3, <1>4, <1>5 DEF LetterNext

\* What MoHUA reviews never changes again, by any create, edit, save, merge or abandon that began
\* before the submit, whichever steps of an edit fail and whichever of its writes take effect, in
\* full or in part, and are reported as failed, with two exceptions: no edit outlives its lease, and
\* no commit of an edit that took effect is reported as failed.
THEOREM ReviewFrozen ==
  "slow" \notin Faults /\ "commit" \notin Misreported /\ LetterSpec => ReviewIsFrozen
<1> DEFINE Frozen == \A b \in Batch : Submitted(b) =>
                       /\ batch'[b] = batch[b] /\ child'[b] = child[b] /\ draft'[b] = draft[b]
                       /\ LocksOf(b)' = LocksOf(b)
<1>1. LetterInv /\ LeaseInv /\ [LetterNext]_lvars => [Frozen]_lvars
  <2> SUFFICES ASSUME LetterInv, LeaseInv, [LetterNext]_lvars  PROVE Frozen  OBVIOUS
  <2>1. CASE UNCHANGED dstore  BY <2>1 DEF dstore, store, LocksOf
  <2>2. CASE \E b \in Batch : OnlyTouches(b) /\ ~Submitted(b)  BY <2>2 DEF OnlyTouches, LocksOf
  <2>3. QED  BY <2>1, <2>2, StepsFindOpen
<1> SUFFICES ASSUME "slow" \notin Faults, "commit" \notin Misreported
             PROVE  LetterSpec => ReviewIsFrozen
  OBVIOUS
<1>2. LetterInit => LetterInv /\ LeaseInv  BY LetterInvInit, LeaseInvInit
<1>3. LetterInv /\ LeaseInv /\ [LetterNext]_lvars => LetterInv' /\ LeaseInv'
  BY LetterInvStep, LeaseInvStep, CommitsReported
<1>4. QED  BY <1>1, <1>2, <1>3, PTL DEF LetterSpec, ReviewIsFrozen

\* Beside the creates too a ULB that a live batch claims keeps its lock, so no other create takes it,
\* with the same two exceptions.
THEOREM ClaimsStayLockedBesideCreates ==
  "slow" \notin Faults /\ "commit" \notin Misreported /\ LetterSpec => []ClaimedStaysLocked
<1>1. LetterInit => LetterInv /\ LeaseInv  BY LetterInvInit, LeaseInvInit
<1>2. LeaseInv => ClaimedStaysLocked  BY DEF LeaseInv, ClaimInv
<1> SUFFICES ASSUME "slow" \notin Faults, "commit" \notin Misreported
             PROVE  LetterSpec => []ClaimedStaysLocked
  OBVIOUS
<1>3. LetterInv /\ LeaseInv /\ [LetterNext]_lvars => LetterInv' /\ LeaseInv'
  BY LetterInvStep, LeaseInvStep, CommitsReported
<1>4. QED  BY <1>1, <1>2, <1>3, PTL DEF LetterSpec

-----------------------------------------------------------------------------
(* Live drafts are whole, but for the edits at work                        *)

\* How far an edit q is with a draft of content c, child rows k and locks l.
Progress(q, c, k, l) ==
  /\ c # {}
  /\ q.pc \in {"read", "prepare", "release"} => k = c /\ l = c
  /\ q.pc \notin {"read", "release"} => q.old = c
  /\ q.pc \notin {"read", "prepare", "release"} => l = c \cup q.sel
  /\ q.pc \in {"delete", "unlock"} => k = c
  /\ q.pc = "persist" => q.todo \subseteq q.sel /\ k = q.sel \ q.todo
  /\ q.pc \in {"totals", "verify", "commit"} => k = q.sel
  /\ q.pc = "restore" => q.todo \subseteq c /\ k = c \ q.todo

ProgressOn(e, b) == Progress(edit[e], batch[b].content, child[b], LocksOf(b))

WorksOn(e, b) == edit[e].pc \in Working /\ edit[e].on = b

\* A live draft is whole, or an edit works on it and can still make it whole.
WholeInv ==
  \A b \in Batch : InProgressOrReview(b) =>
    /\ Whole(b) \/ \E e \in Editor : WorksOn(e, b)
    /\ \A e \in Editor : WorksOn(e, b) => ProgressOn(e, b)

\* What an edit should leave: progress, or when it is over a whole draft.
Leaves(e, b) == IF edit[e].pc \in Working THEN ProgressOn(e, b) ELSE Whole(b)

\* A batch whose ULBs, rows and locks stay, and whose edits do, is as whole as it was.
LEMMA WholeStays ==
  ASSUME NEW b \in Batch,
         InProgressOrReview(b)' =>
           /\ InProgressOrReview(b)
           /\ batch'[b].content = batch[b].content /\ child'[b] = child[b]
           /\ \A u \in Ulb : lock'[u] = b <=> lock[u] = b,
         \A e \in Editor : /\ WorksOn(e, b)' <=> WorksOn(e, b)
                           /\ WorksOn(e, b) => edit'[e] = edit[e],
         InProgressOrReview(b) =>
           /\ Whole(b) \/ \E e \in Editor : WorksOn(e, b)
           /\ \A e \in Editor : WorksOn(e, b) => ProgressOn(e, b)
  PROVE  InProgressOrReview(b)' =>
           /\ Whole(b)' \/ \E e \in Editor : WorksOn(e, b)'
           /\ \A e \in Editor : WorksOn(e, b)' => ProgressOn(e, b)'
<1> SUFFICES ASSUME InProgressOrReview(b)'
             PROVE  /\ Whole(b)' \/ \E e \in Editor : WorksOn(e, b)'
                    /\ \A e \in Editor : WorksOn(e, b)' => ProgressOn(e, b)'
  OBVIOUS
<1>1. LocksOf(b)' = LocksOf(b)  BY DEF LocksOf
<1>2. Whole(b) => Whole(b)'  BY <1>1 DEF Whole
<1>3. ASSUME NEW e \in Editor, WorksOn(e, b), ProgressOn(e, b)  PROVE ProgressOn(e, b)'
  BY <1>1, <1>3 DEF ProgressOn, Progress
<1>4. QED  BY <1>2, <1>3

\* Where no draft comes alive or changes its ULBs, rows or locks, and no edit at work does anything,
\* the live drafts stay as whole as they were.
LEMMA AllStayWhole ==
  ASSUME WholeInv,
         \A b \in Batch : InProgressOrReview(b)' =>
           /\ InProgressOrReview(b)
           /\ batch'[b].content = batch[b].content /\ child'[b] = child[b]
           /\ \A u \in Ulb : lock'[u] = b <=> lock[u] = b,
         \A e \in Editor : /\ edit'[e].pc \in Working <=> edit[e].pc \in Working
                           /\ edit[e].pc \in Working => edit'[e] = edit[e]
  PROVE  WholeInv'
<1>1. SUFFICES ASSUME NEW b \in Batch
               PROVE  InProgressOrReview(b)' =>
                        /\ Whole(b)' \/ \E e \in Editor : WorksOn(e, b)'
                        /\ \A e \in Editor : WorksOn(e, b)' => ProgressOn(e, b)'
  BY DEF WholeInv, InProgressOrReview, Whole, WorksOn, ProgressOn, Ready, LocksOf
<1>2. \A e \in Editor : /\ WorksOn(e, b)' <=> WorksOn(e, b)
                        /\ WorksOn(e, b) => edit'[e] = edit[e]
  BY DEF WorksOn
<1>3. InProgressOrReview(b) =>
        /\ Whole(b) \/ \E e \in Editor : WorksOn(e, b)
        /\ \A e \in Editor : WorksOn(e, b) => ProgressOn(e, b)
  BY DEF WholeInv
<1>4. QED  BY <1>2, <1>3, WholeStays

\* A step of the edit e on the draft b, where no other edit works, has to leave that one well.
LEMMA WholeFrame ==
  ASSUME WholeInv, NEW e \in Editor, NEW b \in Batch,
         \/ UNCHANGED dstore
         \/ OnlyTouches(b),
         \A d \in Editor \ {e} : edit'[d] = edit[d] /\ ~WorksOn(d, b),
         edit[e].pc \in Working => edit[e].on = b,
         edit'[e].pc \in Working => edit'[e].on = b,
         InProgressOrReview(b)' => Leaves(e, b)'
  PROVE  WholeInv'
<1>1. \A c \in Batch \ {b} :
        batch'[c] = batch[c] /\ child'[c] = child[c] /\ \A u \in Ulb : lock'[u] = c <=> lock[u] = c
  BY DEF OnlyTouches, dstore, store
<1>2. SUFFICES ASSUME NEW c \in Batch
               PROVE  InProgressOrReview(c)' =>
                        /\ Whole(c)' \/ \E d \in Editor : WorksOn(d, c)'
                        /\ \A d \in Editor : WorksOn(d, c)' => ProgressOn(d, c)'
  BY DEF WholeInv, InProgressOrReview, Whole, WorksOn, ProgressOn, Ready, LocksOf
<1>3. CASE c = b
  <2>1. \A d \in Editor \ {e} : ~WorksOn(d, b)'  BY DEF WorksOn
  <2>2. QED  BY <1>3, <2>1 DEF Leaves, WorksOn
<1>4. CASE c # b
  <2>1. \A d \in Editor : /\ WorksOn(d, c)' <=> WorksOn(d, c)
                          /\ WorksOn(d, c) => edit'[d] = edit[d]
    BY <1>4 DEF WorksOn
  <2>2. InProgressOrReview(c) =>
           /\ Whole(c) \/ \E d \in Editor : WorksOn(d, c)
           /\ \A d \in Editor : WorksOn(d, c) => ProgressOn(d, c)
    BY DEF WholeInv
  <2>3. c \in Batch \ {b}  BY <1>4
  <2>4. InProgressOrReview(c)' =>
          /\ InProgressOrReview(c)
          /\ batch'[c].content = batch[c].content /\ child'[c] = child[c]
          /\ \A u \in Ulb : lock'[u] = c <=> lock[u] = c
    BY <1>1, <2>3 DEF InProgressOrReview, Ready
  <2>5. QED  BY <2>1, <2>2, <2>4, WholeStays
<1>5. QED  BY <1>3, <1>4

\* The failures without an effect after which the code leaves a draft as the edit found it, and the
\* one of giving the edit lock back, which leaves it to its lease.
Mended(e) == EditStepFails(e) /\ edit[e].pc \in Restored \cup {"release"}

\* Where the documents stay, an edit goes on or ends as its program counter says.
LEMMA StillGoesWell ==
  ASSUME LetterTyped, NEW e \in Editor, NEW b \in Batch, WorksOn(e, b), ProgressOn(e, b),
         \/ ReadChildren(e) \/ Refuse(e) \/ Totals(e) \/ Verify(e) \/ ReleaseEditLock(e)
         \/ Mended(e) \/ (Commit(e) /\ EditGoto(e, "undo") /\ UNCHANGED dstore)
  PROVE  Leaves(e, b)'
<1>0. edit \in [Editor -> EditState] /\ edit[e] \in EditState /\ edit[e].on = b
  BY DEF LetterTyped, LetterTypeOK, EditTypeOK, WorksOn
<1>1. UNCHANGED <<batch, child, lock>>
  BY DEF ReadChildren, Refuse, Totals, Verify, ReleaseEditLock, Mended, EditStepFails, dstore, store
<1>2. LocksOf(b)' = LocksOf(b)  BY <1>1 DEF LocksOf
<1>3. Progress(edit[e], batch[b].content, child[b], LocksOf(b))  BY DEF ProgressOn
<1>4. ASSUME Progress(edit'[e], batch[b].content, child[b], LocksOf(b)), edit'[e].pc \in Working
      PROVE  Leaves(e, b)'
  BY <1>1, <1>2, <1>4 DEF Leaves, ProgressOn, Progress
<1>5. ASSUME edit[e].pc \in {"read", "release"}, NEW pc \in {"failed", "done"}, EditEnd(e, pc)
      PROVE  Leaves(e, b)'
  <2>1. Whole(b)  BY <1>3, <1>5 DEF Progress, Whole
  <2>2. Whole(b)'  BY <1>1, <1>2, <2>1 DEF Whole
  <2>3. edit'[e].pc = pc  BY <1>0, <1>5 DEF EditEnd, IdleEdit
  <2>4. QED  BY <2>2, <2>3, WorkingIs DEF Leaves
<1>6. ASSUME NEW pc \in EditPc, EditGoto(e, pc)
      PROVE  /\ edit'[e].pc = pc /\ edit'[e].sel = edit[e].sel /\ edit'[e].old = edit[e].old
             /\ edit'[e].todo = edit[e].todo
  BY <1>0, <1>6 DEF EditGoto, EditState
<1>7. CASE ReadChildren(e)
  <2>1. PICK pc \in {"prepare", "release"} :
          edit' = [edit EXCEPT ![e].pc = pc, ![e].old = child[edit[e].on]]
    BY <1>7 DEF ReadChildren
  <2>2. /\ edit'[e].pc = pc /\ edit'[e].old = child[b] /\ edit'[e].sel = edit[e].sel
        /\ edit[e].pc = "read"
    BY <1>0, <1>7, <2>1 DEF ReadChildren, EditAt, EditState
  <2>3. Progress(edit'[e], batch[b].content, child[b], LocksOf(b))
    BY <1>3, <2>2 DEF Progress
  <2>4. QED  BY <1>4, <2>2, <2>3, WorkingIs
<1>8. CASE Refuse(e)
  <2>1. EditGoto(e, "release") /\ edit[e].pc = "prepare"  BY <1>8 DEF Refuse, EditAt
  <2>2. edit'[e].pc = "release"  BY <1>6, <2>1 DEF EditPc
  <2>3. Progress(edit'[e], batch[b].content, child[b], LocksOf(b))
    BY <1>3, <2>1, <2>2 DEF Progress
  <2>4. QED  BY <1>4, <2>2, <2>3, WorkingIs
<1>9. CASE Totals(e)
  <2>1. EditGoto(e, "verify") /\ edit[e].pc = "totals"  BY <1>9 DEF Totals, EditAt
  <2>2. edit'[e].pc = "verify" /\ edit'[e].sel = edit[e].sel /\ edit'[e].old = edit[e].old
    BY <1>6, <2>1 DEF EditPc
  <2>3. Progress(edit'[e], batch[b].content, child[b], LocksOf(b))
    BY <1>3, <2>1, <2>2 DEF Progress
  <2>4. QED  BY <1>4, <2>2, <2>3, WorkingIs
<1>10. ASSUME edit[e].pc \in {"verify", "commit"}, EditGoto(e, "undo")  PROVE Leaves(e, b)'
  <2>1. edit'[e].pc = "undo" /\ edit'[e].sel = edit[e].sel /\ edit'[e].old = edit[e].old
    BY <1>6, <1>10 DEF EditPc
  <2>2. Progress(edit'[e], batch[b].content, child[b], LocksOf(b))
    BY <1>3, <1>10, <2>1 DEF Progress
  <2>3. QED  BY <1>4, <2>1, <2>2, WorkingIs
<1>11. CASE Verify(e)
  <2>1. edit[e].pc = "verify" /\ (EditGoto(e, "undo") \/ EditGoto(e, "commit"))
    BY <1>11 DEF Verify, EditAt
  <2>2. CASE EditGoto(e, "undo")  BY <1>10, <2>1, <2>2
  <2>3. CASE EditGoto(e, "commit")
    <3>1. edit'[e].pc = "commit" /\ edit'[e].sel = edit[e].sel /\ edit'[e].old = edit[e].old
      BY <1>6, <2>3 DEF EditPc
    <3>2. Progress(edit'[e], batch[b].content, child[b], LocksOf(b))
      BY SMTT(30), <1>3, <2>1, <3>1 DEF Progress
    <3>3. QED  BY <1>4, <3>1, <3>2, WorkingIs
  <2>4. QED  BY <2>1, <2>2, <2>3
<1>12. CASE Commit(e) /\ EditGoto(e, "undo") /\ UNCHANGED dstore
  BY <1>10, <1>12 DEF Commit, CommitEdit, EditAt
<1>13. CASE ReleaseEditLock(e)  BY <1>5, <1>13 DEF ReleaseEditLock, EditAt
<1>14. CASE Mended(e)
  <2>1. /\ OnError["read"] = "failed" /\ OnError["release"] = "failed"
        /\ OnError["prepare"] = "release" /\ OnError["delete"] = "unlock"
        /\ OnError["verify"] = "undo" /\ OnError["commit"] = "undo"
    BY DEF OnError
  <2>2. edit[e].pc \in {"read", "release"} => EditEnd(e, "failed")
    BY <1>14, <2>1 DEF Mended, EditStepFails, Catch
  <2>3. ASSUME edit[e].pc \in {"prepare", "delete", "verify", "commit"}  PROVE Leaves(e, b)'
    <3>1. PICK pc \in {"release", "unlock", "undo"} : pc = OnError[edit[e].pc]  BY <2>1, <2>3
    <3>2. edit' = [edit EXCEPT ![e].pc = pc, ![e].todo = {}]
      BY <1>14, <3>1 DEF Mended, EditStepFails, Catch
    <3>3. edit'[e].pc = pc /\ edit'[e].sel = edit[e].sel /\ edit'[e].old = edit[e].old
      BY <1>0, <3>2 DEF EditState
    <3>4. Progress(edit'[e], batch[b].content, child[b], LocksOf(b))
      BY <1>3, <2>1, <2>3, <3>1, <3>3 DEF Progress
    <3>5. QED  BY <1>4, <3>3, <3>4, WorkingIs
  <2>4. edit[e].pc \in {"read", "release", "prepare", "delete", "verify", "commit"}
    BY <1>14 DEF Mended, Restored
  <2>5. QED  BY <1>5, <2>2, <2>3, <2>4
<1>15. QED  BY <1>7, <1>8, <1>9, <1>11, <1>12, <1>13, <1>14

\* An insert of rows that are still to come is no duplicate.
LEMMA InsertGoesWell ==
  ASSUME LetterTyped, NEW e \in Editor, NEW b \in Batch, edit[e].on = b, NEW C \in SUBSET Ulb,
         PersistRows(e, C) \/ RestoreRows(e, C), NEW whole \in SUBSET Ulb,
         edit[e].todo \subseteq whole, child[b] = whole \ edit[e].todo
  PROVE  /\ batch' = batch /\ lock' = lock
         /\ edit'[e].sel = edit[e].sel /\ edit'[e].old = edit[e].old
         /\ edit'[e].todo = edit[e].todo \ C /\ child'[b] = whole \ edit'[e].todo
         /\ edit[e].todo # C => edit'[e].pc = edit[e].pc
         /\ edit[e].todo = C => edit'[e].pc = IF edit[e].pc = "persist" THEN "totals" ELSE "unlock"
<1>0. /\ edit \in [Editor -> EditState] /\ edit[e] \in EditState
      /\ child \in [Batch -> SUBSET Ulb]
  BY DEF LetterTyped, LetterTypeOK, EditTypeOK, DraftTypeOK, StoreTypeOK
<1>1. C \subseteq edit[e].todo /\ C \cap child[b] = {}
  BY DEF PersistRows, RestoreRows, InsertRows
<1>2. PICK next : next = IF edit[e].pc = "persist" THEN "totals" ELSE "unlock"  OBVIOUS
<1>3. /\ edit' = [edit EXCEPT ![e].todo = @ \ C,
                              ![e].pc = IF edit[e].todo = C THEN next ELSE @]
      /\ child' = [child EXCEPT ![b] = @ \cup C] /\ batch' = batch /\ lock' = lock
  BY <1>1, <1>2 DEF PersistRows, RestoreRows, InsertRows, EditAt
<1>4. /\ edit'[e].sel = edit[e].sel /\ edit'[e].old = edit[e].old
      /\ edit'[e].todo = edit[e].todo \ C
      /\ edit'[e].pc = IF edit[e].todo = C THEN next ELSE edit[e].pc
  BY <1>0, <1>3 DEF EditState
<1>5. child'[b] = child[b] \cup C  BY <1>0, <1>3
<1>6. child'[b] = whole \ edit'[e].todo  BY <1>1, <1>4, <1>5
<1>7. QED  BY <1>2, <1>3, <1>4, <1>6

\* A write of an edit takes its draft one step nearer to what it was asked for, or back to what it was.
LEMMA WriteGoesWell ==
  ASSUME LetterTyped, EditsOnReady, NEW e \in Editor, NEW b \in Batch, WorksOn(e, b),
         ProgressOn(e, b),
         \/ AddLocks(e) \/ DeleteChildren(e) \/ Undo(e) \/ ReleaseAddedLocks(e)
         \/ \E C \in SUBSET Ulb : PersistRows(e, C) \/ RestoreRows(e, C)
         \/ Commit(e)
  PROVE  Leaves(e, b)'
<1>0. /\ edit \in [Editor -> EditState] /\ edit[e] \in EditState /\ edit[e].on = b
      /\ child \in [Batch -> SUBSET Ulb] /\ batch \in [Batch -> BatchDoc]
      /\ lock \in [Ulb -> Batch \cup {NoBatch}]
  BY DEF LetterTyped, LetterTypeOK, EditTypeOK, DraftTypeOK, StoreTypeOK, WorksOn
<1>t. /\ edit[e].sel \in SUBSET Ulb /\ edit[e].old \in SUBSET Ulb
      /\ batch[b] \in BatchDoc /\ batch[b].content \in SUBSET Ulb
  <2>1. batch[b] \in BatchDoc  BY <1>0
  <2>2. QED  BY <1>0, <2>1 DEF EditState, BatchDoc
<1>1. Progress(edit[e], batch[b].content, child[b], LocksOf(b))  BY DEF ProgressOn
<1>2. ASSUME Progress(edit'[e], batch'[b].content, child'[b], LocksOf(b)'), edit'[e].pc \in Working
      PROVE  Leaves(e, b)'
  BY <1>2 DEF Leaves, ProgressOn, Progress
<1>3. LocksOf(b)' = {u \in Ulb : lock'[u] = b} /\ LocksOf(b) = {u \in Ulb : lock[u] = b}
  BY DEF LocksOf
<1>4. CASE AddLocks(e)
  <2>1. /\ edit[e].pc = "prepare" /\ batch' = batch /\ child' = child
        /\ lock' = [u \in Ulb |-> IF u \in Added(e) THEN b ELSE lock[u]]
    BY <1>0, <1>4 DEF AddLocks, LockAdded, EditAt
  <2>2. /\ edit'[e].pc = "delete" /\ edit'[e].sel = edit[e].sel /\ edit'[e].old = edit[e].old
    BY <1>0, <1>4 DEF AddLocks, EditGoto, EditState
  <2>3. /\ batch[b].content # {} /\ child[b] = batch[b].content
        /\ LocksOf(b) = batch[b].content /\ edit[e].old = batch[b].content
    BY <1>1, <2>1 DEF Progress
  <2>4. LocksOf(b)' = batch[b].content \cup edit[e].sel
    BY <1>t, <1>3, <2>1, <2>3 DEF Added
  <2>5. Progress(edit'[e], batch'[b].content, child'[b], LocksOf(b)')
    BY <2>1, <2>2, <2>3, <2>4 DEF Progress
  <2>6. QED  BY <1>2, <2>2, <2>5, WorkingIs
<1>5. CASE DeleteChildren(e)
  <2>1. /\ edit[e].pc = "delete" /\ batch' = batch /\ lock' = lock
        /\ child' = [child EXCEPT ![b] = {}]
        /\ edit' = [edit EXCEPT ![e].pc = "persist", ![e].todo = edit[e].sel]
    BY <1>0, <1>5 DEF DeleteChildren, EditAt
  <2>2. /\ edit'[e].pc = "persist" /\ edit'[e].sel = edit[e].sel /\ edit'[e].old = edit[e].old
        /\ edit'[e].todo = edit[e].sel /\ child'[b] = {}
    BY <1>0, <2>1 DEF EditState
  <2>3. LocksOf(b)' = LocksOf(b)  BY <1>3, <2>1
  <2>4. Progress(edit'[e], batch'[b].content, child'[b], LocksOf(b)')
    BY <1>1, <2>1, <2>2, <2>3 DEF Progress
  <2>5. QED  BY <1>2, <2>2, <2>4, WorkingIs
<1>6. CASE Undo(e)
  <2>1. /\ edit[e].pc = "undo" /\ batch' = batch /\ lock' = lock
        /\ child' = [child EXCEPT ![b] = {}]
        /\ edit' = [edit EXCEPT ![e].pc = IF edit[e].old = {} THEN "unlock" ELSE "restore",
                                ![e].todo = edit[e].old]
    BY <1>0, <1>6 DEF Undo, EditAt
  <2>2. edit[e].old = batch[b].content /\ edit[e].old # {}  BY <1>1, <2>1 DEF Progress
  <2>3. /\ edit'[e].pc = "restore" /\ edit'[e].sel = edit[e].sel /\ edit'[e].old = edit[e].old
        /\ edit'[e].todo = edit[e].old /\ child'[b] = {}
    BY <1>0, <2>1, <2>2 DEF EditState
  <2>4. LocksOf(b)' = LocksOf(b)  BY <1>3, <2>1
  <2>5. Progress(edit'[e], batch'[b].content, child'[b], LocksOf(b)')
    BY <1>1, <2>1, <2>2, <2>3, <2>4 DEF Progress
  <2>6. QED  BY <1>2, <2>3, <2>5, WorkingIs
<1>7. CASE ReleaseAddedLocks(e)
  <2>1. /\ edit[e].pc = "unlock" /\ batch' = batch /\ child' = child
        /\ lock' = [u \in Ulb |-> IF u \in Added(e) /\ lock[u] = b THEN NoBatch ELSE lock[u]]
    BY <1>0, <1>7 DEF ReleaseAddedLocks, EditAt
  <2>2. /\ edit'[e].pc = "release" /\ edit'[e].sel = edit[e].sel /\ edit'[e].old = edit[e].old
    BY <1>0, <1>7 DEF ReleaseAddedLocks, EditGoto, EditState
  <2>3. /\ batch[b].content # {} /\ child[b] = batch[b].content
        /\ LocksOf(b) = batch[b].content \cup edit[e].sel /\ edit[e].old = batch[b].content
    BY <1>1, <2>1 DEF Progress
  <2>4. LocksOf(b)' = LocksOf(b) \ Added(e)
    BY <1>3, <2>1, StoreAssumption
  <2>5. LocksOf(b)' = batch[b].content  BY <2>3, <2>4 DEF Added
  <2>6. Progress(edit'[e], batch'[b].content, child'[b], LocksOf(b)')
    BY <2>1, <2>2, <2>3, <2>5 DEF Progress
  <2>7. QED  BY <1>2, <2>2, <2>6, WorkingIs
<1>8. ASSUME NEW C \in SUBSET Ulb, PersistRows(e, C)  PROVE Leaves(e, b)'
  <2>1. /\ edit[e].pc = "persist"
        /\ edit[e].todo \subseteq edit[e].sel /\ child[b] = edit[e].sel \ edit[e].todo
    BY <1>1, <1>8 DEF PersistRows, EditAt, Progress
  <2>2. /\ batch' = batch /\ lock' = lock
        /\ edit'[e].sel = edit[e].sel /\ edit'[e].old = edit[e].old
        /\ edit'[e].todo = edit[e].todo \ C /\ child'[b] = edit[e].sel \ edit'[e].todo
        /\ edit'[e].pc = IF edit[e].todo = C THEN "totals" ELSE edit[e].pc
    <3>1. PICK whole \in SUBSET Ulb : whole = edit[e].sel  BY <1>t
    <3>2. /\ PersistRows(e, C) \/ RestoreRows(e, C)
          /\ edit[e].todo \subseteq whole /\ child[b] = whole \ edit[e].todo
      BY <1>8, <2>1, <3>1
    <3>3. /\ batch' = batch /\ lock' = lock
          /\ edit'[e].sel = edit[e].sel /\ edit'[e].old = edit[e].old
          /\ edit'[e].todo = edit[e].todo \ C /\ child'[b] = whole \ edit'[e].todo
          /\ edit[e].todo # C => edit'[e].pc = edit[e].pc
          /\ edit[e].todo = C => edit'[e].pc = IF edit[e].pc = "persist" THEN "totals" ELSE "unlock"
      BY <1>0, <3>2, InsertGoesWell
    <3>4. QED  BY <2>1, <3>1, <3>3
  <2>3. LocksOf(b)' = LocksOf(b)  BY <1>3, <2>2
  <2>4. Progress(edit'[e], batch'[b].content, child'[b], LocksOf(b)')
    <3>1. /\ batch[b].content # {} /\ edit[e].old = batch[b].content
          /\ LocksOf(b) = batch[b].content \cup edit[e].sel
      BY <1>1, <2>1 DEF Progress
    <3>2. CASE edit[e].todo = C
      <4>1. edit'[e].pc = "totals" /\ child'[b] = edit[e].sel  BY <2>2, <3>2
      <4>2. QED  BY <2>2, <2>3, <3>1, <4>1 DEF Progress
    <3>3. CASE edit[e].todo # C
      <4>1. edit'[e].pc = "persist" /\ edit'[e].todo \subseteq edit[e].sel  BY <2>1, <2>2, <3>3
      <4>2. QED  BY <2>2, <2>3, <3>1, <4>1 DEF Progress
    <3>4. QED  BY <3>2, <3>3
  <2>5. edit'[e].pc \in {"totals", "persist"}  BY <2>1, <2>2
  <2>6. QED  BY <1>2, <2>4, <2>5, WorkingIs
<1>9. ASSUME NEW C \in SUBSET Ulb, RestoreRows(e, C)  PROVE Leaves(e, b)'
  <2>1. /\ edit[e].pc = "restore"
        /\ edit[e].todo \subseteq batch[b].content
        /\ child[b] = batch[b].content \ edit[e].todo
    BY <1>1, <1>9 DEF RestoreRows, EditAt, Progress
  <2>2. /\ batch' = batch /\ lock' = lock
        /\ edit'[e].sel = edit[e].sel /\ edit'[e].old = edit[e].old
        /\ edit'[e].todo = edit[e].todo \ C /\ child'[b] = batch[b].content \ edit'[e].todo
        /\ edit'[e].pc = IF edit[e].todo = C THEN "unlock" ELSE edit[e].pc
    BY <1>0, <1>t, <1>9, <2>1, InsertGoesWell
  <2>3. LocksOf(b)' = LocksOf(b)  BY <1>3, <2>2
  <2>4. Progress(edit'[e], batch'[b].content, child'[b], LocksOf(b)')
    <3>1. /\ batch[b].content # {} /\ edit[e].old = batch[b].content
          /\ LocksOf(b) = batch[b].content \cup edit[e].sel
      BY <1>1, <2>1 DEF Progress
    <3>2. CASE edit[e].todo = C
      <4>1. edit'[e].pc = "unlock" /\ child'[b] = batch[b].content  BY <2>2, <3>2
      <4>2. QED  BY <2>2, <2>3, <3>1, <4>1 DEF Progress
    <3>3. CASE edit[e].todo # C
      <4>1. edit'[e].pc = "restore" /\ edit'[e].todo \subseteq batch[b].content
        BY <2>1, <2>2, <3>3
      <4>2. QED  BY <2>2, <2>3, <3>1, <4>1 DEF Progress
    <3>4. QED  BY <3>2, <3>3
  <2>5. edit'[e].pc \in {"unlock", "restore"}  BY <2>1, <2>2
  <2>6. QED  BY <1>2, <2>4, <2>5, WorkingIs
<1>10. CASE Commit(e)
  <2>1. edit[e].pc = "commit" /\ edit[e].sel # {}
    BY <1>10, WorkingIs DEF Commit, CommitEdit, EditAt, EditsOnReady
  <2>2. CASE EditAt(e, "commit") /\ ~CommitFits(e) /\ EditGoto(e, "undo") /\ UNCHANGED dstore
    BY <1>10, <2>2, StillGoesWell
  <2>3. CASE CommitEdit(e) /\ EditEnd(e, "done")
    <3>1. /\ batch' = [batch EXCEPT ![b] = [batch[b] EXCEPT !.content = edit[e].sel]]
          /\ lock' = [u \in Ulb |-> IF u \in Removed(e) /\ lock[u] = b THEN NoBatch ELSE lock[u]]
          /\ child' = child /\ edit' = [edit EXCEPT ![e] = [IdleEdit EXCEPT !.pc = "done"]]
      BY <1>0, <2>3 DEF CommitEdit, EditEnd
    <3>2. batch'[b].content = edit[e].sel
      <4>1. batch'[b] = [batch[b] EXCEPT !.content = edit[e].sel]  BY <1>0, <3>1
      <4>2. QED  BY <1>t, <4>1 DEF BatchDoc
    <3>3. edit'[e].pc = "done"  BY <1>0, <3>1 DEF IdleEdit
    <3>4. /\ child[b] = edit[e].sel /\ edit[e].old = batch[b].content
          /\ LocksOf(b) = batch[b].content \cup edit[e].sel
      BY <1>1, <2>1 DEF Progress
    <3>5. LocksOf(b)' = LocksOf(b) \ Removed(e)  BY <1>3, <3>1, StoreAssumption
    <3>6. LocksOf(b)' = edit[e].sel  BY <3>4, <3>5 DEF Removed
    <3>7. Whole(b)'  BY <2>1, <3>1, <3>2, <3>4, <3>6 DEF Whole
    <3>8. QED  BY <3>3, <3>7, WorkingIs DEF Leaves
  <2>4. QED  BY SMTT(30), <1>10, <2>2, <2>3 DEF Commit
<1>11. QED  BY <1>4, <1>5, <1>6, <1>7, <1>8, <1>9, <1>10

\* Opening an edit and being refused the lock touch nothing.
LEMMA OutsideKeepsWhole ==
  ASSUME LetterTyped, WholeInv, NEW e \in Editor,
         \/ \E b \in Batch, S \in SUBSET Ulb : Open(e, b, S)
         \/ Claim(e) /\ ~Editable(edit[e].on, edit[e].revision)
  PROVE  WholeInv'
<1>0. edit \in [Editor -> EditState]  BY DEF LetterTyped, LetterTypeOK, EditTypeOK
<1>1. UNCHANGED dstore /\ edit[e].pc \notin Working
  BY WorkingIs DEF Open, Claim, EditAt, dstore
<1>2. edit'[e].pc \notin Working /\ \A d \in Editor \ {e} : edit'[d] = edit[d]
  <2>1. ASSUME NEW b \in Batch, NEW S \in SUBSET Ulb, Open(e, b, S)
        PROVE  edit'[e].pc \notin Working /\ \A d \in Editor \ {e} : edit'[d] = edit[d]
    <3> DEFINE q == [IdleEdit EXCEPT !.pc = "claim", !.on = b, !.sel = S,
                                     !.revision = draft[b].revision]
    <3>1. q.pc = "claim"  BY DEF IdleEdit
    <3>2. edit' = [edit EXCEPT ![e] = q]  BY <2>1 DEF Open
    <3> HIDE DEF q
    <3>3. QED  BY <1>0, <3>1, <3>2, WorkingIs
  <2>2. CASE Claim(e) /\ ~Editable(edit[e].on, edit[e].revision)
    <3>1. EditEnd(e, "failed")  BY <2>2 DEF Claim
    <3>2. QED  BY <1>0, <3>1, WorkingIs DEF EditEnd, IdleEdit
  <2>3. QED  BY <2>1, <2>2
<1>3. UNCHANGED <<batch, child, lock>>  BY <1>1 DEF dstore, store
<1>4. \A b \in Batch : InProgressOrReview(b)' =>
        /\ InProgressOrReview(b)
        /\ batch'[b].content = batch[b].content /\ child'[b] = child[b]
        /\ \A u \in Ulb : lock'[u] = b <=> lock[u] = b
  BY <1>3 DEF InProgressOrReview, Ready
<1>5. \A d \in Editor : /\ edit'[d].pc \in Working <=> edit[d].pc \in Working
                        /\ edit[d].pc \in Working => edit'[d] = edit[d]
  BY <1>1, <1>2
<1>6. QED  BY <1>4, <1>5, AllStayWhole

\* An edit takes the lock of a draft that nobody works on, so of a whole one.
LEMMA ClaimGoesWell ==
  ASSUME LetterTyped, LeaseInv, WholeInv, NEW e \in Editor, Claim(e),
         Editable(edit[e].on, edit[e].revision)
  PROVE  WholeInv'
<1>0. edit \in [Editor -> EditState] /\ edit[e] \in EditState
  BY DEF LetterTyped, LetterTypeOK, EditTypeOK
<1>1. PICK b \in Batch : b = edit[e].on  BY DEF LetterTyped, EditShape, Claim, EditAt
<1>2. /\ LeaseFree(b) /\ EditGoto(e, "read") /\ UNCHANGED store
      /\ \A c \in Batch \ {b} : draft'[c] = draft[c]
      /\ edit[e].pc \notin Working
  BY <1>1, WorkingIs DEF Claim, Editable, EditAt, LetterTyped, LetterTypeOK, EditTypeOK, DraftTypeOK
<1>3. \A d \in Editor : ~WorksOn(d, b)
  BY <1>2, DraftAssumption DEF LeaseInv, ClaimInv, WorkerHoldsLease, LeaseFree, WorksOn
<1>4. /\ edit'[e].pc = "read" /\ edit'[e].on = b
      /\ \A d \in Editor \ {e} : edit'[d] = edit[d]
  BY <1>0, <1>1, <1>2 DEF EditGoto, EditState
<1>5. OnlyTouches(b) /\ UNCHANGED <<batch, child, lock>>  BY <1>2 DEF OnlyTouches, store
<1>6. ASSUME InProgressOrReview(b)'  PROVE Leaves(e, b)'
  <2>1. Whole(b)  BY <1>3, <1>5, <1>6 DEF WholeInv, InProgressOrReview, Ready
  <2>2. batch'[b].content # {} /\ child'[b] = batch'[b].content /\ LocksOf(b)' = batch'[b].content
    BY <1>5, <2>1 DEF Whole, LocksOf
  <2>3. ProgressOn(e, b)'  BY <1>4, <2>2 DEF ProgressOn, Progress
  <2>4. QED  BY <1>4, <2>3, WorkingIs DEF Leaves
<1>7. QED  BY <1>2, <1>3, <1>4, <1>5, <1>6, WholeFrame

\* An edit at work goes on well, whichever of the failures meets it that its compensation mends.
LEMMA WorkKeepsWhole ==
  ASSUME LetterTyped, DocsInv, LeaseInv, WholeInv, NEW e \in Editor, edit[e].pc \in Working,
         EditWork(e) \/ Mended(e), UNCHANGED <<createOnly, subvars>>
  PROVE  WholeInv'
<1>1. PICK b \in Batch : b = edit[e].on  BY DEF LetterTyped, EditShape
<1>2. WorksOn(e, b) /\ EditStep(e)  BY <1>1 DEF WorksOn, EditStep, Mended
<1>3. UNCHANGED dstore \/ EditedDraft(b)  BY <1>1, <1>2, EditWrites
<1>4. \A d \in Editor \ {e} : edit'[d] = edit[d] /\ ~WorksOn(d, b)
  BY <1>2, EditGoesOn, OneWorker DEF LeaseInv, ClaimInv, WorksOn
<1>5. edit'[e].pc \in Working => edit'[e].on = b
  BY <1>1, <1>2, EditGoesOn, WorkingIs
<1>6. ASSUME InProgressOrReview(b)'  PROVE Leaves(e, b)'
  <2>1. InProgressOrReview(b)
    BY <1>3, <1>6 DEF EditedDraft, PublishedStep, InProgressOrReview, Ready, dstore, store
  <2>2. ProgressOn(e, b)  BY <1>2, <2>1 DEF WholeInv
  <2>3. EditsOnReady  BY DEF DocsInv
  <2>4. CASE \/ AddLocks(e) \/ DeleteChildren(e) \/ Undo(e) \/ ReleaseAddedLocks(e)
             \/ \E C \in SUBSET Ulb : PersistRows(e, C) \/ RestoreRows(e, C)
             \/ Commit(e)
    BY <1>2, <2>2, <2>3, <2>4, WriteGoesWell
  <2>5. CASE \/ ReadChildren(e) \/ Refuse(e) \/ Totals(e) \/ Verify(e) \/ ReleaseEditLock(e)
             \/ Mended(e)
    BY <1>2, <2>2, <2>5, StillGoesWell
  <2>6. QED  BY <2>4, <2>5, WorkingIs DEF EditWork, Open, Claim, EditAt
<1>7. OnlyTouches(b) \/ UNCHANGED dstore  BY <1>3 DEF EditedDraft, PublishedStep
<1>8. QED  BY <1>1, <1>4, <1>5, <1>6, <1>7, WholeFrame

\* So with every step of an edit.
LEMMA EditKeepsWhole ==
  ASSUME LetterTyped, DocsInv, LeaseInv, WholeInv, NEW e \in Editor,
         EditWork(e) \/ Mended(e), UNCHANGED <<createOnly, subvars>>
  PROVE  WholeInv'
<1>1. CASE edit[e].pc \in Working  BY <1>1, WorkKeepsWhole
<1>2. CASE edit[e].pc \notin Working
  <2>1. (\E b \in Batch, S \in SUBSET Ulb : Open(e, b, S)) \/ Claim(e)
    BY <1>2, WorkingIs DEF EditWork, Mended, EditStepFails, ReadChildren, Refuse, AddLocks,
       LockAdded, DeleteChildren, PersistRows, RestoreRows, Totals, Verify, Commit, CommitEdit, Undo,
       ReleaseAddedLocks, ReleaseEditLock, EditAt, Working
  <2>2. QED  BY SMTT(30), <2>1, OutsideKeepsWhole, ClaimGoesWell
<1>3. QED  BY <1>1, <1>2

\* The end of a lease changes no ULB, row or lock.
LEMMA ExpiryKeepsWhole ==
  ASSUME WholeInv, NEW b \in Batch, LeaseExpires(b)
  PROVE  WholeInv'
<1>1. UNCHANGED <<batch, child, lock, edit>>  BY DEF LeaseExpires, store
<1>2. QED  BY <1>1, AllStayWhole DEF InProgressOrReview, Ready

\* Saves, uploads, merges, submits and abandons change no ULB, row or lock of a draft they leave live.
LEMMA SubmitSparesRows ==
  ASSUME StoreTypeOK, SubmitNext
  PROVE  \A b \in Batch : InProgressOrReview(b)' =>
           /\ InProgressOrReview(b)
           /\ batch'[b].content = batch[b].content /\ child'[b] = child[b]
           /\ \A u \in Ulb : lock'[u] = b <=> lock[u] = b
<1>0. batch \in [Batch -> BatchDoc] /\ lock \in [Ulb -> Batch \cup {NoBatch}]  BY DEF StoreTypeOK
<1> DEFINE Spared(b) == InProgressOrReview(b)' =>
             /\ InProgressOrReview(b)
             /\ batch'[b].content = batch[b].content /\ child'[b] = child[b]
             /\ \A u \in Ulb : lock'[u] = b <=> lock[u] = b
<1>1. CASE UNCHANGED store
  <2>1. UNCHANGED <<batch, child, lock>>  BY <1>1 DEF store
  <2>2. QED  BY <2>1 DEF InProgressOrReview, Ready
<1>2. ASSUME NEW s \in Submitter, CommitSubmit(s), NEW b \in Batch  PROVE Spared(b)
  <2>1. UNCHANGED <<child, lock>>  BY <1>2 DEF CommitSubmit
  <2>2. \/ UNCHANGED batch
        \/ batch' = [batch EXCEPT ![sub[s].on].status = "UNDER_REVIEW_BY_MOHUA"]
    BY <1>2 DEF CommitSubmit
  <2>3. batch[b] \in BatchDoc  BY <1>0
  <2>4. /\ batch'[b].content = batch[b].content /\ batch'[b].assembly = batch[b].assembly
        /\ batch'[b].abandoned = batch[b].abandoned
    BY <1>0, <2>2, <2>3 DEF BatchDoc
  <2>5. QED  BY <2>1, <2>4 DEF InProgressOrReview, Ready
<1>3. ASSUME NEW a \in Batch, AbandonUnsubmitted(a), NEW b \in Batch  PROVE Spared(b)
  <2>1. /\ batch' = [batch EXCEPT ![a] = [batch[a] EXCEPT !.abandoned = TRUE]]
        /\ lock' = [u \in Ulb |-> IF lock[u] = a THEN NoBatch ELSE lock[u]]
        /\ child' = child
    BY <1>0, <1>3 DEF AbandonUnsubmitted, AbandonUnleased, AbandonDraft
  <2>2. CASE b = a
    <3>1. batch'[a] = [batch[a] EXCEPT !.abandoned = TRUE] /\ batch[a] \in BatchDoc  BY <1>0, <2>1
    <3>2. batch'[a].abandoned = TRUE  BY <3>1 DEF BatchDoc
    <3>3. QED  BY <2>2, <3>2 DEF InProgressOrReview
  <2>3. CASE b # a
    <3>1. batch'[b] = batch[b] /\ child'[b] = child[b]  BY <1>0, <2>1, <2>3
    <3>2. \A u \in Ulb : lock'[u] = b <=> lock[u] = b  BY <2>1, <2>3, StoreAssumption
    <3>3. QED  BY <3>1, <3>2 DEF InProgressOrReview, Ready
  <2>4. QED  BY <2>2, <2>3
<1>4. CASE SubmitStep
  <2>1. UNCHANGED store \/ \E s \in Submitter : CommitSubmit(s)
    BY <1>4 DEF SubmitStep, BeginSubmit, CheckActive, CheckEligible, CheckFinal, WriteDetails,
                ReadDetails, StoreMerge, StartMerge, Upload, dstore
  <2>2. QED  BY SMTT(30), <1>1, <1>2, <2>1
<1>5. QED  BY <1>3, <1>4 DEF SubmitNext

\* So what leads to a submit, and an abandon, keeps the live drafts as whole as they were.
LEMMA SubmitKeepsWhole ==
  ASSUME StoreTypeOK, WholeInv, SubmitNext, UNCHANGED edit
  PROVE  WholeInv'
<1>1. \A e \in Editor : /\ edit'[e].pc \in Working <=> edit[e].pc \in Working
                        /\ edit[e].pc \in Working => edit'[e] = edit[e]
  OBVIOUS
<1>2. QED  BY <1>1, SubmitSparesRows, AllStayWhole

\* A create publishes a whole draft, on which no edit can be working yet.
LEMMA UnpublishedKeepsWhole ==
  ASSUME LetterTyped, DocsInv, WholeInv, NEW b \in Batch, UnpublishedStep(b)
  PROVE  WholeInv'
<1>1. edit' = edit /\ ~Ready(b)  BY DEF UnpublishedStep
<1>2. \A e \in Editor : ~WorksOn(e, b)  BY <1>1 DEF DocsInv, EditsOnReady, WorksOn
<1>3. SUFFICES ASSUME NEW c \in Batch
               PROVE  InProgressOrReview(c)' =>
                        /\ Whole(c)' \/ \E e \in Editor : WorksOn(e, c)'
                        /\ \A e \in Editor : WorksOn(e, c)' => ProgressOn(e, c)'
  BY DEF WholeInv, InProgressOrReview, Whole, WorksOn, ProgressOn, Ready, LocksOf
<1>4. CASE c = b
  <2>1. Ready(b)' => Whole(b)'  BY DEF UnpublishedStep
  <2>2. QED  BY <1>1, <1>2, <1>4, <2>1 DEF InProgressOrReview, WorksOn
<1>5. CASE c # b
  <2>1. /\ batch'[c] = batch[c] /\ child'[c] = child[c]
        /\ \A u \in Ulb : lock'[u] = c <=> lock[u] = c
    BY <1>5 DEF UnpublishedStep, OnlyTouches
  <2>2. InProgressOrReview(c)' =>
          /\ InProgressOrReview(c)
          /\ batch'[c].content = batch[c].content /\ child'[c] = child[c]
          /\ \A u \in Ulb : lock'[u] = c <=> lock[u] = c
    BY <2>1 DEF InProgressOrReview, Ready
  <2>3. \A e \in Editor : /\ WorksOn(e, c)' <=> WorksOn(e, c)
                          /\ WorksOn(e, c) => edit'[e] = edit[e]
    BY <1>1 DEF WorksOn
  <2>4. InProgressOrReview(c) =>
          /\ Whole(c) \/ \E e \in Editor : WorksOn(e, c)
          /\ \A e \in Editor : WorksOn(e, c) => ProgressOn(e, c)
    BY DEF WholeInv
  <2>5. QED  BY <2>2, <2>3, <2>4, WholeStays
<1>6. QED  BY <1>4, <1>5

\* Where neither documents nor edits change, drafts are as whole as they were.
LEMMA StillKeepsWhole ==
  ASSUME WholeInv, UNCHANGED <<dstore, edit>>
  PROVE  WholeInv'
<1>1. UNCHANGED <<batch, child, lock, edit>>  BY DEF dstore, store
<1>2. QED  BY <1>1, AllStayWhole DEF InProgressOrReview, Ready

\* A step in which an edit fails only where its compensation mends it, and without an effect.
FailsMended ==
  \A e \in Editor : EditStep(e) => EditWork(e) \/ Mended(e)

\* So no commit that took effect is reported as failed: what is mended leaves the edit lock.
LEMMA MendedCommitsReported ==
  ASSUME LetterTyped, FailsMended, NEW e \in Editor
  PROVE  ~CommitMisreported(e)
<1> SUFFICES ASSUME CommitMisreported(e)  PROVE FALSE  OBVIOUS
<1>0. /\ edit \in [Editor -> EditState] /\ draft \in [Batch -> DraftDoc]
      /\ edit[e].pc \in Misreported
      /\ edit[e].pc = "commit" /\ CommitEdit(e) /\ Catch(e)
  BY DEF LetterTyped, LetterTypeOK, EditTypeOK, DraftTypeOK, CommitMisreported, CommitEdit, EditAt
<1>1. PICK b \in Batch : b = edit[e].on
  BY <1>0, WorkingIs DEF LetterTyped, EditShape
<1>2. edit'[e].pc = "undo"  BY <1>0, MisreportGoes
<1>3. draft[b].token = e /\ draft'[b].token = NoEditor
  BY <1>0, <1>1 DEF CommitEdit, CommitFits, DraftDoc
<1>4. draft' # draft  BY <1>3, DraftAssumption
<1>5. ~Mended(e)  BY <1>4 DEF Mended, EditStepFails, dstore
<1>6. ~Commit(e)
  <2>1. ASSUME EditEnd(e, "done")  PROVE FALSE
    <3>1. edit'[e].pc = "done"  BY <1>0, <2>1 DEF EditEnd, IdleEdit
    <3>2. QED  BY <1>2, <3>1
  <2>2. QED  BY <1>4, <2>1 DEF Commit, dstore
<1>7. EditWork(e) => Commit(e)
  BY <1>0 DEF EditWork, Open, Claim, ReadChildren, Refuse, AddLocks, LockAdded, DeleteChildren,
     PersistRows, RestoreRows, Totals, Verify, Undo, ReleaseAddedLocks, ReleaseEditLock, EditAt
<1>8. EditWork(e) \/ Mended(e)  BY DEF FailsMended, EditStep, WriteMisreported
<1>9. QED  BY <1>5, <1>6, <1>7, <1>8

\* Every step keeps the live drafts whole.
LEMMA WholeInvStep ==
  ASSUME LetterInv, LeaseInv, WholeInv, [LetterNext]_lvars, FailsMended
  PROVE  WholeInv'
<1>0. LetterTyped /\ LetterTyped' /\ DocsInv /\ Creates /\ StoreTypeOK
  BY LetterStepTyped DEF LetterInv, LetterTyped, LetterTypeOK, CreateTypeOK
<1>1. CASE /\ (\E r \in Batch : RequestStep(r)) \/ CleanupStep
           /\ UNCHANGED <<draft, edit, subvars>>
  <2>1. UNCHANGED dstore \/ \E b \in Batch : UnpublishedStep(b)  BY <1>0, <1>1, CreateWrites
  <2>2. UNCHANGED dstore => UNCHANGED <<dstore, edit>>  BY <1>1
  <2>3. QED  BY <1>0, <2>1, <2>2, StillKeepsWhole, UnpublishedKeepsWhole
<1>2. CASE /\ (\E e \in Editor : EditStep(e)) \/ (\E b \in Batch : LeaseExpires(b))
           /\ UNCHANGED <<createOnly, subvars>>
  BY <1>0, <1>2, EditKeepsWhole, ExpiryKeepsWhole DEF FailsMended
<1>3. CASE SubmitStep /\ UNCHANGED <<createOnly, edit>>
  BY <1>0, <1>3, SubmitKeepsWhole DEF SubmitNext
<1>4. CASE \E b \in Batch : AbandonAny(b)
  <2>1. SubmitNext /\ UNCHANGED edit
    BY <1>4 DEF AbandonAny, SubmitNext, AbandonUnsubmitted
  <2>2. QED  BY <1>0, <2>1, SubmitKeepsWhole
<1>5. CASE UNCHANGED lvars
  <2>1. UNCHANGED <<dstore, edit>>  BY <1>5 DEF lvars
  <2>2. QED  BY <2>1, StillKeepsWhole
<1>6. QED  BY <1>1, <1>2, <1>3, <1>4, <1>5 DEF LetterNext

\* No draft is live at the start.
LEMMA WholeInvInit == LetterInit => WholeInv
BY DEF LetterInit, CreateInit, StoreInit, NoDoc, WholeInv, InProgressOrReview, Ready

\* A draft on which no edit can be working is whole.
LEMMA UnheldIsWhole ==
  ASSUME LeaseInv, WholeInv, NEW b \in Batch, InProgressOrReview(b), LeaseFree(b)
  PROVE  Whole(b)
<1>1. \A e \in Editor : ~WorksOn(e, b)
  BY DraftAssumption DEF LeaseInv, ClaimInv, WorkerHoldsLease, LeaseFree, WorksOn
<1>2. QED  BY <1>1 DEF WholeInv

\* What is under review is held by no edit, so it is whole.
LEMMA ReviewedIsWhole == LetterInv /\ LeaseInv /\ WholeInv => SubmittedIsWhole
<1> SUFFICES ASSUME LetterInv, LeaseInv, WholeInv, NEW b \in Batch, Submitted(b)
             PROVE  Ready(b) /\ Whole(b)
  BY DEF SubmittedIsWhole, Whole
<1>1. Ready(b)  BY DEF LetterInv, DocsInv, Unpublished, Submitted
<1>2. ~batch[b].abandoned /\ LeaseFree(b)  BY DEF LeaseInv, SubmittedIsClosed
<1>3. QED  BY <1>1, <1>2, UnheldIsWhole DEF InProgressOrReview

\* Whenever no edit holds it, a live draft is whole: so after a create, and after every edit that
\* was refused, lost a race, or failed and was put back.
LEMMA UnheldAreWhole == LeaseInv /\ WholeInv => DraftIsWhole
BY UnheldIsWhole DEF DraftIsWhole, LeaseFree, Whole

\* The three invariants of the letters together.
OneInv == LetterInv /\ LeaseInv /\ WholeInv

\* Where edits fail only without an effect, and in the steps the code restores from, every step
\* keeps the three.
LEMMA OneInvStep ==
  ASSUME Faults \subseteq Restored \cup {"release"}, Misreported = {}
  PROVE  OneInv /\ [LetterNext]_lvars => OneInv'
<1> SUFFICES ASSUME OneInv, [LetterNext]_lvars  PROVE OneInv'  OBVIOUS
<1>1. "slow" \notin Faults /\ "crash" \notin Faults  BY DEF Restored
<1>2. \A e \in Editor : ~WriteMisreported(e)
  BY DEF WriteMisreported, LocksMisreported, CommitMisreported, RowsMisreported, UnlockMisreported
<1>3. FailsMended
  BY <1>1, <1>2 DEF FailsMended, EditStep, EditCrash, Mended, EditStepFails
<1>4. LetterInv' /\ LeaseInv'  BY <1>1, LetterInvStep, LeaseInvStep, CommitsReported DEF OneInv
<1>5. QED  BY <1>3, <1>4, WholeInvStep DEF OneInv

\* What reaches MoHUA is whole, whatever creates, edits, saves, merges, submits, abandons and
\* clean-ups interleave, on three conditions: a step of an edit fails only where the code puts the
\* draft back (and in giving the lock back), what fails has had no effect, and no edit dies or
\* outlives its lease.
THEOREM SubmittedWhole ==
  Faults \subseteq Restored \cup {"release"} /\ Misreported = {} /\ LetterSpec
    => []SubmittedIsWhole
<1> SUFFICES ASSUME Faults \subseteq Restored \cup {"release"}, Misreported = {}
             PROVE  LetterSpec => []SubmittedIsWhole
  OBVIOUS
<1>1. LetterInit => OneInv  BY LetterInvInit, LeaseInvInit, WholeInvInit DEF OneInv
<1>2. OneInv /\ [LetterNext]_lvars => OneInv'  BY OneInvStep
<1>3. OneInv => SubmittedIsWhole  BY ReviewedIsWhole DEF OneInv
<1>4. QED  BY <1>1, <1>2, <1>3, PTL DEF LetterSpec

\* Beside creates and submits too, every live draft that no edit holds is whole, on the same three
\* conditions.
THEOREM UnheldDraftsStayWhole ==
  Faults \subseteq Restored \cup {"release"} /\ Misreported = {} /\ LetterSpec => []DraftIsWhole
<1> SUFFICES ASSUME Faults \subseteq Restored \cup {"release"}, Misreported = {}
             PROVE  LetterSpec => []DraftIsWhole
  OBVIOUS
<1>1. LetterInit => OneInv  BY LetterInvInit, LeaseInvInit, WholeInvInit DEF OneInv
<1>2. OneInv /\ [LetterNext]_lvars => OneInv'  BY OneInvStep
<1>3. OneInv => DraftIsWhole  BY UnheldAreWhole DEF OneInv
<1>4. QED  BY <1>1, <1>2, <1>3, PTL DEF LetterSpec

-----------------------------------------------------------------------------
(* The three scenes of MCLetterScenes                                      *)

\* A failure shows: it takes the edit to another step, or ends it.
LEMMA FailureShows ==
  ASSUME EditTypeOK, NEW e \in Editor, EditStepFails(e) \/ WriteMisreported(e) \/ EditCrash(e)
  PROVE  edit'[e] # edit[e]
<1>0. edit \in [Editor -> EditState] /\ edit[e] \in EditState  BY DEF EditTypeOK
<1>1. EditStepFails(e) \/ EditCrash(e) => edit[e].pc \in Working
  BY DEF EditStepFails, EditCrash, Working
<1>2. ASSUME edit[e].pc \in Working, EditEnd(e, "failed")  PROVE edit'[e] # edit[e]
  <2>1. edit'[e].pc = "failed"  BY <1>0, <1>2 DEF EditEnd, IdleEdit
  <2>2. QED  BY <1>2, <2>1, WorkingIs
<1>3. CASE EditStepFails(e)
  <2>1. edit[e].pc \in Working /\ Catch(e)  BY <1>1, <1>3 DEF EditStepFails
  <2>2. CASE EditEnd(e, "failed")  BY <1>2, <2>1, <2>2
  <2>3. CASE ~EditEnd(e, "failed")
    <3>1. PICK pc \in {OnError[edit[e].pc], "unlock"}, t \in SUBSET Ulb :
            /\ edit' = [edit EXCEPT ![e].pc = pc, ![e].todo = t]
            /\ pc = "unlock" => OnError[edit[e].pc] \in {"restore", "unlock"}
      BY <1>0, <2>1, <2>3, CatchGoes
    <3>2. edit'[e].pc = pc  BY <1>0, <3>1 DEF EditState
    <3>3. pc # edit[e].pc  BY <2>1, <3>1, WorkingIs DEF OnError
    <3>4. QED  BY <3>2, <3>3
  <2>4. QED  BY <2>2, <2>3
<1>4. CASE WriteMisreported(e)
  <2>1. edit[e].pc \in Misreported /\ Catch(e)
    BY <1>4 DEF WriteMisreported, LocksMisreported, CommitMisreported, RowsMisreported,
                UnlockMisreported
  <2>2. edit[e].pc \in {"prepare", "delete", "persist", "commit", "undo", "unlock"}
    BY <2>1, FaultAssumption
  <2>3. edit'[e].pc # edit[e].pc  BY <1>0, <2>1, <2>2, MisreportGoes
  <2>4. QED  BY <2>3
<1>5. CASE EditCrash(e)  BY <1>1, <1>2, <1>5 DEF EditCrash
<1>6. QED  BY <1>3, <1>4, <1>5

\* So where only what the code restores from fails, what fails is mended.
LEMMA RestoredIsMended ==
  ASSUME EditTypeOK, FailsRestored
  PROVE  FailsMended
<1> SUFFICES ASSUME NEW e \in Editor, EditStep(e)  PROVE EditWork(e) \/ Mended(e)
  BY DEF FailsMended
<1>1. CASE edit'[e] # edit[e]  BY <1>1 DEF FailsRestored, Mended
<1>2. CASE edit'[e] = edit[e]  BY <1>2, FailureShows DEF EditStep
<1>3. QED  BY <1>1, <1>2

\* Published batches are whole.
LEMMA PublishedAreWhole ==
  ASSUME NEW gone \in SUBSET Batch, PublishedInit(gone), EditProcInit
  PROVE  WholeInv
<1>1. PICK claim \in [Batch -> (SUBSET Ulb) \ {{}}], number \in [Batch -> 1 .. MaxBatchNumber] :
        /\ \A b, c \in Batch : b # c => number[b] # number[c]
        /\ \A b, c \in Batch \ gone : b # c => claim[b] \cap claim[c] = {}
        /\ batch = [b \in Batch |->
             [NoDoc EXCEPT !.assembly = "READY", !.number = number[b], !.createdAt = number[b],
                           !.abandoned = b \in gone, !.content = claim[b]]]
        /\ child = claim
        /\ lock = [u \in Ulb |-> IF \E b \in Batch \ gone : u \in claim[b]
                                 THEN CHOOSE b \in Batch \ gone : u \in claim[b] ELSE NoBatch]
  BY DEF PublishedInit
<1>2. \A e \in Editor : edit[e].pc \notin Working  BY WorkingIs DEF EditProcInit, IdleEdit
<1>3. SUFFICES ASSUME NEW b \in Batch, InProgressOrReview(b)  PROVE Whole(b)
  BY <1>2 DEF WholeInv, WorksOn
<1>4. batch[b].content = claim[b] /\ (batch[b].abandoned <=> b \in gone)
  BY <1>1 DEF NoDoc
<1>5. b \in Batch \ gone  BY <1>3, <1>4 DEF InProgressOrReview
<1>6. ASSUME NEW u \in Ulb  PROVE lock[u] = b <=> u \in claim[b]
  <2>1. CASE \E c \in Batch \ gone : u \in claim[c]
    <3>1. PICK c : c = CHOOSE a \in Batch \ gone : u \in claim[a]  OBVIOUS
    <3>2. c \in Batch \ gone /\ u \in claim[c] /\ lock[u] = c  BY <1>1, <2>1, <3>1
    <3>3. QED  BY <1>1, <1>5, <3>2
  <2>2. CASE ~\E c \in Batch \ gone : u \in claim[c]
    BY <1>1, <1>5, <2>2, StoreAssumption
  <2>3. QED  BY <2>1, <2>2
<1>7. claim[b] \subseteq Ulb /\ claim[b] # {}  BY <1>1
<1>8. LocksOf(b) = claim[b]  BY <1>6, <1>7 DEF LocksOf
<1>9. QED  BY <1>1, <1>4, <1>7, <1>8 DEF Whole

\* Two published letters, with no edit on them, are whole.
TwoInv == SubmitTypeOK /\ SubmitShape /\ WholeInv /\ \A e \in Editor : edit[e].pc = "idle"

\* One letter from the empty database is as in the composition; of edits alone nothing is said.
ScenesInv ==
  \/ scene = "one" /\ OneInv
  \/ scene = "two" /\ TwoInv
  \/ scene = "edits"

\* Each scene starts so.
LEMMA ScenesInvInit == ScenesInit => ScenesInv
<1> SUFFICES ASSUME ScenesInit  PROVE ScenesInv  OBVIOUS
<1>1. CASE scene = "one" /\ LetterInit
  BY <1>1, LetterInvInit, LeaseInvInit, WholeInvInit DEF ScenesInv, OneInv
<1>2. CASE scene = "two" /\ SubmitInit /\ EditProcInit
  <2>1. SubmitTypeOK  BY <1>2, SubmitInitTyped
  <2>2. SubmitShape  BY <1>2 DEF SubmitInit, SubmitProcInit, SubmitShape, InFlight, IdleSub
  <2>3. WholeInv  BY <1>2, PublishedAreWhole DEF SubmitInit
  <2>4. \A e \in Editor : edit[e].pc = "idle"  BY <1>2 DEF EditProcInit, IdleEdit
  <2>5. QED  BY <1>2, <2>1, <2>2, <2>3, <2>4 DEF ScenesInv, TwoInv
<1>3. QED  BY <1>1, <1>2 DEF ScenesInit, ScenesInv

\* Each step keeps it, and the scene.
LEMMA ScenesInvStep ==
  "slow" \notin Faults /\ ScenesInv /\ [ScenesNext]_<<lvars, scene>> => ScenesInv'
<1> SUFFICES ASSUME "slow" \notin Faults, ScenesInv, [ScenesNext]_<<lvars, scene>>
             PROVE  ScenesInv'
  OBVIOUS
<1>0. scene' = scene  BY DEF ScenesNext
<1>1. CASE scene = "one"
  <2>1. OneInv /\ EditTypeOK
    BY <1>1 DEF ScenesInv, OneInv, LetterInv, LetterTyped, LetterTypeOK
  <2>2. [LetterNext]_lvars  BY <1>1 DEF ScenesNext
  <2>3. FailsRestored
    <3>1. CASE UNCHANGED lvars
      <4>1. edit' = edit  BY <3>1 DEF lvars
      <4>2. QED  BY <4>1 DEF FailsRestored
    <3>2. QED  BY <1>1, <3>1 DEF ScenesNext
  <2>4. FailsMended  BY <2>1, <2>3, RestoredIsMended
  <2>5. OneInv'
    <3>1. \A e \in Editor : ~CommitMisreported(e)
      BY <2>1, <2>4, MendedCommitsReported DEF OneInv, LetterInv
    <3>2. QED  BY <2>1, <2>2, <2>4, <3>1, LetterInvStep, LeaseInvStep, WholeInvStep DEF OneInv
  <2>6. QED  BY <1>0, <1>1, <2>5 DEF ScenesInv
<1>2. CASE scene = "two"
  <2>1. TwoInv /\ StoreTypeOK  BY <1>2 DEF ScenesInv, TwoInv, SubmitTypeOK, DraftTypeOK
  <2>2. (SubmitNext /\ UNCHANGED edit) \/ UNCHANGED lvars  BY <1>2 DEF ScenesNext
  <2>3. [SubmitNext]_svars /\ edit' = edit
    BY <2>2 DEF lvars, svars
  <2>4. SubmitTypeOK' /\ SubmitShape'  BY <2>1, <2>3, SubmitStepTyped DEF TwoInv
  <2>5. WholeInv'
    <3>1. CASE UNCHANGED lvars
      <4>1. UNCHANGED <<dstore, edit>>  BY <3>1 DEF lvars
      <4>2. QED  BY <2>1, <4>1, StillKeepsWhole DEF TwoInv
    <3>2. CASE SubmitNext /\ UNCHANGED edit  BY <2>1, <3>2, SubmitKeepsWhole DEF TwoInv
    <3>3. QED  BY <2>2, <3>1, <3>2
  <2>6. TwoInv'  BY <2>1, <2>3, <2>4, <2>5 DEF TwoInv
  <2>7. QED  BY <1>0, <1>2, <2>6 DEF ScenesInv
<1>3. CASE scene = "edits"  BY <1>0, <1>3 DEF ScenesInv
<1>4. QED  BY <1>1, <1>2, <1>3 DEF ScenesInv

\* In the scenes with creates or submits, a live draft that no edit holds is whole: its rows, its
\* content hash and its locks name the same ULBs, whatever create, edit, abandon and submit it met,
\* where the steps of edits fail without an effect, and only where the code puts the draft back, and
\* none outlives its lease.
THEOREM DraftsWhole == "slow" \notin Faults /\ ScenesSpec => []DraftIsWholeIfRestored
<1> SUFFICES ASSUME "slow" \notin Faults  PROVE ScenesSpec => []DraftIsWholeIfRestored  OBVIOUS
<1>1. ScenesInit => ScenesInv  BY ScenesInvInit
<1>2. ScenesInv /\ [ScenesNext]_<<lvars, scene>> => ScenesInv'  BY ScenesInvStep
<1>3. ScenesInv => DraftIsWholeIfRestored
  <2> SUFFICES ASSUME ScenesInv, scene # "edits",
                      NEW b \in Batch, InProgressOrReview(b), draft[b].token = NoEditor
               PROVE  Whole(b)
    BY DEF DraftIsWholeIfRestored, DraftIsWhole, Whole
  <2>1. CASE scene = "one" /\ OneInv  BY <2>1, UnheldIsWhole DEF OneInv, LeaseFree
  <2>2. CASE scene = "two" /\ TwoInv  BY <2>2, WorkingIs DEF TwoInv, WholeInv, WorksOn
  <2>3. QED  BY <2>1, <2>2 DEF ScenesInv
<1>4. QED  BY <1>1, <1>2, <1>3, PTL DEF ScenesSpec
=============================================================================
