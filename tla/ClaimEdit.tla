------------------------------ MODULE ClaimEdit ------------------------------
(***************************************************************************)
(* ClaimLetterAssemblyService.updateDraft: the diff-based edit of a draft,  *)
(* its compensation, and abandon, over batches the create pipeline has      *)
(* published.                                                               *)
(*                                                                         *)
(* An update request is a process. It takes the edit lock, locks the ULBs   *)
(* it adds, deletes the child rows and inserts the new ones outside any     *)
(* transaction, and commits; the failure of any step undoes what came       *)
(* before, as far as the code does.                                         *)
(*                                                                         *)
(* Faults names the failures a run includes: the steps (see OnError) whose  *)
(* database call may fail without an effect, and                            *)
(*   "crash"  the server process dies in the middle of an edit;             *)
(*   "slow"   an edit takes longer than its lease.                          *)
(* Misreported names the steps whose write may take effect (outside of a    *)
(* transaction also in part) and be reported to the request as failed.      *)
(***************************************************************************)
EXTENDS ClaimDraft

CONSTANTS Faults, Misreported

VARIABLE edit   \* edit[e]: the update request e and its local variables

evars == <<dstore, edit>>

EditPc == {"idle", "claim", "read", "prepare", "delete", "persist", "totals", "verify", "commit",
           "undo", "restore", "unlock", "release", "done", "failed"}

EditState ==
  [pc : EditPc, on : Batch \cup {NoBatch}, revision : Nat, sel : SUBSET Ulb,
   old : SUBSET Ulb, todo : SUBSET Ulb]

IdleEdit ==
  [pc |-> "idle", on |-> NoBatch, revision |-> 0, sel |-> {}, old |-> {}, todo |-> {}]

EditTypeOK == DraftTypeOK /\ edit \in [Editor -> EditState]

EditProcInit == edit = [e \in Editor |-> IdleEdit]

EditInit == PublishedInit({}) /\ EditProcInit

EditAt(e, pc) == edit[e].pc = pc
EditGoto(e, pc) == edit' = [edit EXCEPT ![e].pc = pc]
EditEnd(e, pc) == edit' = [edit EXCEPT ![e] = [IdleEdit EXCEPT !.pc = pc]]

Added(e)   == edit[e].sel \ edit[e].old
Removed(e) == edit[e].old \ edit[e].sel

-----------------------------------------------------------------------------
\* A user opens a draft at its current revision and asks for the ULBs S; the request reads the
\* batch, which is READY.
Open(e, b, S) ==
  /\ EditAt(e, "idle")
  /\ Ready(b)
  /\ S # {}
  /\ edit' = [edit EXCEPT ![e] = [IdleEdit EXCEPT !.pc = "claim", !.on = b, !.sel = S,
                                                  !.revision = draft[b].revision]]
  /\ UNCHANGED dstore

\* Mutant: the revision the user saw is not in the filter.
EditableAnyRevision(b, rev) == Ready(b) /\ batch[b].status = "IN_PROGRESS" /\ LeaseFree(b)

\* The filter of the update that takes the edit lock. isAbandoned is not in it.
Editable(b, rev) ==
  /\ Ready(b)
  /\ batch[b].status = "IN_PROGRESS"
  /\ draft[b].revision = rev
  /\ LeaseFree(b)

Claim(e) ==
  /\ EditAt(e, "claim")
  /\ LET b == edit[e].on IN
       IF Editable(b, edit[e].revision)
       THEN /\ draft' = [draft EXCEPT ![b].token = e, ![b].expired = FALSE]
            /\ EditGoto(e, "read")
       ELSE EditEnd(e, "failed") /\ UNCHANGED draft
  /\ UNCHANGED store

\* The child rows are read whole. The same ULBs with the same amounts change nothing: the edit lock
\* is given back (at "release") and the draft returned. The same ULBs with other amounts go on.
ReadChildren(e) ==
  /\ EditAt(e, "read")
  /\ LET b == edit[e].on
         to(pc) == edit' = [edit EXCEPT ![e].pc = pc, ![e].old = child[b]]
     IN to("prepare") \/ (child[b] = edit[e].sel /\ to("release"))
  /\ UNCHANGED dstore

\* prepareChildren may refuse; addLocks inserts one lock per added ULB or none of them.
Refuse(e) ==
  /\ EditAt(e, "prepare")
  /\ EditGoto(e, "release")
  /\ UNCHANGED dstore

LockAdded(e) ==
  /\ EditAt(e, "prepare")
  /\ \A u \in Added(e) : lock[u] = NoBatch
  /\ lock' = [u \in Ulb |-> IF u \in Added(e) THEN edit[e].on ELSE lock[u]]
  /\ UNCHANGED <<batch, child, history, clock, draft>>

AddLocks(e) == LockAdded(e) /\ EditGoto(e, "delete")

\* Mutant: the locks of removed ULBs go with their rows, before the commit.
DeleteChildrenAndLocks(e) ==
  /\ EditAt(e, "delete")
  /\ child' = [child EXCEPT ![edit[e].on] = {}]
  /\ lock' = [u \in Ulb |-> IF u \in Removed(e) /\ lock[u] = edit[e].on THEN NoBatch ELSE lock[u]]
  /\ edit' = [edit EXCEPT ![e].pc = "persist", ![e].todo = edit[e].sel]
  /\ UNCHANGED <<batch, history, clock, draft>>

\* deleteMany of the child rows of the batch.
DeleteChildren(e) ==
  /\ EditAt(e, "delete")
  /\ child' = [child EXCEPT ![edit[e].on] = {}]
  /\ edit' = [edit EXCEPT ![e].pc = "persist", ![e].todo = edit[e].sel]
  /\ UNCHANGED <<batch, lock, history, clock, draft>>

\* Unordered bulk inserts of the rows C. A row already there is a duplicate-key error after the
\* others went in, and the edit goes to `onError` with the rows R still to insert.
InsertRows(e, C, next, onError, R) ==
  LET b == edit[e].on IN
    /\ C # {} /\ C \subseteq edit[e].todo
    /\ child' = [child EXCEPT ![b] = @ \cup C]
    /\ IF C \cap child[b] # {}
       THEN edit' = [edit EXCEPT ![e].pc = onError, ![e].todo = R]
       ELSE edit' = [edit EXCEPT ![e].todo = @ \ C,
                                 ![e].pc = IF edit[e].todo = C THEN next ELSE @]
    /\ UNCHANGED <<batch, lock, history, clock, draft>>

\* persistChildren; its own failure restores the old rows without another delete.
PersistRows(e, C) ==
  /\ EditAt(e, "persist")
  /\ InsertRows(e, C, "totals", "restore", edit[e].old)

\* finishBuildResult reads the totals of the other batches.
Totals(e) ==
  /\ EditAt(e, "totals")
  /\ EditGoto(e, "verify")
  /\ UNCHANGED dstore

\* verifyPersistedChildren: no drift (else it refuses), the requested rows and all their locks.
Verify(e) ==
  /\ EditAt(e, "verify")
  /\ \/ EditGoto(e, "undo")
     \/ /\ child[edit[e].on] = edit[e].sel
        /\ edit[e].sel \subseteq LocksOf(edit[e].on)
        /\ EditGoto(e, "commit")
  /\ UNCHANGED dstore

\* The filter of the update that commits an edit.
CommitFits(e) == batch[edit[e].on].status = "IN_PROGRESS" /\ draft[edit[e].on].token = e

\* Mutant: the signed letter of the old content is kept.
CommitEditKeepingLetter(e) ==
  LET b == edit[e].on IN
    /\ EditAt(e, "commit")
    /\ CommitFits(e)
    /\ batch' = [batch EXCEPT ![b].content = edit[e].sel]
    /\ draft' = [draft EXCEPT ![b].revision = @ + 1, ![b].token = NoEditor, ![b].expired = FALSE]
    /\ lock' = [u \in Ulb |-> IF u \in Removed(e) /\ lock[u] = b THEN NoBatch ELSE lock[u]]
    /\ UNCHANGED <<child, history, clock>>

\* One transaction, guarded by status and edit token: content, revision, the signed letter cleared,
\* the edit lock given back and the removed ULBs' locks released.
CommitEdit(e) ==
  LET b == edit[e].on IN
    /\ EditAt(e, "commit")
    /\ CommitFits(e)
    /\ batch' = [batch EXCEPT ![b].content = edit[e].sel]
    /\ draft' = [draft EXCEPT ![b].revision = @ + 1, ![b].token = NoEditor,
                              ![b].expired = FALSE, ![b].signed = NoPath]
    /\ lock' = [u \in Ulb |-> IF u \in Removed(e) /\ lock[u] = b THEN NoBatch ELSE lock[u]]
    /\ UNCHANGED <<child, history, clock>>

Commit(e) ==
  \/ CommitEdit(e) /\ EditEnd(e, "done")
  \/ EditAt(e, "commit") /\ ~CommitFits(e) /\ EditGoto(e, "undo") /\ UNCHANGED dstore

-----------------------------------------------------------------------------
(* Compensation                                                            *)

\* Mutant: the new rows are deleted and the old ones forgotten.
UndoForgetting(e) ==
  /\ EditAt(e, "undo")
  /\ child' = [child EXCEPT ![edit[e].on] = {}]
  /\ EditGoto(e, "unlock")
  /\ UNCHANGED <<batch, lock, history, clock, draft>>

\* Persisted but unconfirmed: the rows are deleted and the old ones put back.
Undo(e) ==
  /\ EditAt(e, "undo")
  /\ child' = [child EXCEPT ![edit[e].on] = {}]
  /\ edit' = [edit EXCEPT ![e].pc = IF edit[e].old = {} THEN "unlock" ELSE "restore",
                          ![e].todo = edit[e].old]
  /\ UNCHANGED <<batch, lock, history, clock, draft>>

RestoreRows(e, C) ==
  /\ EditAt(e, "restore")
  /\ InsertRows(e, C, "unlock", "unlock", {})

\* releaseAddedLocks, by batch and ULB.
ReleaseAddedLocks(e) ==
  /\ EditAt(e, "unlock")
  /\ lock' = [u \in Ulb |-> IF u \in Added(e) /\ lock[u] = edit[e].on THEN NoBatch ELSE lock[u]]
  /\ EditGoto(e, "release")
  /\ UNCHANGED <<batch, child, history, clock, draft>>

\* releaseEditLock, guarded by the token. It ends a refused or undone edit, and one without change.
ReleaseEditLock(e) ==
  /\ EditAt(e, "release")
  /\ LET b == edit[e].on IN
       IF draft[b].token = e
       THEN draft' = [draft EXCEPT ![b].token = NoEditor, ![b].expired = FALSE]
       ELSE UNCHANGED draft
  /\ EditEnd(e, "failed")
  /\ UNCHANGED store

-----------------------------------------------------------------------------
(* Failures and time                                                       *)

\* Where the catch blocks send an edit whose database call failed. The reads around "read" are in
\* no try block, and a failed release is given up: both leave the edit lock to its lease. The
\* totals are computed inside the outer try only, which does not put the old rows back.
OnError ==
  [read |-> "failed", prepare |-> "release", delete |-> "unlock", persist |-> "restore",
   totals |-> "unlock", verify |-> "undo", commit |-> "undo", undo |-> "unlock",
   restore |-> "unlock", unlock |-> "release", release |-> "failed"]

ASSUME FaultAssumption ==
  /\ Faults \subseteq DOMAIN OnError \cup {"crash", "slow"}
  /\ Misreported \subseteq {"prepare", "delete", "persist", "commit", "undo", "unlock"}

\* A database call throws and the catch blocks take over.
Catch(e) ==
  LET pc == OnError[edit[e].pc] IN
    IF pc = "failed" THEN EditEnd(e, pc)
    ELSE IF pc = "restore" /\ edit[e].old = {} THEN EditGoto(e, "unlock")
    ELSE edit' = [edit EXCEPT ![e].pc = pc,
                              ![e].todo = IF pc = "restore" THEN edit[e].old ELSE {}]

EditStepFails(e) ==
  /\ edit[e].pc \in Faults \cap DOMAIN OnError
  /\ Catch(e)
  /\ UNCHANGED dstore

\* Transactions that committed and are reported as failed. The locks of the added ULBs are left
\* behind; the content of the draft, its edit lock already given back, is undone by the catch blocks.
LocksMisreported(e) == edit[e].pc \in Misreported /\ LockAdded(e) /\ Catch(e)

CommitMisreported(e) == edit[e].pc \in Misreported /\ CommitEdit(e) /\ Catch(e)

\* deleteMany and bulkWrite run outside of any transaction: of the rows to delete or to insert, the
\* rows C are done when the call is reported as failed.
RowsMisreported(e, C) ==
  LET b == edit[e].on IN
    /\ edit[e].pc \in Misreported
    /\ \/ /\ edit[e].pc \in {"delete", "undo"} /\ C \subseteq child[b]
          /\ child' = [child EXCEPT ![b] = @ \ C]
       \/ /\ EditAt(e, "persist") /\ C \subseteq edit[e].todo
          /\ child' = [child EXCEPT ![b] = @ \cup C]
    /\ Catch(e)
    /\ UNCHANGED <<batch, lock, history, clock, draft>>

\* The deleteMany of releaseAddedLocks likewise.
UnlockMisreported(e, C) ==
  /\ edit[e].pc \in Misreported
  /\ EditAt(e, "unlock") /\ C \subseteq Added(e)
  /\ lock' = [u \in Ulb |-> IF u \in C /\ lock[u] = edit[e].on THEN NoBatch ELSE lock[u]]
  /\ Catch(e)
  /\ UNCHANGED <<batch, child, history, clock, draft>>

\* The other writes are of one document each: a claim or a release of the edit lock that took effect
\* and is reported as failed is a failed "read", or no failure at all.
WriteMisreported(e) ==
  \/ LocksMisreported(e) \/ CommitMisreported(e)
  \/ \E C \in SUBSET Ulb : RowsMisreported(e, C) \/ UnlockMisreported(e, C)

EditCrash(e) ==
  /\ "crash" \in Faults
  /\ edit[e].pc \in DOMAIN OnError
  /\ EditEnd(e, "failed")
  /\ UNCHANGED dstore

\* The lease of an edit runs out: of one that ended without giving it back, or of a slow one.
LeaseExpires(b) ==
  /\ draft[b].token # NoEditor
  /\ ~draft[b].expired
  /\ "slow" \in Faults \/ edit[draft[b].token].pc = "failed"
  /\ draft' = [draft EXCEPT ![b].expired = TRUE]
  /\ UNCHANGED <<store, edit>>

AbandonUnedited(b) == AbandonUnleased(b) /\ UNCHANGED edit

-----------------------------------------------------------------------------
EditWork(e) ==
  \/ \E b \in Batch, S \in SUBSET Ulb : Open(e, b, S)
  \/ Claim(e) \/ ReadChildren(e) \/ Refuse(e) \/ AddLocks(e) \/ DeleteChildren(e)
  \/ \E C \in SUBSET Ulb : PersistRows(e, C) \/ RestoreRows(e, C)
  \/ Totals(e) \/ Verify(e) \/ Commit(e) \/ Undo(e)
  \/ ReleaseAddedLocks(e) \/ ReleaseEditLock(e)

EditStep(e) == EditWork(e) \/ EditStepFails(e) \/ WriteMisreported(e) \/ EditCrash(e)

EditNext ==
  \/ \E e \in Editor : EditStep(e)
  \/ \E b \in Batch : AbandonUnedited(b) \/ LeaseExpires(b)

EditSpec == EditInit /\ [][EditNext]_evars
=============================================================================
