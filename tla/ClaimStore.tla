------------------------------ MODULE ClaimStore ------------------------------
(***************************************************************************)
(* The MongoDB collections of the State claim letter, for one              *)
(* (state, year, installment), and the writes several services share.      *)
(*                                                                         *)
(*  - claim_letter_batches : a batch document, named here after the create *)
(*    request that inserted it (a request inserts at most one, and an      *)
(*    ObjectId is never reused);                                           *)
(*  - claim_letter_ulb_locks : at most one lock document per ULB, because  *)
(*    of the unique index, so the collection is a function from ULBs;      *)
(*  - claim_letter_batch_ulbs : the child rows, unique per (batch, ULB);   *)
(*  - claim_letter_batch_history : the audit rows of a batch, in order.    *)
(*                                                                         *)
(* A multi-document transaction is one step. contentHash, a hash of the    *)
(* batch's ULBs, is represented by the set of ULBs it was computed from.   *)
(* Amounts, snapshots and evidence of a child row are abstracted away.     *)
(***************************************************************************)
EXTENDS Naturals, Sequences, FiniteSets

CONSTANTS
  Batch,            \* batch documents = the create requests that insert them
  Ulb,              \* urban local bodies of the State
  Key,              \* idempotency keys (buildRequestId)
  NoKey,            \* key of a document that was never inserted
  NoBatch,          \* "no lock document" for a ULB
  MaxBatchNumber    \* CLAIM_LETTER_MAX_BATCH_NUMBER, 3 in the code

ASSUME StoreAssumption ==
  /\ NoBatch \notin Batch
  /\ NoKey \notin Key
  /\ MaxBatchNumber \in Nat \ {0}

VARIABLES
  batch,    \* batch[b]: the batch document b
  lock,     \* lock[u]: the batch whose lock document ULB u has, or NoBatch
  child,    \* child[b]: ULBs that have a child row with claimLetter = b
  history,  \* history[b]: transitions recorded for b
  clock     \* next createdAt

store == <<batch, lock, child, history, clock>>

\* "none": never inserted; "deleted": inserted and removed again.
AssemblyStatus == {"none", "BUILDING", "READY", "deleted"}

\* The two statuses this version of the code gives a batch (FORM_STATUS 2 and 5).
FormStatus == {"IN_PROGRESS", "UNDER_REVIEW_BY_MOHUA"}

Transition == {"CREATED", "SUBMITTED", "ABANDONED"}

BatchDoc ==
  [assembly : AssemblyStatus, number : 0 .. MaxBatchNumber, key : Key \cup {NoKey},
   createdAt : Nat, stale : BOOLEAN, status : FormStatus, abandoned : BOOLEAN,
   content : SUBSET Ulb]

NoDoc ==
  [assembly |-> "none", number |-> 0, key |-> NoKey, createdAt |-> 0,
   stale |-> FALSE, status |-> "IN_PROGRESS", abandoned |-> FALSE, content |-> {}]

DeletedDoc == [NoDoc EXCEPT !.assembly = "deleted"]

StoreTypeOK ==
  /\ batch \in [Batch -> BatchDoc]
  /\ lock \in [Ulb -> Batch \cup {NoBatch}]
  /\ child \in [Batch -> SUBSET Ulb]
  /\ history \in [Batch -> Seq(Transition)]
  /\ clock \in Nat

StoreInit ==
  /\ batch = [b \in Batch |-> NoDoc]
  /\ lock = [u \in Ulb |-> NoBatch]
  /\ child = [b \in Batch |-> {}]
  /\ history = [b \in Batch |-> <<>>]
  /\ clock = 0

-----------------------------------------------------------------------------
(* Documents                                                               *)

Exists(b)   == batch[b].assembly \in {"BUILDING", "READY"}
Building(b) == batch[b].assembly = "BUILDING"
Ready(b)    == batch[b].assembly = "READY"

\* The partial unique index on {state, year, installment, batchNumber, version}
\* covers the documents whose isAbandoned is false.
HoldsSlot(b) == Exists(b) /\ ~batch[b].abandoned

LocksOf(b) == {u \in Ulb : lock[u] = b}

\* ClaimLetterActiveBatchService: READY, not abandoned, in an active status
\* (both modelled statuses are active); the earliest created one is THE active batch.
InProgressOrReview(b) == Ready(b) /\ ~batch[b].abandoned

IsActiveBatch(b) ==
  /\ InProgressOrReview(b)
  /\ \A c \in Batch : InProgressOrReview(c) => batch[b].createdAt <= batch[c].createdAt

\* Mutant: only a batch already under review blocks.
UnblockedByReview(b) == \A c \in Batch : batch[c].status = "UNDER_REVIEW_BY_MOHUA" => c = b

\* assertActive, of a batch that was itself active when it was read: no other one is THE active one.
Unblocked(b) == \A c \in Batch : IsActiveBatch(c) => c = b

\* assertCanCreate: no batch is active.
NoActiveBatch == \A b \in Batch : ~InProgressOrReview(b)

-----------------------------------------------------------------------------
(* Writes shared by several services                                       *)

\* Mutant: the delete of the parent is not filtered on BUILDING.
DeleteAnyArtifacts(b) ==
  /\ batch' = IF Exists(b) THEN [batch EXCEPT ![b] = DeletedDoc] ELSE batch
  /\ child' = [child EXCEPT ![b] = {}]
  /\ lock' = [u \in Ulb |-> IF lock[u] = b THEN NoBatch ELSE lock[u]]
  /\ UNCHANGED <<history, clock>>

\* Mutant: rows and locks are deleted also when no parent matched.
DeleteArtifactsAnyway(b) ==
  /\ batch' = IF Building(b) THEN [batch EXCEPT ![b] = DeletedDoc] ELSE batch
  /\ child' = [child EXCEPT ![b] = {}]
  /\ lock' = [u \in Ulb |-> IF lock[u] = b THEN NoBatch ELSE lock[u]]
  /\ UNCHANGED <<history, clock>>

\* deleteBuildingParentArtifacts: the parent goes first, filtered on BUILDING; only when that
\* delete matched do its child rows and its own locks go too.
DeleteBuildingArtifacts(b) ==
  IF Building(b)
  THEN /\ batch' = [batch EXCEPT ![b] = DeletedDoc]
       /\ child' = [child EXCEPT ![b] = {}]
       /\ lock' = [u \in Ulb |-> IF lock[u] = b THEN NoBatch ELSE lock[u]]
       /\ UNCHANGED <<history, clock>>
  ELSE UNCHANGED store

\* recordTransition, always in the transaction of the write it records.
Record(b, t) == history' = [history EXCEPT ![b] = Append(@, t)]

\* Mutant: the locks stay.
AbandonKeepingLocks(b) ==
  /\ Ready(b)
  /\ batch[b].status = "IN_PROGRESS"
  /\ ~batch[b].abandoned
  /\ batch' = [batch EXCEPT ![b].abandoned = TRUE]
  /\ Record(b, "ABANDONED")
  /\ UNCHANGED <<child, lock, clock>>

\* Mutant: an abandoned batch is abandoned again.
AbandonAgain(b) ==
  /\ Ready(b)
  /\ batch[b].status = "IN_PROGRESS"
  /\ batch' = [batch EXCEPT ![b].abandoned = TRUE]
  /\ lock' = [u \in Ulb |-> IF lock[u] = b THEN NoBatch ELSE lock[u]]
  /\ Record(b, "ABANDONED")
  /\ UNCHANGED <<child, clock>>

\* Mutant: the status is not in the filter.
AbandonAnyStatus(b) ==
  /\ Ready(b)
  /\ ~batch[b].abandoned
  /\ batch' = [batch EXCEPT ![b].abandoned = TRUE]
  /\ lock' = [u \in Ulb |-> IF lock[u] = b THEN NoBatch ELSE lock[u]]
  /\ Record(b, "ABANDONED")
  /\ UNCHANGED <<child, clock>>

\* abandonDraftRaw: the guarded status write, the release of every lock of the batch and the audit
\* row commit together. The read before the transaction only chooses the error answer.
AbandonDraft(b) ==
  /\ Ready(b)
  /\ batch[b].status = "IN_PROGRESS"
  /\ ~batch[b].abandoned
  /\ batch' = [batch EXCEPT ![b].abandoned = TRUE]
  /\ lock' = [u \in Ulb |-> IF lock[u] = b THEN NoBatch ELSE lock[u]]
  /\ Record(b, "ABANDONED")
  /\ UNCHANGED <<child, clock>>
=============================================================================
