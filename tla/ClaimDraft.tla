------------------------------ MODULE ClaimDraft ------------------------------
(***************************************************************************)
(* The fields of a READY batch document that draft mutations use, the       *)
(* edit-lock lease every one of them checks, and abandon.                   *)
(*                                                                         *)
(* editLockAcquiredAt is represented by `expired`: the lease was taken more *)
(* than CLAIM_LETTER_EDIT_LOCK_LEASE_MINUTES ago.                           *)
(***************************************************************************)
EXTENDS ClaimStore

CONSTANTS
  Editor,       \* update requests (PATCH .../draft), each with its own edit token
  NoEditor,     \* editLockToken = null
  Path,         \* paths of uploaded signed letters
  NoPath        \* signedClaimFile = null

ASSUME DraftAssumption == NoEditor \notin Editor /\ NoPath \notin Path

VARIABLE draft  \* draft[b]: the mutable draft fields of b

dstore == <<store, draft>>

\* pdf is finalClaimPdf.sourceKey: the inputs the stored merge was made from, or NoPath for none.
DraftDoc ==
  [revision : Nat, token : Editor \cup {NoEditor}, expired : BOOLEAN,
   signed : Path \cup {NoPath}, details : Nat, pdf : Path \cup {NoPath}]

NewDraft ==
  [revision |-> 0, token |-> NoEditor, expired |-> FALSE, signed |-> NoPath,
   details |-> 0, pdf |-> NoPath]

DraftTypeOK == StoreTypeOK /\ draft \in [Batch -> DraftDoc]

\* The filter of every guarded draft write: no edit lock, or one whose lease ran out.
LeaseFree(b) == draft[b].token = NoEditor \/ draft[b].expired

\* abandonDraftRaw refuses while an edit holds the lease.
AbandonUnleased(b) == LeaseFree(b) /\ AbandonDraft(b) /\ UNCHANGED draft

\* Batches as the create pipeline publishes them: whole, with disjoint ULBs (ClaimCreate). Those in
\* `gone` have been abandoned since, and what they claimed may have gone to the others.
PublishedInit(gone) ==
  /\ \E claim \in [Batch -> (SUBSET Ulb) \ {{}}], number \in [Batch -> 1 .. MaxBatchNumber] :
       /\ \A b, c \in Batch : b # c => number[b] # number[c]
       /\ \A b, c \in Batch \ gone : b # c => claim[b] \cap claim[c] = {}
       /\ batch = [b \in Batch |->
            [NoDoc EXCEPT !.assembly = "READY", !.number = number[b], !.createdAt = number[b],
                          !.abandoned = b \in gone, !.content = claim[b]]]
       /\ child = claim
       /\ lock = [u \in Ulb |-> IF \E b \in Batch \ gone : u \in claim[b]
                                THEN CHOOSE b \in Batch \ gone : u \in claim[b] ELSE NoBatch]
  /\ history = [b \in Batch |-> IF b \in gone THEN <<"CREATED", "ABANDONED">> ELSE <<"CREATED">>]
  /\ clock = MaxBatchNumber + 1
  /\ draft = [b \in Batch |-> NewDraft]
=============================================================================
