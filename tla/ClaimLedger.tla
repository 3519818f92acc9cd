------------------------------ MODULE ClaimLedger ------------------------------
(***************************************************************************)
(* What batches and locks promise, without the pipeline that implements it: *)
(* a ledger in which a ULB is held by at most one batch, a batch is         *)
(* published with exactly the ULBs it holds, or cancelled whole, and a      *)
(* published one gives its ULBs back only by being withdrawn.               *)
(***************************************************************************)
CONSTANTS Batch, Ulb, NoBatch

VARIABLES
  phase,    \* phase[b]: where batch b is in its life
  holder,   \* holder[u]: the batch that holds ULB u, or NoBatch
  claim     \* claim[b]: the ULBs a published batch claims

ledger == <<phase, holder, claim>>

Held(b) == {u \in Ulb : holder[u] = b}
LetGo(b) == holder' = [u \in Ulb |-> IF holder[u] = b THEN NoBatch ELSE holder[u]]
Move(b, from, to) == phase[b] = from /\ phase' = [phase EXCEPT ![b] = to]

LedgerInit ==
  /\ phase = [b \in Batch |-> "unused"]
  /\ holder = [u \in Ulb |-> NoBatch]
  /\ claim = [b \in Batch |-> {}]

\* All of the ULBs or none of them.
HoldUlbs(b, S) ==
  /\ Move(b, "unused", "building")
  /\ S # {} /\ \A u \in S : holder[u] = NoBatch
  /\ holder' = [u \in Ulb |-> IF u \in S THEN b ELSE holder[u]]
  /\ UNCHANGED claim

Publish(b) ==
  /\ Move(b, "building", "published")
  /\ claim' = [claim EXCEPT ![b] = Held(b)]
  /\ UNCHANGED holder

Cancel(b) == Move(b, "building", "cancelled") /\ LetGo(b) /\ UNCHANGED claim

Withdraw(b) == Move(b, "published", "withdrawn") /\ LetGo(b) /\ UNCHANGED claim

LedgerNext ==
  \E b \in Batch :
    Publish(b) \/ Cancel(b) \/ Withdraw(b) \/ \E S \in SUBSET Ulb : HoldUlbs(b, S)

LedgerSpec == LedgerInit /\ [][LedgerNext]_ledger
=============================================================================
