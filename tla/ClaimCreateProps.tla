---------------------------- MODULE ClaimCreateProps ----------------------------
(***************************************************************************)
(* What the create pipeline and its clean-up promise.                       *)
(***************************************************************************)
EXTENDS ClaimCreate

\* No lock outlives the claim it stands for: whatever crashed, was rolled back, reclaimed or
\* abandoned, a locked ULB belongs to a batch document that exists and was not abandoned.
LocksAreBacked ==
  \A u \in Ulb : lock[u] # NoBatch => Exists(lock[u]) /\ ~batch[lock[u]].abandoned

\* A published batch is whole: it has exactly the child rows its content hash was computed from,
\* and it owns the lock of each of those ULBs and of no other. A clean-up that took it for a
\* dead build, or a build finishing after its locks were reclaimed, would break this.
ReadyIsWhole ==
  \A b \in Batch : InProgressOrReview(b) =>
    /\ child[b] = batch[b].content
    /\ LocksOf(b) = batch[b].content
    /\ batch[b].content # {}

\* The claim slots of an installment: batches that hold one hold different ones, all within the
\* limit, although every create picked its number from an older snapshot.
SlotsAreDistinct ==
  \A b, c \in Batch : HoldsSlot(b) /\ HoldsSlot(c) =>
    /\ batch[b].number \in 1 .. MaxBatchNumber
    /\ batch[b].number = batch[c].number => b = c

\* A retry with the same idempotency key never leaves a second batch behind (ADR 0001).
OneBatchPerKey ==
  \A b, c \in Batch : Exists(b) /\ Exists(c) /\ batch[b].key = batch[c].key => b = c

\* Both, since one insert decides them: of creates that race for a slot or repeat a key, each from
\* its own snapshot, one makes the document and the others are refused or answered with it.
BatchesAreDistinct == SlotsAreDistinct /\ OneBatchPerKey

\* A create answered with success points at a published batch of its own key, also when the row
\* is somebody else's finished build or was reclaimed while the request was running.
SuccessMeansReady ==
  \A r \in Batch : At(r, "done") =>
    /\ req[r].result # NoBatch
    /\ Ready(req[r].result)
    /\ batch[req[r].result].key = req[r].key

\* The audit rows of a batch tell its story: none before it is published, then its creation, then
\* its abandoning, each once.
AuditTrail ==
  \A b \in Batch :
    history[b] = IF ~Ready(b) THEN <<>>
                 ELSE IF batch[b].abandoned THEN <<"CREATED", "ABANDONED">>
                 ELSE <<"CREATED">>

\* A batch that was published stays published with the same content: no reclaim, cron run or
\* rollback deletes it, however late it comes.
ReadyIsNeverLost ==
  [][\A b \in Batch : Ready(b) => Ready(b)' /\ batch'[b].content = batch[b].content]_cvars

\* A build that crashed or hangs does not hold its slot and its ULBs for ever (ADR 0002).
BuildsResolve == \A b \in Batch : Building(b) ~> ~Building(b)

-----------------------------------------------------------------------------
(* The pipeline implements the ledger                                      *)

PhaseOf(d) ==
  CASE d.assembly = "none"                     -> "unused"
    [] d.assembly = "BUILDING"                 -> "building"
    [] d.assembly = "READY" /\ ~d.abandoned    -> "published"
    [] d.assembly = "READY" /\ d.abandoned     -> "withdrawn"
    [] d.assembly = "deleted"                  -> "cancelled"

Ledger == INSTANCE ClaimLedger WITH
            phase  <- [b \in Batch |-> PhaseOf(batch[b])],
            holder <- lock,
            claim  <- [b \in Batch |-> batch[b].content]

\* Every step of the many-step build, of its roll-backs and of the clean-ups is one step of the
\* ledger or none: ULBs are taken and given back whole, and what is published is what is held.
ImplementsLedger == Ledger!LedgerSpec
=============================================================================
