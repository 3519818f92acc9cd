----------------------------- MODULE ClaimEditProps -----------------------------
(***************************************************************************)
(* What draft edits promise, and which of it survives which failures.       *)
(***************************************************************************)
EXTENDS ClaimEdit

\* Whenever no edit holds it, a live draft is whole: its child rows, its content hash and its locks
\* name the same ULBs, whatever edits were refused, lost a race or were undone before. It holds of
\* edits that fail only without an effect, and where the code puts the draft back.
DraftIsWhole ==
  \A b \in Batch : InProgressOrReview(b) /\ draft[b].token = NoEditor =>
    child[b] = batch[b].content /\ LocksOf(b) = batch[b].content

\* A ULB the draft claims is never free, so no other batch can take it: not while an edit that
\* removes it can still fail, and not after one that failed half-way (ADR 0002), with or without an
\* effect. What breaks it is the commit of an edit that added ULBs, when it took effect and is reported
\* as failed: undoing it frees those ULBs, which the committed content claims.
ClaimedStaysLocked ==
  \A b \in Batch : InProgressOrReview(b) => batch[b].content \subseteq LocksOf(b)

\* No edit overwrites one its user had not seen: the revision moves only by the commit of an edit
\* that was opened on the current one, also when leases run out, edits overlap, and a commit that
\* took effect is reported as failed and undone while the next edit is under way.
NoLostUpdate ==
  [][\A b \in Batch : draft'[b].revision # draft[b].revision =>
       \E e \in Editor :
         /\ EditAt(e, "commit") /\ edit'[e] # edit[e]
         /\ edit[e].on = b /\ edit[e].revision = draft[b].revision]_evars

\* claim-letter-permissions.helpers.ts: an abandoned batch is never editable. Abandoning released
\* every lock, so an abandoned batch that no edit is working on can hold none.
AbandonedHoldsNothing ==
  \A b \in Batch : batch[b].abandoned /\ draft[b].token = NoEditor => LocksOf(b) = {}
=============================================================================
