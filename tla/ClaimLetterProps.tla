---------------------------- MODULE ClaimLetterProps ----------------------------
(***************************************************************************)
(* What holds of the claim letter as a whole, create to submit.             *)
(***************************************************************************)
EXTENDS ClaimLetter, ClaimEditProps, ClaimSubmitProps

\* What reaches MoHUA is whole: the ULBs its content hash names, one child row and one lock for
\* each, whichever create, edit, abandon or clean-up it raced with. It holds of edits that fail only
\* without an effect and where updateDraft puts the draft back; an edit that dies between its writes,
\* or a write of it that took effect and is reported as failed, leaves a draft that submit accepts.
SubmittedIsWhole ==
  \A b \in Batch : Submitted(b) =>
    /\ Ready(b)
    /\ child[b] = batch[b].content
    /\ LocksOf(b) = batch[b].content
    /\ batch[b].content # {}

\* What MoHUA reviews never changes again: not its ULBs, rows or locks, not its letter or its
\* merge, by any create, edit, save, merge or abandon that started before the submit. It holds unless
\* an edit outlives its lease, or its commit took effect and is reported as failed: that commit gave
\* the edit lock back, so a submit gets in before the catch blocks undo it.
ReviewIsFrozen ==
  [][\A b \in Batch : Submitted(b) =>
       /\ batch'[b] = batch[b] /\ child'[b] = child[b] /\ draft'[b] = draft[b]
       /\ LocksOf(b)' = LocksOf(b)]_lvars
=============================================================================
