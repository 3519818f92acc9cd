---------------------------- MODULE ClaimSubmitProps ----------------------------
(***************************************************************************)
(* What reaches MoHUA: one batch at a time, complete, and as it was read.   *)
(***************************************************************************)
EXTENDS ClaimSubmit

Submitted(b) == batch[b].status = "UNDER_REVIEW_BY_MOHUA"

\* A batch under review has the signed letter and the merge made from it, and is no abandoned one:
\* no late upload, no slower older merge and no racing abandon slips in (ADR 0003).
SubmittedArtifacts ==
  \A b \in Batch : Submitted(b) =>
    /\ ~batch[b].abandoned
    /\ draft[b].signed # NoPath
    /\ draft[b].pdf = draft[b].signed

\* The signed letter of a draft, and of a submitted batch, was uploaded for the ULBs and the letter
\* details the batch has now: whatever changes them clears it, also when the upload comes between
\* the read and the write of the change.
SignedLetterIsCurrent ==
  \A b \in Batch : draft[b].signed # NoPath =>
    signedFor[b] = [content |-> batch[b].content, details |-> draft[b].details]

\* ADR 0004: of the batches of an installment, MoHUA has at most one.
AtMostOneUnderReview == \A b, c \in Batch : Submitted(b) /\ Submitted(c) => b = c

\* Retries, two submits, and submits against abandons: each transition is recorded once, and
\* exactly those that happened.
SubmitAuditTrail ==
  \A b \in Batch :
    history[b] = IF ~Ready(b) THEN <<>>
                 ELSE IF Submitted(b) THEN <<"CREATED", "SUBMITTED">>
                 ELSE IF batch[b].abandoned THEN <<"CREATED", "ABANDONED">>
                 ELSE <<"CREATED">>
=============================================================================
