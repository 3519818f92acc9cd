------------------------------ MODULE ManualReview ------------------------------
(***************************************************************************)
(* What the ULB forms with an automatic validation of their uploads, annual *)
(* accounts and utilisation report, have in common: the statuses, and the   *)
(* rules of manual-review-cooldown.util.ts and of                           *)
(* xvi-fc-form-status-access.util.ts, which both services ask.              *)
(***************************************************************************)
EXTENDS Naturals

CONSTANTS
  MaxAttempts,   \* MAX_POST_REJECTION_ATTEMPTS
  NoUpload

ASSUME MaxAttemptsAssumption == MaxAttempts \in Nat \ {0}

FormStatus ==
  {"NOT_STARTED", "IN_PROGRESS", "UNDER_REVIEW_BY_STATE", "RETURNED_BY_STATE", "APPROVED_BY_STATE"}

UlbEditable == {"NOT_STARTED", "IN_PROGRESS", "RETURNED_BY_STATE"}

Processing == {"NOT_STARTED", "PROCESSING", "PASSED", "FAILED"}
Validation == {"NONE", "PASS", "FAIL"}
Verdict == {"APPROVED", "RETURNED"}
NoVerdict == "NONE"

\* What uploadBlockedUntil is: not set, in the future, in the past.
Cooldown == {"no", "active", "over"}

\* isAwaitingManualReviewDecision, isUploadBlocked.
Awaiting(item) == item.requested /\ item.review = NoVerdict
Blocked(item) == item.blocked = "active"

\* Mutant: the request that waits for the ADMIN is forgotten.
OnlyNotBlocked(item) == ~Blocked(item)

\* The entry is open to a new file, a retry or a removal, as far as manual review goes.
OpenToUlb(item) == ~Awaiting(item) /\ ~Blocked(item)

\* Mutant: a failure counts whether or not a manual review was returned.
AlwaysCounts(item) == TRUE

\* A failure uses up an attempt only while the ADMIN's RETURNED stands.
Counts(item) == item.review = "RETURNED"

\* A block that was set before opens a fresh batch of attempts.
Fresh(item) == item.blocked # "no"

\* nextPostRejectionAttempts.
NextStrikes(item) ==
  LET used == IF Fresh(item) THEN 0 ELSE item.strikes
  IN IF used < MaxAttempts THEN used + 1 ELSE MaxAttempts

\* What requestManualReview asks of an entry.
CanAsk(item) ==
  /\ item.upload # NoUpload
  /\ item.validation = "FAIL"
  /\ ~item.requested
  /\ ~Blocked(item)
  /\ item.review = "RETURNED" => item.strikes = MaxAttempts

\* The entry after a run of its file: r.result is the verdict, ERROR when there is none, r.counts
\* whether it uses up an attempt; the last attempt starts the cooldown (computeUploadBlockedUntil).
WithResult(item, r) ==
  CASE r.result = "PASS" ->
         [item EXCEPT !.processing = "PASSED", !.validation = "PASS", !.review = NoVerdict,
                      !.strikes = 0, !.blocked = "no"]
    [] r.result # "PASS" ->
         [item EXCEPT !.processing = "FAILED",
                      !.validation = IF r.result = "FAIL" THEN "FAIL" ELSE @,
                      !.strikes = IF r.counts THEN r.strikes ELSE @,
                      !.blocked = CASE r.counts /\ r.strikes = MaxAttempts -> "active"
                                    [] r.counts /\ r.strikes # MaxAttempts /\ r.fresh -> "no"
                                    [] OTHER -> @]

\* The entry after the ADMIN's decision.
Ruling(item, v) ==
  IF v = "APPROVED" THEN [item EXCEPT !.review = v, !.processing = "PASSED"]
  ELSE [item EXCEPT !.review = v, !.strikes = 0]

-----------------------------------------------------------------------------
(* Scenes                                                                  *)

Ops == {"retry", "remove", "submit", "ask", "decide", "document", "section", "undo"}

\* The requests that arrive, the number of uploads, how many requests are open at a time, whether
\* the cron runs, whether requests and processes die.
Scene == [ops : SUBSET Ops, uploads : Nat, open : Nat, cron : BOOLEAN, faults : BOOLEAN]
=============================================================================
