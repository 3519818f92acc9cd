------------------------------- MODULE MCUlbForms -------------------------------
EXTENDS UlbForms, TLC

MCScene(ops, uploads, open, cron, faults) ==
  [ops |-> ops, uploads |-> uploads, open |-> open, cron |-> cron, faults |-> faults]

Review == {"submit", "document", "section", "undo", "remove", "ask", "decide"}

MCCasts ==
  {Resting,
   \* Retries and two files of one document, one request at a time.
   MCScene({"retry"}, 2, 1, FALSE, FALSE),
   \* Retries overlap, the cron beside the processor; retries and manual reviews overlap.
   MCScene({"retry"}, 1, 2, TRUE, FALSE),
   MCScene({"retry", "ask", "decide"}, 1, 2, FALSE, FALSE),
   \* Uploads, removals and manual reviews overlap.
   MCScene({"remove", "ask", "decide"}, 2, 2, FALSE, FALSE),
   \* Submit and the State's decisions overlap with uploads.
   MCScene({"submit", "document", "section", "undo"}, 2, 2, FALSE, FALSE),
   \* The whole review, one request at a time.
   MCScene(Review, 2, 1, TRUE, FALSE),
   \* Requests and processes die.
   MCScene({"retry", "ask", "decide"}, 1, 1, TRUE, TRUE),
   MCScene({"remove", "ask", "decide"}, 2, 1, TRUE, TRUE),
   MCScene(Review, 2, 1, FALSE, TRUE)}

MCDurCasts ==
  {Resting,
   \* Requests and processes die, with a retry while a validation runs and the cron.
   MCScene({"retry"}, 1, 1, TRUE, TRUE),
   \* Both documents to the State, one of them replaced.
   MCScene({"submit", "section", "undo"}, 3, 1, FALSE, FALSE),
   \* Manual reviews overlap: of one upload, of two, with retries.
   MCScene({"ask", "decide"}, 1, 2, TRUE, FALSE),
   MCScene({"ask", "decide"}, 2, 2, FALSE, FALSE),
   MCScene({"retry", "ask", "decide"}, 1, 2, FALSE, FALSE)}

\* For a look at one form alone, and one file that is retried and submitted.
MCResting == {Resting}
MCRetried == {MCScene({"retry", "submit"}, 1, 1, FALSE, FALSE)}

Symmetry ==
  Permutations(Upload \cup DurUpload) \cup Permutations(Handler \cup DurHandler)
=============================================================================
