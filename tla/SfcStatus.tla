------------------------------- MODULE SfcStatus -------------------------------
(***************************************************************************)
(* The SFC Status form: the State saves a draft or submits, PMU approves or *)
(* rejects (SfcStatusService, SfcStatusPmuReviewService and the review      *)
(* helper all State forms share). No step is in a transaction: the history  *)
(* row follows the write in a call of its own, and is lost when the request *)
(* dies before it.                                                          *)
(***************************************************************************)
EXTENDS ExemptionStore

VARIABLES
  change,      \* change[q]: the save or submit q and what it read
  review,      \* review[p]: the review p has under way
  moves        \* history variable: the changes of status the State's requests have made

fvars == <<change, review, moves>>

ChangeState ==
  [pc : {"idle", "read", "recheck", "write", "history", "done"}, from : SfcStatuses]

IdleChange == [pc |-> "idle", from |-> "NOT_STARTED"]

ReviewState == [pc : {"idle", "write", "history"}, to : SfcStatuses]

IdleReview == [pc |-> "idle", to |-> "NOT_STARTED"]

SfcTypeOK ==
  /\ change \in [Saver \cup Submitter -> ChangeState]
  /\ review \in [Reviewer -> ReviewState]
  /\ moves \subseteq SfcRow

SfcInit ==
  /\ change = [q \in Saver \cup Submitter |-> IdleChange]
  /\ review = [p \in Reviewer |-> IdleReview]
  /\ moves = {}

ChangeGoto(q, pc) == change' = [change EXCEPT ![q].pc = pc]
ChangeEnd(q) == change' = [change EXCEPT ![q] = [IdleChange EXCEPT !.pc = "done"]]

\* Mutant: a submit goes to the stage of another form.
WrongStage(q) == IF q \in Saver THEN "IN_PROGRESS" ELSE "UNDER_REVIEW_BY_STATE"

Target(q) == IF q \in Saver THEN "IN_PROGRESS" ELSE "UNDER_REVIEW_BY_PMU"

-----------------------------------------------------------------------------
(* saveDraft and finalSubmit                                               *)

Begin(q) ==
  /\ change[q].pc = "idle"
  /\ IF Blocked THEN ChangeEnd(q) ELSE ChangeGoto(q, "read")
  /\ UNCHANGED <<estore, review, moves>>

\* The form is read; its status must allow the State to edit it.
ReadForm(q) ==
  /\ change[q].pc = "read"
  /\ IF sfc.status \in StateEditable
     THEN change' = [change EXCEPT ![q] =
            [pc |-> IF q \in Saver THEN "write" ELSE "recheck", from |-> sfc.status]]
     ELSE ChangeEnd(q)
  /\ UNCHANGED <<estore, review, moves>>

\* finalSubmit asks for an exemption once more, right before its write.
Recheck(q) ==
  /\ change[q].pc = "recheck"
  /\ IF Blocked THEN ChangeEnd(q) ELSE ChangeGoto(q, "write")
  /\ UNCHANGED <<estore, review, moves>>

\* Mutant: losing the race is not an error.
LostRaceGoesOn(q) == ChangeGoto(q, "history")

\* assertFreshDraftStatus, assertFreshFinalSubmitStatus, the duplicate key: always an error.
LostRace(q) == ChangeEnd(q)

\* Mutant: the write is not guarded by the status.
FormFitsAlways(q) == TRUE

\* The update matches the status as read; the create of a form that was not there meets the
\* unique index.
FormFits(q) == sfc.status = change[q].from

WriteForm(q) ==
  /\ change[q].pc = "write"
  /\ IF FormFits(q)
     THEN /\ sfc' = [status |-> Target(q), data |-> q]
          /\ moves' = moves \cup {[from |-> sfc.status, to |-> Target(q), by |-> q]}
          /\ IF change[q].from = Target(q) THEN ChangeEnd(q) ELSE ChangeGoto(q, "history")
     ELSE LostRace(q) /\ UNCHANGED <<sfc, moves>>
  /\ UNCHANGED <<exemption, log, sfcHistory, review>>

WriteHistory(q) ==
  /\ change[q].pc = "history"
  /\ sfcHistory' = sfcHistory \cup {[from |-> change[q].from, to |-> Target(q), by |-> q]}
  /\ ChangeEnd(q)
  /\ UNCHANGED <<exemption, log, sfc, review, moves>>

-----------------------------------------------------------------------------
(* PMU review                                                              *)

\* approveCompleteForm, rejectCompleteForm: the form is found under review by PMU.
ReadReview(p, to) ==
  /\ review[p].pc = "idle"
  /\ sfc.status = "UNDER_REVIEW_BY_PMU"
  /\ review' = [review EXCEPT ![p] = [pc |-> "write", to |-> to]]
  /\ UNCHANGED <<estore, change, moves>>

\* transitionForm: by _id alone, whatever the status is by now.
TransitionForm(p) ==
  /\ review[p].pc = "write"
  /\ sfc' = [sfc EXCEPT !.status = review[p].to]
  /\ review' = [review EXCEPT ![p].pc = "history"]
  /\ UNCHANGED <<exemption, log, sfcHistory, change, moves>>

\* writeHistoryIfChanged, of the status that was read. The reviewer is free for the next review.
WriteReviewHistory(p) ==
  /\ review[p].pc = "history"
  /\ sfcHistory' = sfcHistory \cup
       {[from |-> "UNDER_REVIEW_BY_PMU", to |-> review[p].to, by |-> NoRequest]}
  /\ review' = [review EXCEPT ![p] = IdleReview]
  /\ UNCHANGED <<exemption, log, sfc, change, moves>>

\* A request that dies between the form and its history row.
LoseReviewHistory(p) ==
  /\ review[p].pc = "history"
  /\ review' = [review EXCEPT ![p] = IdleReview]
  /\ UNCHANGED <<estore, change, moves>>

-----------------------------------------------------------------------------
SfcStep ==
  \/ \E q \in Saver \cup Submitter :
       Begin(q) \/ ReadForm(q) \/ Recheck(q) \/ WriteForm(q) \/ WriteHistory(q)
  \/ \E p \in Reviewer :
       \/ \E to \in {"UNDER_REVIEW_BY_MOHUA", "RETURNED_BY_PMU"} : ReadReview(p, to)
       \/ TransitionForm(p) \/ WriteReviewHistory(p) \/ LoseReviewHistory(p)
=============================================================================
