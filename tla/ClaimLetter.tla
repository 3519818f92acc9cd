------------------------------ MODULE ClaimLetter ------------------------------
(***************************************************************************)
(* The claim letters of one (state, year, installment), from the empty      *)
(* database: creates and their clean-up, edits, and everything up to the    *)
(* submit, interleaved over the same documents.                             *)
(***************************************************************************)
EXTENDS ClaimCreate, ClaimEdit, ClaimSubmit

createOnly == <<req, sweep>>
lvars == <<dstore, createOnly, edit, subvars>>

LetterTypeOK == CreateTypeOK /\ EditTypeOK /\ SubmitTypeOK

LetterInit ==
  /\ CreateInit
  /\ draft = [b \in Batch |-> NewDraft]
  /\ EditProcInit
  /\ SubmitProcInit

\* Abandon as the running service does it: with the edit lock looked at.
AbandonAny(b) == AbandonUnleased(b) /\ UNCHANGED <<createOnly, edit, subvars>>

LetterNext ==
  \/ (\E r \in Batch : RequestStep(r)) /\ UNCHANGED <<draft, edit, subvars>>
  \/ CleanupStep /\ UNCHANGED <<draft, edit, subvars>>
  \/ (\E e \in Editor : EditStep(e)) /\ UNCHANGED <<createOnly, subvars>>
  \/ (\E b \in Batch : LeaseExpires(b)) /\ UNCHANGED <<createOnly, subvars>>
  \/ SubmitStep /\ UNCHANGED <<createOnly, edit>>
  \/ \E b \in Batch : AbandonAny(b)

LetterSpec == LetterInit /\ [][LetterNext]_lvars
=============================================================================
