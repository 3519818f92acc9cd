-------------------------------- MODULE UlbForms --------------------------------
(***************************************************************************)
(* The two ULB forms whose uploads are validated by a queue, the annual     *)
(* accounts and the utilisation report, side by side. They share rules, not *)
(* data: a behaviour plays a scene of one of them while the other rests.    *)
(***************************************************************************)
EXTENDS AnnualAccounts, DurValidation

Resting == [ops |-> {}, uploads |-> 0, open |-> 0, cron |-> FALSE, faults |-> FALSE]

UlbFormsInit == AnnualInit /\ DurInit /\ (cast = Resting \/ durCast = Resting)

UlbFormsNext ==
  \/ cast # Resting /\ AnnualNext /\ UNCHANGED durVars
  \/ durCast # Resting /\ DurNext /\ UNCHANGED annualVars

UlbFormsSpec == UlbFormsInit /\ [][UlbFormsNext]_<<annualVars, durVars>>

UlbFormsTypeOK == AnnualTypeOK /\ DurTypeOK
=============================================================================
