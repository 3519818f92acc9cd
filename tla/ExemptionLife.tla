----------------------------- MODULE ExemptionLife -----------------------------
(***************************************************************************)
(* What Request Exemption promises: the log of each form is a life in       *)
(* single steps, filed, then decided, then after a rejection filed again,   *)
(* and an approval is final; and nothing else is recorded.                  *)
(***************************************************************************)
EXTENDS Sequences, Naturals

CONSTANT FormId

VARIABLE life   \* life[f]: what has happened to the request for form f

Latest(f) == IF life[f] = <<>> THEN "NOTHING" ELSE life[f][Len(life[f])]
Extend(F, what) == life' = [f \in FormId |-> IF f \in F THEN Append(life[f], what) ELSE life[f]]

LifeInit == life = [f \in FormId |-> <<>>]

\* One filing may ask for several forms; none of them may be pending or approved.
File(F) == F # {} /\ (\A f \in F : Latest(f) \in {"NOTHING", "RETURNED"}) /\ Extend(F, "SUBMITTED")

Decide(f, verdict) == Latest(f) = "SUBMITTED" /\ Extend({f}, verdict)

LifeNext ==
  \/ \E F \in SUBSET FormId : File(F)
  \/ \E f \in FormId, verdict \in {"APPROVED", "RETURNED"} : Decide(f, verdict)

LifeSpec == LifeInit /\ [][LifeNext]_life
=============================================================================
