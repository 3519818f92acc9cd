----------------------------- MODULE MCClaimCreate -----------------------------
(* Create requests, keys and ULBs are interchangeable: no action or property orders them. *)
EXTENDS ClaimCreateProps, TLC

Symmetry == Permutations(Batch) \cup Permutations(Ulb) \cup Permutations(Key)
=============================================================================
