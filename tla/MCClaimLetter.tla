----------------------------- MODULE MCClaimLetter -----------------------------
(* Requests, keys and ULBs are interchangeable: no action or property orders them. *)
EXTENDS ClaimLetterProps, TLC

Symmetry ==
  Permutations(Batch) \cup Permutations(Ulb) \cup Permutations(Key) \cup Permutations(Submitter)
    \cup Permutations(Path)
=============================================================================
