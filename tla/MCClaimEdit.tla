------------------------------ MODULE MCClaimEdit ------------------------------
EXTENDS ClaimEditProps, TLC

Symmetry == Permutations(Editor) \cup Permutations(Ulb)
=============================================================================
