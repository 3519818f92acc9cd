------------------------------ MODULE MCStateForms ------------------------------
EXTENDS StateForms, TLC

Symmetry ==
  Permutations(Filing) \cup Permutations(Decision) \cup Permutations(Saver)
    \cup Permutations(Submitter) \cup Permutations(Reviewer)
=============================================================================
