------------------------- MODULE MCTokenRefinement -------------------------
(* Instances of TokenRefinement for TLC.                                   *)
EXTENDS TokenRefinement, TLC

Symmetry == Permutations(Requests)
=============================================================================
