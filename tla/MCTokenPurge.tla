---------------------------- MODULE MCTokenPurge ----------------------------
(* Instances of TokenPurge for TLC.                                        *)
EXTENDS TokenPurge, TLC

Symmetry == Permutations(Requests)
=============================================================================
