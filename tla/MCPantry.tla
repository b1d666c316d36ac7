------------------------------ MODULE MCPantry ------------------------------
(* Instances of Pantry for TLC.                                            *)
EXTENDS Pantry, TLC

\* Requests, items and days are interchangeable.
Symmetry == Permutations(Requests) \cup Permutations(Items) \cup Permutations(Days)
=============================================================================
