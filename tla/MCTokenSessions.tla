-------------------------- MODULE MCTokenSessions --------------------------
(* Instances of TokenSessions for TLC.                                     *)
EXTENDS TokenSessions, TLC

\* Requests are interchangeable.
Symmetry == Permutations(Requests)
=============================================================================
