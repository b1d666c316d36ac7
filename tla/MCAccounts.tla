----------------------------- MODULE MCAccounts -----------------------------
(* Instances of Accounts for TLC.                                          *)
EXTENDS Accounts, TLC

\* Requests, tokens and passwords are interchangeable.
Symmetry ==
  Permutations(Requests) \cup Permutations(Tokens) \cup Permutations(Passwords)
=============================================================================
