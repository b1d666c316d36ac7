-------------------------- MODULE TokenRefinement --------------------------
(* TokenSessions implements TokenLedger: the ledger's state is a function  *)
(* of the issued tokens and the committed blacklist.                       *)
EXTENDS TokenSessions

Fate(j) ==
  IF j \notin Issued THEN "unissued"
  ELSE IF j \notin revoked THEN "live"
  ELSE IF Heirs(j) # {} THEN "rotated" ELSE "ended"

Origin(j) == IF j \in Issued THEN token[j].from ELSE NoJti

AbsFate == [j \in Jti |-> Fate(j)]
AbsOrigin == [j \in Jti |-> Origin(j)]

Ledger == INSTANCE TokenLedger WITH fate <- AbsFate, origin <- AbsOrigin

\* Seen from outside, the concurrent requests behave as one ledger in which
\* each token is rotated or ended at most once, atomically.
ImplementsLedger == Ledger!LedgerSpec
=============================================================================
