---------------------------- MODULE TokenLedger ----------------------------
(***************************************************************************)
(* What the token endpoints promise, as one atomic ledger: a token is      *)
(* issued live; a live token is rotated into a pair exactly once, or ended *)
(* by a logout, and neither is ever undone.  There are no transactions,    *)
(* requests or clocks here; TokenSessions implements this specification    *)
(* with concurrent READ COMMITTED transactions and a unique index.         *)
(***************************************************************************)
CONSTANTS Jti, NoJti

VARIABLES
  fate,    \* what has become of each jti
  origin   \* the token each jti was rotated from

ledgerVars == <<fate, origin>>

LedgerTypeOK ==
  /\ fate \in [Jti -> {"unissued", "live", "rotated", "ended"}]
  /\ origin \in [Jti -> Jti \cup {NoJti}]

LedgerInit ==
  /\ fate = [j \in Jti |-> "unissued"]
  /\ origin = [j \in Jti |-> NoJti]

\* A login (or a registration) issues a pair.
Issue(a, f) ==
  /\ a # f /\ fate[a] = "unissued" /\ fate[f] = "unissued"
  /\ fate' = [fate EXCEPT ![a] = "live", ![f] = "live"]
  /\ UNCHANGED origin

\* A refresh exchanges a live token for a pair.
Rotate(j, a, f) ==
  /\ fate[j] = "live"
  /\ a # f /\ fate[a] = "unissued" /\ fate[f] = "unissued"
  /\ fate' = [fate EXCEPT ![j] = "rotated", ![a] = "live", ![f] = "live"]
  /\ origin' = [origin EXCEPT ![a] = j, ![f] = j]

\* A logout ends one or two live tokens.
End(S) ==
  /\ \A j \in S : fate[j] = "live"
  /\ fate' = [j \in Jti |-> IF j \in S THEN "ended" ELSE fate[j]]
  /\ UNCHANGED origin

LedgerNext ==
  \/ \E a, f \in Jti : Issue(a, f)
  \/ \E j, a, f \in Jti : Rotate(j, a, f)
  \/ \E S \in SUBSET Jti : End(S)

LedgerSpec == LedgerInit /\ [][LedgerNext]_ledgerVars
=============================================================================
