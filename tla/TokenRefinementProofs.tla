----------------------- MODULE TokenRefinementProofs -----------------------
(***************************************************************************)
(* Every behaviour of TokenSessions is, through AbsFate and AbsOrigin, a   *)
(* behaviour of TokenLedger: a commit is one atomic ledger step, and every *)
(* other statement of every request is a stutter.                          *)
(***************************************************************************)
EXTENDS TokenRefinement, TokenSessionsProofs

LEMMA InitRefines == Init => Ledger!LedgerInit
<1> SUFFICES ASSUME Init PROVE Ledger!LedgerInit
  OBVIOUS
<1>1. Issued = {}
  BY DEF Init, Issued
<1>2. QED
  BY <1>1 DEF Ledger!LedgerInit, AbsFate, AbsOrigin, Fate, Origin

\* The ledger's state depends on the two tables only.
LEMMA StutterRefines ==
  ASSUME UNCHANGED <<token, revoked>>
  PROVE  UNCHANGED Ledger!ledgerVars
<1>1. Issued' = Issued
  BY DEF Issued
<1>2. \A j \in Jti : Heirs(j)' = Heirs(j)
  BY <1>1 DEF Heirs
<1>3. AbsFate' = AbsFate
  BY <1>1, <1>2 DEF AbsFate, Fate
<1>4. AbsOrigin' = AbsOrigin
  BY <1>1 DEF AbsOrigin, Origin
<1>5. QED
  BY <1>3, <1>4 DEF Ledger!ledgerVars

\* A token that has heirs is blacklisted.
LEMMA HeirsRevoked ==
  ASSUME IInv, NEW j \in Jti, Heirs(j) # {}
  PROVE  j \in revoked
BY SessionAssumption DEF IInv, ChainShape, Heirs

\* The heirs of every token after a pair with the given origin is issued.
LEMMA PairHeirs ==
  ASSUME IInv, NEW a \in Jti \ Issued, NEW f \in Jti \ Issued,
         NEW from \in Jti \cup {NoJti},
         \A j \in Issued : token'[j] = token[j],
         Issued' = Issued \cup {a, f},
         token'[a].from = from, token'[f].from = from
  PROVE  \A j \in Jti :
           Heirs(j)' = IF j = from THEN Heirs(j) \cup {a, f} ELSE Heirs(j)
BY DEF Heirs

LEMMA LoginRefines ==
  ASSUME IInv, NEW u \in Users, Login(u)
  PROVE  Ledger!LedgerNext
<1>1. PICK a \in Jti \ Issued, f \in Jti \ Issued :
        a # f /\ token' = Pair(u, a, f, clock, NoJti, f)
  BY FreshPairFacts DEF Login
<1>2. TypeOK /\ ChainShape
  BY DEF IInv
<1>3. /\ \A j \in Issued : token'[j] = token[j]
      /\ Issued' = Issued \cup {a, f}
      /\ token'[a].from = NoJti /\ token'[f].from = NoJti
  <2>1. clock \in Nat /\ NoJti \in Jti \cup {NoJti} /\ f \in Jti
    BY <1>2 DEF TypeOK
  <2>2. QED
    BY <1>1, <1>2, <2>1, PairFacts
<1>4. revoked' = revoked
  BY DEF Login
<1>5. \A j \in Jti : Heirs(j)' = Heirs(j)
  BY <1>3, PairHeirs, SessionAssumption
<1>6. a \notin revoked /\ f \notin revoked
  BY <1>2 DEF ChainShape
<1>7. AbsFate' = [AbsFate EXCEPT ![a] = "live", ![f] = "live"]
  BY <1>3, <1>4, <1>5, <1>6 DEF AbsFate, Fate
<1>8. AbsOrigin' = AbsOrigin
  BY <1>3 DEF AbsOrigin, Origin
<1>9. AbsFate[a] = "unissued" /\ AbsFate[f] = "unissued"
  BY DEF AbsFate, Fate
<1>10. Ledger!Issue(a, f)
  BY <1>1, <1>7, <1>8, <1>9 DEF Ledger!Issue
<1>11. QED
  BY <1>10 DEF Ledger!LedgerNext

LEMMA RefreshRefines ==
  ASSUME IInv, NEW r \in Requests, RefreshCommit(r)
  PROVE  Ledger!LedgerNext
<1> DEFINE old == jti[r]
<1>1. TypeOK /\ ChainShape /\ RequestShape(r) /\ PendShape(r) /\ UniqueIndex
  BY DEF IInv
<1>2. old \in Issued /\ old \notin revoked /\ revoked' = revoked \cup {old}
  BY <1>1 DEF RefreshCommit, Commit, RequestShape, PendShape, UniqueIndex,
           InFlight
<1>3. PICK a \in Jti \ Issued, f \in Jti \ Issued :
        /\ a # f
        /\ token' = Pair(token[old].user, a, f, flushedAt[r], old,
                         token[old].root)
  BY FreshPairFacts DEF RefreshCommit
<1>4. /\ \A j \in Issued : token'[j] = token[j]
      /\ Issued' = Issued \cup {a, f}
      /\ token'[a].from = old /\ token'[f].from = old
  <2>1. token[old] \in Token /\ flushedAt[r] \in Nat /\ old \in Jti
    BY <1>1, <1>2 DEF TypeOK, Issued
  <2>2. /\ token[old].user \in Users /\ token[old].root \in Jti
        /\ old \in Jti \cup {NoJti}
    BY <2>1 DEF Token
  <2>3. QED
    BY <1>1, <1>3, <2>1, <2>2, PairFacts
<1>5. old \in Jti
  BY <1>2 DEF Issued
<1>6. \A j \in Jti :
        Heirs(j)' = IF j = old THEN Heirs(j) \cup {a, f} ELSE Heirs(j)
  BY <1>4, <1>5, PairHeirs
<1>7. a \notin revoked' /\ f \notin revoked'
  BY <1>1, <1>2 DEF ChainShape
<1>8. AbsFate' = [AbsFate EXCEPT ![old] = "rotated", ![a] = "live",
                                 ![f] = "live"]
  BY <1>2, <1>4, <1>5, <1>6, <1>7 DEF AbsFate, Fate
<1>9. AbsOrigin' = [AbsOrigin EXCEPT ![a] = old, ![f] = old]
  BY <1>4 DEF AbsOrigin, Origin
<1>10. AbsFate[old] = "live" /\ AbsFate[a] = "unissued"
       /\ AbsFate[f] = "unissued"
  BY <1>2, <1>5 DEF AbsFate, Fate
<1>11. Ledger!Rotate(old, a, f)
  BY <1>3, <1>8, <1>9, <1>10 DEF Ledger!Rotate
<1>12. QED
  BY <1>5, <1>11 DEF Ledger!LedgerNext

LEMMA LogoutRefines ==
  ASSUME IInv, NEW r \in Requests, LogoutCommit(r)
  PROVE  Ledger!LedgerNext
<1>1. /\ token' = token /\ revoked' = revoked \cup pend[r]
      /\ pend[r] \in SUBSET Jti /\ pend[r] \subseteq Issued
      /\ pend[r] \cap revoked = {}
  BY DEF IInv, TypeOK, UniqueIndex, PendShape, LogoutCommit, Commit
<1>2. Issued' = Issued
  BY <1>1 DEF Issued
<1>3. \A j \in Jti : Heirs(j)' = Heirs(j)
  BY <1>1, <1>2 DEF Heirs
<1>4. \A j \in pend[r] : Heirs(j) = {}
  BY <1>1, HeirsRevoked
<1>5. \A j \in pend[r] : AbsFate[j] = "live"
  BY <1>1 DEF AbsFate, Fate
<1>6. AbsFate' = [j \in Jti |-> IF j \in pend[r] THEN "ended" ELSE AbsFate[j]]
  BY <1>1, <1>2, <1>3, <1>4 DEF AbsFate, Fate
<1>7. AbsOrigin' = AbsOrigin
  BY <1>1, <1>2 DEF AbsOrigin, Origin
<1>8. Ledger!End(pend[r])
  BY <1>5, <1>6, <1>7 DEF Ledger!End
<1>9. QED
  BY <1>1, <1>8 DEF Ledger!LedgerNext

\* The statements that touch neither table.
Quiet(r) ==
  \/ ApiArrive(r) \/ LogoutArrive(r) \/ RefreshArrive(r) \/ Abort(r)
  \/ GateCheckRevoked(r) \/ GateLoadUser(r)
  \/ LogoutRevokeAccess(r) \/ LogoutRevokeRefresh(r)
  \/ RefreshCheckRevoked(r) \/ RefreshLoadUser(r) \/ RefreshRevokeOld(r)

LEMMA QuietSteps ==
  ASSUME NEW r \in Requests, Quiet(r)
  PROVE  UNCHANGED <<token, revoked>>
BY DEF Quiet, ApiArrive, LogoutArrive, RefreshArrive, Arrive, Abort,
   GateCheckRevoked, GateLoadUser, LogoutRevokeAccess, LogoutRevokeRefresh,
   RefreshCheckRevoked, RefreshLoadUser, RefreshRevokeOld, dbVars

LEMMA NextRefines ==
  IInv /\ [Next]_vars => [Ledger!LedgerNext]_(Ledger!ledgerVars)
<1> SUFFICES ASSUME IInv, [Next]_vars
             PROVE  [Ledger!LedgerNext]_(Ledger!ledgerVars)
  OBVIOUS
<1>1. ASSUME NEW u \in Users, Login(u) PROVE Ledger!LedgerNext
  BY <1>1, LoginRefines
<1>2. ASSUME NEW r \in Requests, RefreshCommit(r) \/ LogoutCommit(r)
      PROVE  Ledger!LedgerNext
  BY <1>2, RefreshRefines, LogoutRefines
<1>3. ASSUME NEW r \in Requests, Quiet(r)
      PROVE  UNCHANGED Ledger!ledgerVars
  BY <1>3, QuietSteps, StutterRefines
<1>4. ASSUME (\E u \in Users : SetActive(u)) \/ Tick \/ UNCHANGED vars
      PROVE  UNCHANGED Ledger!ledgerVars
  <2>1. UNCHANGED <<token, revoked>>
    BY <1>4 DEF SetActive, Tick, vars, dbVars
  <2>2. QED
    BY <2>1, StutterRefines
<1>5. QED
  BY <1>1, <1>2, <1>3, <1>4 DEF Next, Step, Quiet

\* The requests implement the atomic ledger.
THEOREM Refinement == Spec => ImplementsLedger
BY InitRefines, NextRefines, Invariance, PTL
   DEF Spec, ImplementsLedger, Ledger!LedgerSpec

\* A revoked token never gains a successor.
THEOREM NoNewHeirs == Spec => RevokedHasNoNewHeirs
<1> DEFINE Same == \A j \in revoked : Heirs(j)' = Heirs(j)
<1>1. IInv /\ [Next]_vars => [Same]_vars
  <2> SUFFICES ASSUME IInv, [Next]_vars PROVE [Same]_vars
    OBVIOUS
  <2>1. revoked \subseteq Jti
    BY DEF IInv, TypeOK
  <2>2. ASSUME UNCHANGED token PROVE Same
    BY <2>2 DEF Heirs, Issued
  <2>3. ASSUME NEW u \in Users, Login(u) PROVE Same
    <3>1. PICK a \in Jti \ Issued, f \in Jti \ Issued :
            a # f /\ token' = Pair(u, a, f, clock, NoJti, f)
      BY <2>3, FreshPairFacts DEF Login
    <3>2. clock \in Nat /\ NoJti \in Jti \cup {NoJti} /\ f \in Jti /\ TypeOK
      BY DEF IInv, TypeOK
    <3>3. /\ \A j \in Issued : token'[j] = token[j]
          /\ Issued' = Issued \cup {a, f}
          /\ token'[a].from = NoJti /\ token'[f].from = NoJti
      BY <3>1, <3>2, PairFacts
    <3>4. QED
      BY <2>1, <3>3, PairHeirs, SessionAssumption
  <2>4. ASSUME NEW r \in Requests, RefreshCommit(r) PROVE Same
    <3>1. PICK a \in Jti \ Issued, f \in Jti \ Issued :
            /\ a # f
            /\ token' = Pair(token[jti[r]].user, a, f, flushedAt[r], jti[r],
                             token[jti[r]].root)
      BY <2>4, FreshPairFacts DEF RefreshCommit
    <3>2. jti[r] \in Issued /\ jti[r] \notin revoked /\ TypeOK
      BY <2>4 DEF IInv, RequestShape, PendShape, UniqueIndex, RefreshCommit,
                  InFlight
    <3>3. /\ jti[r] \in Jti /\ flushedAt[r] \in Nat
          /\ jti[r] \in Jti \cup {NoJti}
          /\ token[jti[r]].user \in Users /\ token[jti[r]].root \in Jti
      BY <3>2 DEF TypeOK, Issued, Token
    <3>4. /\ \A j \in Issued : token'[j] = token[j]
          /\ Issued' = Issued \cup {a, f}
          /\ token'[a].from = jti[r] /\ token'[f].from = jti[r]
      BY <3>1, <3>2, <3>3, PairFacts
    <3>5. QED
      BY <2>1, <3>2, <3>3, <3>4, PairHeirs
  <2>5. ASSUME NEW r \in Requests, Quiet(r) PROVE UNCHANGED token
    BY <2>5, QuietSteps
  <2>6. QED
    BY <2>2, <2>3, <2>4, <2>5 DEF Next, Step, Quiet, LogoutCommit, SetActive,
       Tick, dbVars, vars
<1>2. QED
  BY <1>1, Invariance, PTL DEF Spec, RevokedHasNoNewHeirs
=============================================================================
