------------------------ MODULE TokenSessionsProofs ------------------------
(***************************************************************************)
(* IInv is an invariant of TokenSessions for every number of users,        *)
(* requests and tokens and every choice of lifetimes; the safety           *)
(* properties of the module follow from it.                                *)
(***************************************************************************)
EXTENDS TokenSessions, TLAPS

Slot(r) == RequestShape(r) /\ PendShape(r) /\ CheckShape(r)

SlotVars(r) == <<pc[r], op[r], jti[r], body[r], pend[r], stale[r], dormant[r]>>

SlotTypes ==
  /\ pc \in [Requests -> Finished \cup InFlight]
  /\ op \in [Requests -> Ops]
  /\ jti \in [Requests -> Jti \cup {NoJti}]
  /\ body \in [Requests -> Jti \cup {Garbage}]
  /\ pend \in [Requests -> SUBSET Jti]
  /\ flushedAt \in [Requests -> Nat]
  /\ stale \in [Requests -> BOOLEAN]
  /\ dormant \in [Requests -> BOOLEAN]

LEMMA InitInv == Init => IInv
<1> SUFFICES ASSUME Init PROVE IInv
  OBVIOUS
<1> USE DEF Init
<1>1. TypeOK
  BY SessionAssumption DEF TypeOK, Finished, InFlight, Ops
<1>2. Issued = {} /\ Refreshes = {}
  BY DEF Issued, Refreshes
<1>3. ASSUME NEW r \in Requests PROVE Slot(r)
  BY <1>2 DEF Slot, RequestShape, PendShape, CheckShape, GatePcs, LogoutPcs,
              RefreshPcs, Admitted, Loaded, InFlight
<1>4. UniqueIndex /\ ChainShape /\ OneLiveRefreshPerLogin /\ LogoutEndsLogin
  BY <1>2 DEF UniqueIndex, ChainShape, OneLiveRefreshPerLogin, LogoutEndsLogin
<1>5. QED
  BY <1>1, <1>3, <1>4 DEF IInv, Slot

\* A step that leaves the tables alone leaves the shape of the chain alone.
LEMMA TablesUnchanged ==
  ASSUME IInv, UNCHANGED <<token, revoked, loggedOut>>
  PROVE  /\ ChainShape' /\ OneLiveRefreshPerLogin' /\ LogoutEndsLogin'
         /\ Issued' = Issued /\ Refreshes' = Refreshes
<1>1. Issued' = Issued /\ Refreshes' = Refreshes
  BY DEF Issued, Refreshes
<1>2. QED
  BY <1>1 DEF IInv, ChainShape, OneLiveRefreshPerLogin, LogoutEndsLogin, Live

\* A slot that a step does not touch keeps its shape, when tokens are only
\* added, rows are only added, and time does not go back.
LEMMA OtherSlot ==
  ASSUME IInv, NEW q \in Requests,
         UNCHANGED SlotVars(q), UNCHANGED active,
         revoked \subseteq revoked',
         \A j \in Issued : token'[j] = token[j],
         clock' \in Nat, clock <= clock'
  PROVE  Slot(q)'
<1>1. Slot(q)
  BY DEF IInv, Slot
<1>2. Issued \subseteq Issued' /\ Refreshes \subseteq Refreshes'
  BY DEF Issued, Refreshes
<1>3. \A j \in Issued : j \in Refreshes' <=> j \in Refreshes
  BY <1>2 DEF Refreshes
<1>4. \A j \in Issued : Decodes(j)' => Decodes(j)
  BY <1>2, SessionAssumption DEF Decodes, IInv, TypeOK, Issued, Token
<1>5. Garbage \notin Issued /\ Garbage \notin Issued'
  BY SessionAssumption DEF Issued
<1>6. body[q] \in Issued \cup {Garbage} /\ (pc[q] \in InFlight => jti[q] \in Issued)
  BY <1>1 DEF Slot, RequestShape
<1>7. RequestShape(q)'
  BY <1>1, <1>2, <1>3, <1>6 DEF Slot, RequestShape, SlotVars, GatePcs,
     LogoutPcs, RefreshPcs, InFlight
<1>8. PendShape(q)'
  BY <1>1, <1>2, <1>3, <1>4, <1>5, <1>6
     DEF Slot, PendShape, RequestShape, SlotVars, Refreshes
<1>9. CheckShape(q)'
  BY <1>1, <1>6 DEF Slot, CheckShape, SlotVars
<1>10. QED
  BY <1>7, <1>8, <1>9 DEF Slot

\* The parts of the invariant put together again.
LEMMA CollectInv ==
  ASSUME TypeOK', \A r \in Requests : Slot(r)',
         UniqueIndex', ChainShape', OneLiveRefreshPerLogin', LogoutEndsLogin'
  PROVE  IInv'
BY DEF IInv, Slot

-----------------------------------------------------------------------------
(* Steps that touch one slot and no table.                                 *)

\* If such a step gives slot r its shape and flushes nothing, IInv holds.
LEMMA LocalStep ==
  ASSUME IInv, TypeOK', NEW r \in Requests,
         UNCHANGED <<clock, dbVars, loggedOut>>,
         \A q \in Requests \ {r} : UNCHANGED SlotVars(q),
         pend'[r] \subseteq pend[r],
         Slot(r)'
  PROVE  IInv'
<1>1. ChainShape' /\ OneLiveRefreshPerLogin' /\ LogoutEndsLogin'
  BY TablesUnchanged DEF dbVars
<1>2. \A q \in Requests : Slot(q)'
  BY OtherSlot DEF dbVars, IInv, TypeOK
<1>3. UniqueIndex'
  BY DEF IInv, UniqueIndex, dbVars, SlotVars
<1>4. QED
  BY <1>1, <1>2, <1>3, CollectInv

\* What the end of a request does to its slot, whatever else the step does.
LEMMA LeftSlot ==
  ASSUME TypeOK, NEW r \in Requests, NEW answer \in Finished, Leave(r, answer)
  PROVE  /\ SlotTypes' /\ Slot(r)'
         /\ \A q \in Requests \ {r} : UNCHANGED SlotVars(q)
         /\ pc'[r] = answer /\ pend'[r] = {}
         /\ \A q \in Requests \ {r} : pend'[q] = pend[q]
<1> USE DEF Leave, TypeOK
<1>1. SlotTypes'
  BY DEF SlotTypes, Ops, Finished
<1>2. \A q \in Requests \ {r} : UNCHANGED SlotVars(q) /\ pend'[q] = pend[q]
  BY DEF SlotVars
<1>3. pc'[r] = answer /\ body'[r] = Garbage /\ pend'[r] = {}
  OBVIOUS
<1>4. Slot(r)'
  BY <1>3 DEF Slot, RequestShape, PendShape, CheckShape, GatePcs, LogoutPcs,
              RefreshPcs, Admitted, Loaded, InFlight, Finished
<1>5. QED
  BY <1>1, <1>2, <1>3, <1>4

LEMMA LeaveStep ==
  ASSUME IInv, NEW r \in Requests, NEW answer \in Finished, Leave(r, answer),
         UNCHANGED <<clock, dbVars, loggedOut>>
  PROVE  IInv'
<1>1. TypeOK
  BY DEF IInv
<1>2. /\ SlotTypes' /\ Slot(r)' /\ pend'[r] = {}
      /\ \A q \in Requests \ {r} : UNCHANGED SlotVars(q)
  BY <1>1, LeftSlot
<1>3. TypeOK'
  BY <1>1, <1>2 DEF TypeOK, SlotTypes, dbVars
<1>4. QED
  BY <1>2, <1>3, LocalStep

LEMMA ArriveStep ==
  ASSUME IInv, NEW r \in Requests, NEW j \in Issued,
         NEW b \in Issued \cup {Garbage},
         NEW o, NEW type, NEW first,
         Arrive(r, o, j, b, type, first),
         \/ o = "refresh" /\ type = "refresh" /\ first = "checkRevoked"
         \/ o \in {"api", "logout"} /\ type = "access"
            /\ first = "gateCheckRevoked"
  PROVE  IInv'
<1> USE DEF Arrive, dbVars
<1>1. TypeOK'
  BY DEF IInv, TypeOK, Finished, InFlight, Ops, Issued, IsRevoked, Token
<1>2. \A q \in Requests \ {r} : UNCHANGED SlotVars(q)
  BY DEF SlotVars, IInv, TypeOK
<1>3. /\ pend'[r] = pend[r] /\ pc'[r] = first /\ body'[r] = b
      /\ jti'[r] = j /\ op'[r] = o
      /\ stale'[r] = (j \in revoked) /\ dormant'[r] = ~active[token[j].user]
  BY DEF IInv, TypeOK, IsRevoked
<1>4. pend[r] = {}
  BY DEF IInv, PendShape, Finished
<1>5. Issued' = Issued /\ token[j].type = type
  BY DEF Issued
<1>6. RequestShape(r)'
  BY <1>3, <1>5 DEF RequestShape, GatePcs, LogoutPcs, RefreshPcs
<1>7. PendShape(r)' /\ CheckShape(r)'
  BY <1>3, <1>4 DEF PendShape, CheckShape, Admitted, Loaded,
                    LogoutPcs
<1>8. QED
  BY <1>1, <1>2, <1>3, <1>6, <1>7, LocalStep DEF Slot

\* A check that a request passes: Goto from one program point to the next.
LEMMA GotoStep ==
  ASSUME IInv, NEW r \in Requests, NEW next, Goto(r, next),
         UNCHANGED <<clock, dbVars, loggedOut>>,
         pend[r] = {},
         \/ /\ pc[r] = "gateCheckRevoked" /\ next = "gateLoadUser"
            /\ jti[r] \notin revoked
         \/ /\ pc[r] = "gateLoadUser" /\ active[token[jti[r]].user]
            /\ op[r] = "logout" /\ next = "revokeAccess"
         \/ /\ pc[r] = "checkRevoked" /\ next = "loadUser"
            /\ jti[r] \notin revoked
         \/ /\ pc[r] = "loadUser" /\ active[token[jti[r]].user]
            /\ next = "revokeOld"
  PROVE  IInv'
<1> USE DEF Goto, dbVars
<1>1. TypeOK'
  BY DEF IInv, TypeOK, Finished, InFlight
<1>2. \A q \in Requests \ {r} : UNCHANGED SlotVars(q)
  BY DEF SlotVars, IInv, TypeOK
<1>3. pc'[r] = next
  BY DEF IInv, TypeOK
<1>4. Issued' = Issued /\ Refreshes' = Refreshes
  BY DEF Issued, Refreshes
<1>5. RequestShape(r) /\ CheckShape(r)
  BY DEF IInv
<1>6. RequestShape(r)'
  BY <1>3, <1>4, <1>5 DEF RequestShape, GatePcs, LogoutPcs, RefreshPcs, IInv,
                          TypeOK, Ops, InFlight
<1>7. PendShape(r)'
  BY <1>3 DEF PendShape
<1>8. CheckShape(r)'
  BY <1>3, <1>5 DEF CheckShape, Admitted, Loaded, LogoutPcs, InFlight
<1>9. QED
  BY <1>1, <1>2, <1>6, <1>7, <1>8, LocalStep DEF Slot

-----------------------------------------------------------------------------
(* Steps that flush or commit.                                             *)

\* A flushed row was in no other place, so the unique index is respected;
\* a conflict flushes nothing.
LEMMA RevokeStep ==
  ASSUME IInv, NEW r \in Requests, NEW j \in Issued, NEW next,
         Revoke(r, j, next),
         UNCHANGED <<clock, dbVars, loggedOut>>,
         pc[r] \in {"revokeAccess", "revokeRefresh", "revokeOld"},
         next \in {"revokeRefresh", "logoutCommit", "refreshCommit"},
         pc[r] = "revokeAccess" =>
           /\ j = jti[r]
           /\ next = IF body[r] \in Refreshes /\ Decodes(body[r])
                      THEN "revokeRefresh" ELSE "logoutCommit",
         pc[r] = "revokeRefresh" => j = body[r] /\ next = "logoutCommit",
         pc[r] = "revokeOld" => j = jti[r] /\ next = "refreshCommit"
  PROVE  IInv'
<1>1. CASE j \in revoked
  <2>1. Leave(r, "conflict") /\ "conflict" \in Finished
    BY <1>1 DEF Revoke, Finished
  <2>2. QED
    BY <2>1, LeaveStep
<1>2. CASE j \notin revoked
  <2> USE DEF dbVars
  <2>1. /\ \A q \in Requests \ {r} : j \notin pend[q]
        /\ pend' = [pend EXCEPT ![r] = @ \cup {j}]
        /\ pc' = [pc EXCEPT ![r] = next]
        /\ flushedAt' = [flushedAt EXCEPT ![r] = clock]
        /\ UNCHANGED <<op, jti, body, stale, dormant>>
    BY <1>2 DEF Revoke
  <2>2. TypeOK'
    BY <2>1 DEF IInv, TypeOK, Finished, InFlight, Issued
  <2>3. ChainShape' /\ OneLiveRefreshPerLogin' /\ LogoutEndsLogin'
        /\ Issued' = Issued /\ Refreshes' = Refreshes
    BY TablesUnchanged
  <2>4. UniqueIndex'
    BY <1>2, <2>1 DEF IInv, UniqueIndex, TypeOK
  <2>5. \A q \in Requests \ {r} : UNCHANGED SlotVars(q)
    BY <2>1 DEF SlotVars, IInv, TypeOK
  <2>6. \A q \in Requests \ {r} : Slot(q)'
    BY <2>5, OtherSlot DEF IInv, TypeOK
  <2>7. RequestShape(r) /\ PendShape(r) /\ CheckShape(r)
    BY DEF IInv
  <2>8. pc'[r] = next /\ pend'[r] = pend[r] \cup {j}
    BY <2>1 DEF IInv, TypeOK
  <2>9. RequestShape(r)'
    BY <2>1, <2>3, <2>7, <2>8
       DEF RequestShape, GatePcs, LogoutPcs, RefreshPcs, InFlight
  <2>10. CheckShape(r)'
    BY <2>1, <2>7, <2>8 DEF CheckShape, Loaded, Admitted, LogoutPcs, InFlight
  <2>11. PendShape(r)'
    <3>1. \A b : Decodes(b)' <=> Decodes(b)
      BY <2>3 DEF Decodes
    <3>2. CASE pc[r] = "revokeAccess"
      BY <3>1, <3>2, <2>1, <2>3, <2>7, <2>8 DEF PendShape
    <3>3. CASE pc[r] = "revokeRefresh"
      BY <3>1, <3>3, <2>1, <2>3, <2>7, <2>8
         DEF PendShape, RequestShape, LogoutPcs, InFlight
    <3>4. CASE pc[r] = "revokeOld"
      BY <3>4, <2>1, <2>7, <2>8 DEF PendShape
    <3>5. QED
      BY <3>2, <3>3, <3>4
  <2>12. QED
    BY <2>2, <2>3, <2>4, <2>6, <2>9, <2>10, <2>11, CollectInv DEF Slot
<1>3. QED
  BY <1>1, <1>2

\* What a commit does to the index: the rows of r move, nothing else.
LEMMA CommitFacts ==
  ASSUME IInv, NEW r \in Requests, Commit(r)
  PROVE  /\ UniqueIndex'
         /\ revoked' = revoked \cup pend[r] /\ revoked' \subseteq Jti
         /\ SlotTypes' /\ Slot(r)'
         /\ \A q \in Requests \ {r} : UNCHANGED SlotVars(q)
<1>1. TypeOK /\ UniqueIndex
  BY DEF IInv
<1>2. revoked' = revoked \cup pend[r] /\ Leave(r, "ok") /\ "ok" \in Finished
  BY DEF Commit, Finished
<1>3. /\ SlotTypes' /\ Slot(r)' /\ pend'[r] = {}
      /\ \A q \in Requests \ {r} : UNCHANGED SlotVars(q)
      /\ \A q \in Requests \ {r} : pend'[q] = pend[q]
  BY <1>1, <1>2, LeftSlot
<1>4. UniqueIndex'
  BY <1>1, <1>2, <1>3 DEF UniqueIndex
<1>5. QED
  BY <1>1, <1>2, <1>3, <1>4 DEF TypeOK

\* A logout's commit moves its rows into the table and ends its login.
LEMMA LogoutCommitStep ==
  ASSUME IInv, NEW r \in Requests, LogoutCommit(r)
  PROVE  IInv'
<1> USE DEF LogoutCommit
<1>1. /\ UniqueIndex' /\ SlotTypes' /\ Slot(r)'
      /\ revoked' = revoked \cup pend[r] /\ revoked' \subseteq Jti
      /\ \A q \in Requests \ {r} : UNCHANGED SlotVars(q)
  BY CommitFacts
<1>2. /\ PendShape(r) /\ TypeOK
      /\ ChainShape /\ OneLiveRefreshPerLogin /\ LogoutEndsLogin
  BY DEF IInv
<1>3. Issued' = Issued /\ Refreshes' = Refreshes
  BY DEF Issued, Refreshes
<1>4. TypeOK'
  BY <1>1, <1>2 DEF TypeOK, SlotTypes, Issued, Refreshes, Token
<1>5. \A q \in Requests \ {r} : Slot(q)'
  BY <1>1, <1>2, OtherSlot DEF TypeOK
<1>6. pend[r] \subseteq Issued
  BY <1>2 DEF PendShape
<1>7. ChainShape'
  BY <1>1, <1>2, <1>3, <1>6 DEF ChainShape, Refreshes
<1>8. OneLiveRefreshPerLogin'
  BY <1>1, <1>2, <1>3 DEF OneLiveRefreshPerLogin, Live
<1>9. LogoutEndsLogin'
  \* A refresh token of the login just ended is either the one this logout
  \* flushed or, that one being the login's only live token, already dead.
  <2>1. SUFFICES ASSUME NEW j \in Refreshes, token[j].root \in loggedOut',
                        j \notin revoked'
                 PROVE  FALSE
    BY <1>3 DEF LogoutEndsLogin
  <2>2. token[j].root \notin loggedOut
    BY <1>1, <1>2, <2>1 DEF LogoutEndsLogin
  <2>3. PICK k \in pend[r] \cap Refreshes : token[k].root = token[j].root
    BY <2>1, <2>2
  <2>4. k \notin revoked
    BY DEF IInv, UniqueIndex
  <2>5. j = k
    BY <1>1, <1>2, <2>1, <2>3, <2>4
       DEF OneLiveRefreshPerLogin, Live, Refreshes
  <2>6. QED
    BY <1>1, <2>1, <2>5
<1>10. QED
  BY <1>1, <1>4, <1>5, <1>7, <1>8, <1>9, CollectInv

\* The pair of values a login or a refresh takes from the supply.
LEMMA FreshPairFacts ==
  ASSUME FreshPairs # {}
  PROVE  \E a \in Jti \ Issued, f \in Jti \ Issued :
           a # f /\ FreshPair[1] = a /\ FreshPair[2] = f
<1>1. FreshPair \in FreshPairs
  BY DEF FreshPair
<1>2. QED
  BY <1>1 DEF FreshPairs

\* What issuing a pair does to the tokens that were there.
LEMMA PairFacts ==
  ASSUME TypeOK, NEW u \in Users, NEW a \in Jti \ Issued,
         NEW f \in Jti \ Issued, a # f, NEW now \in Nat,
         NEW from \in Jti \cup {NoJti}, NEW root \in Jti,
         token' = Pair(u, a, f, now, from, root)
  PROVE  /\ token' \in [Jti -> Token \cup {NoToken}]
         /\ \A j \in Issued : token'[j] = token[j]
         /\ Issued' = Issued \cup {a, f}
         /\ Refreshes' = Refreshes \cup {f}
         /\ token'[a].from = from /\ token'[f].from = from
         /\ token'[a].root = root /\ token'[f].root = root
<1> DEFINE A == [type |-> "access", user |-> u, exp |-> now + AccessTTL,
                 from |-> from, root |-> root]
           F == [type |-> "refresh", user |-> u, exp |-> now + RefreshTTL,
                 from |-> from, root |-> root]
<1>1. A \in Token /\ F \in Token
  BY SessionAssumption DEF Token
<1>2. A # NoToken /\ F # NoToken
  BY <1>1, SessionAssumption
<1>3. token' = [token EXCEPT ![a] = A, ![f] = F]
  BY DEF Pair
<1>4. token'[a] = A /\ token'[f] = F
      /\ \A j \in Jti \ {a, f} : token'[j] = token[j]
  BY <1>3 DEF TypeOK
<1>5. A.type = "access" /\ F.type = "refresh"
  OBVIOUS
<1>6. A.from = from /\ F.from = from /\ A.root = root /\ F.root = root
  OBVIOUS
<1>7. token' \in [Jti -> Token \cup {NoToken}]
  <2> HIDE DEF A, F
  <2>1. QED BY <1>1, <1>3 DEF TypeOK
<1>8. Issued' = Issued \cup {a, f} /\ Refreshes' = Refreshes \cup {f}
  <2> HIDE DEF A, F
  <2>1. QED BY <1>2, <1>4, <1>5 DEF Issued, Refreshes
<1>9. QED
  <2> HIDE DEF A, F
  <2>1. QED BY <1>4, <1>6, <1>7, <1>8 DEF Issued

LEMMA LoginStep ==
  ASSUME IInv, NEW u \in Users, Login(u)
  PROVE  IInv'
<1>1. PICK a \in Jti \ Issued, f \in Jti \ Issued :
        a # f /\ token' = Pair(u, a, f, clock, NoJti, f)
  BY FreshPairFacts DEF Login
<1>2. /\ TypeOK /\ ChainShape /\ OneLiveRefreshPerLogin /\ LogoutEndsLogin
      /\ UniqueIndex
  BY DEF IInv
<1>3. /\ token' \in [Jti -> Token \cup {NoToken}]
      /\ \A j \in Issued : token'[j] = token[j]
      /\ Issued' = Issued \cup {a, f} /\ Refreshes' = Refreshes \cup {f}
      /\ token'[a].from = NoJti /\ token'[f].from = NoJti
      /\ token'[a].root = f /\ token'[f].root = f
  <2>1. clock \in Nat /\ NoJti \in Jti \cup {NoJti} /\ f \in Jti
    BY <1>2 DEF TypeOK
  <2>2. QED
    BY <1>1, <1>2, <2>1, PairFacts
<1> USE DEF Login, dbVars, histVars
<1>4. TypeOK'
  BY <1>2, <1>3 DEF TypeOK
<1>5. \A q \in Requests : Slot(q)'
  BY <1>2, <1>3, OtherSlot DEF TypeOK, SlotVars
<1>6. UniqueIndex'
  BY <1>2 DEF UniqueIndex
<1>7. ChainShape'
  BY <1>2, <1>3 DEF ChainShape
<1>8. OneLiveRefreshPerLogin'
  BY <1>2, <1>3 DEF OneLiveRefreshPerLogin, ChainShape, Live, Refreshes
<1>9. LogoutEndsLogin'
  BY <1>2, <1>3 DEF LogoutEndsLogin, ChainShape, Refreshes
<1>10. QED
  BY <1>4, <1>5, <1>6, <1>7, <1>8, <1>9, CollectInv

\* A refresh's commit: the old token, which was its login's only live one, is
\* blacklisted in the same step that makes its successor live.
LEMMA RefreshCommitStep ==
  ASSUME IInv, NEW r \in Requests, RefreshCommit(r)
  PROVE  IInv'
<1> DEFINE old == jti[r]
<1>1. /\ UniqueIndex' /\ SlotTypes' /\ Slot(r)'
      /\ revoked' = revoked \cup pend[r] /\ revoked' \subseteq Jti
      /\ \A q \in Requests \ {r} : UNCHANGED SlotVars(q)
  BY CommitFacts DEF RefreshCommit
<1>2. /\ RequestShape(r) /\ PendShape(r)
      /\ TypeOK /\ ChainShape /\ OneLiveRefreshPerLogin /\ LogoutEndsLogin
  BY DEF IInv
<1>3. /\ pend[r] = {old} /\ old \in Refreshes /\ old \notin revoked
      /\ revoked' = revoked \cup {old}
  BY <1>1, <1>2 DEF RefreshCommit, RequestShape, PendShape, RefreshPcs, IInv,
                    UniqueIndex, Refreshes, InFlight
<1>4. PICK a \in Jti \ Issued, f \in Jti \ Issued :
        /\ a # f
        /\ token' = Pair(token[old].user, a, f, flushedAt[r], old,
                         token[old].root)
  BY FreshPairFacts DEF RefreshCommit
<1>5. /\ token' \in [Jti -> Token \cup {NoToken}]
      /\ \A j \in Issued : token'[j] = token[j]
      /\ Issued' = Issued \cup {a, f} /\ Refreshes' = Refreshes \cup {f}
      /\ token'[a].from = old /\ token'[f].from = old
      /\ token'[a].root = token[old].root /\ token'[f].root = token[old].root
  <2>1. token[old] \in Token /\ flushedAt[r] \in Nat /\ old \in Jti
    BY <1>2, <1>3 DEF TypeOK, Refreshes, Issued
  <2>2. /\ token[old].user \in Users /\ token[old].root \in Jti
        /\ old \in Jti \cup {NoJti}
    BY <2>1 DEF Token
  <2>3. QED
    BY <1>2, <1>4, <2>1, <2>2, PairFacts
<1>6. UNCHANGED <<clock, active, loggedOut>>
  BY DEF RefreshCommit
<1>7. TypeOK'
  BY <1>1, <1>2, <1>5, <1>6 DEF TypeOK, SlotTypes
<1>8. \A q \in Requests \ {r} : Slot(q)'
  BY <1>1, <1>2, <1>5, <1>6, OtherSlot DEF TypeOK
<1>11. ChainShape'
  BY <1>2, <1>3, <1>5, <1>6 DEF ChainShape, Refreshes
<1>12. f \notin revoked' /\ token[old].root \notin loggedOut
  BY <1>2, <1>3 DEF ChainShape, LogoutEndsLogin, Refreshes
<1>13. OneLiveRefreshPerLogin'
  <2>1. SUFFICES ASSUME NEW j \in Refreshes', NEW k \in Refreshes',
                        Live(j)', Live(k)', token'[j].root = token'[k].root
                 PROVE  j = k
    BY DEF OneLiveRefreshPerLogin
  <2>2. j \notin revoked' /\ k \notin revoked'
    BY <2>1 DEF Live
  <2>3. ASSUME NEW i \in Refreshes, i \notin revoked'
        PROVE  token'[i].root # token[old].root
    <3>1. token'[i] = token[i] /\ i # old /\ i \notin revoked
      BY <1>3, <1>5, <2>3 DEF Refreshes
    <3>2. QED
      BY <1>2, <1>3, <3>1 DEF OneLiveRefreshPerLogin, Live, Refreshes
  <2>4. CASE j = f \/ k = f
    BY <1>5, <2>1, <2>2, <2>3, <2>4
  <2>5. CASE j \in Refreshes /\ k \in Refreshes
    BY <1>1, <1>2, <1>5, <2>1, <2>2, <2>5
       DEF OneLiveRefreshPerLogin, Live, Refreshes
  <2>6. QED
    BY <1>5, <2>1, <2>4, <2>5
<1>14. LogoutEndsLogin'
  BY <1>1, <1>2, <1>5, <1>6, <1>12 DEF LogoutEndsLogin, Refreshes
<1>15. QED
  BY <1>1, <1>7, <1>8, <1>11, <1>13, <1>14, CollectInv

LEMMA SetActiveStep ==
  ASSUME IInv, NEW u \in Users, SetActive(u)
  PROVE  IInv'
<1> USE DEF SetActive
<1>1. ChainShape' /\ OneLiveRefreshPerLogin' /\ LogoutEndsLogin'
      /\ Issued' = Issued /\ Refreshes' = Refreshes
  BY TablesUnchanged
<1>2. TypeOK'
  BY DEF IInv, TypeOK
<1>3. UniqueIndex'
  BY DEF IInv, UniqueIndex
<1>4. ASSUME NEW r \in Requests
      PROVE  Slot(r)'
  <2>1. RequestShape(r) /\ PendShape(r) /\ CheckShape(r)
    BY DEF IInv
  <2>2. \A j : Decodes(j)' <=> Decodes(j)
    BY <1>1 DEF Decodes
  <2>3. RequestShape(r)' /\ PendShape(r)'
    BY <1>1, <2>1, <2>2 DEF RequestShape, PendShape
  <2>4. dormant'[r] <=> (dormant[r] /\ (jti[r] \in Issued
                                        => ~active'[token[jti[r]].user]))
    BY DEF IInv, TypeOK
  <2>5. CheckShape(r)'
    BY <2>1, <2>4 DEF CheckShape, RequestShape
  <2>6. QED
    BY <2>3, <2>5 DEF Slot
<1>5. QED
  BY <1>1, <1>2, <1>3, <1>4, CollectInv

LEMMA TickStep == IInv /\ Tick => IInv'
<1> SUFFICES ASSUME IInv, Tick PROVE IInv'
  OBVIOUS
<1> USE DEF Tick, dbVars, histVars
<1>1. ChainShape' /\ OneLiveRefreshPerLogin' /\ LogoutEndsLogin'
  BY TablesUnchanged
<1>2. TypeOK' /\ UniqueIndex'
  BY DEF IInv, TypeOK, UniqueIndex
<1>3. \A q \in Requests : Slot(q)'
  BY OtherSlot DEF IInv, TypeOK, SlotVars
<1>4. QED
  BY <1>1, <1>2, <1>3, CollectInv

-----------------------------------------------------------------------------
(* The theorems.                                                           *)

LEMMA StepInv ==
  ASSUME IInv, NEW r \in Requests, Step(r)
  PROVE  IInv'
<1>1. RequestShape(r) /\ PendShape(r) /\ TypeOK
  BY DEF IInv
<1>2. {"idle", "ok", "conflict"} \subseteq Finished
  BY DEF Finished
<1>3. CASE GateCheckRevoked(r)
  BY <1>1, <1>2, <1>3, LeaveStep, GotoStep
     DEF GateCheckRevoked, IsRevoked, PendShape
<1>4. CASE GateLoadUser(r)
  BY <1>1, <1>2, <1>4, LeaveStep, GotoStep DEF GateLoadUser, PendShape
<1>5. CASE RefreshCheckRevoked(r)
  BY <1>1, <1>2, <1>5, LeaveStep, GotoStep
     DEF RefreshCheckRevoked, IsRevoked, PendShape
<1>6. CASE RefreshLoadUser(r)
  BY <1>1, <1>2, <1>6, LeaveStep, GotoStep DEF RefreshLoadUser, PendShape
<1>7. CASE LogoutRevokeAccess(r)
  <2>1. jti[r] \in Issued
    BY <1>1, <1>7 DEF LogoutRevokeAccess, RequestShape, InFlight
  <2>2. QED
    BY <1>7, <2>1, RevokeStep DEF LogoutRevokeAccess
<1>8. CASE LogoutRevokeRefresh(r)
  <2>1. body[r] \in Issued
    BY <1>1, <1>8 DEF LogoutRevokeRefresh, RequestShape, Refreshes
  <2>2. QED
    BY <1>8, <2>1, RevokeStep DEF LogoutRevokeRefresh
<1>9. CASE RefreshRevokeOld(r)
  <2>1. jti[r] \in Issued
    BY <1>1, <1>9 DEF RefreshRevokeOld, RequestShape, InFlight
  <2>2. QED
    BY <1>9, <2>1, RevokeStep DEF RefreshRevokeOld
<1>10. QED
  BY <1>3, <1>4, <1>5, <1>6, <1>7, <1>8, <1>9, LogoutCommitStep,
     RefreshCommitStep DEF Step

LEMMA NextInv == IInv /\ [Next]_vars => IInv'
<1> SUFFICES ASSUME IInv, [Next]_vars PROVE IInv'
  OBVIOUS
<1>1. ASSUME NEW u \in Users, Login(u) \/ SetActive(u) PROVE IInv'
  BY <1>1, LoginStep, SetActiveStep
<1>2. ASSUME NEW r \in Requests, ApiArrive(r) \/ LogoutArrive(r) \/ RefreshArrive(r)
      PROVE  IInv'
  BY <1>2, ArriveStep DEF ApiArrive, LogoutArrive, RefreshArrive, Refreshes
<1>3. ASSUME NEW r \in Requests, Abort(r) PROVE IInv'
  BY <1>3, LeaveStep DEF Abort, Finished
<1>4. CASE UNCHANGED vars
  BY <1>4, TablesUnchanged, OtherSlot, CollectInv DEF vars, dbVars, histVars,
     SlotVars, IInv, TypeOK, UniqueIndex
<1>5. QED
  BY <1>1, <1>2, <1>3, <1>4, StepInv, TickStep DEF Next

\* Every state the requests can reach satisfies the inductive invariant.
THEOREM Invariance == Spec => []IInv
BY InitInv, NextInv, PTL DEF Spec

\* The variables stay in their types (the bookkeeping of every other proof).
THEOREM TypeCorrect == Spec => []TypeOK
<1>1. IInv => TypeOK
  BY DEF IInv
<1>2. QED
  BY <1>1, Invariance, PTL

\* A session never forks, however many requests present its refresh token.
THEOREM SessionNeverForks == Spec => []OneLiveRefreshPerLogin
<1>1. IInv => OneLiveRefreshPerLogin
  BY DEF IInv
<1>2. QED
  BY <1>1, Invariance, PTL

\* A logout that revoked a refresh token ends that login for good.
THEOREM LogoutIsFinal == Spec => []LogoutEndsLogin
<1>1. IInv => LogoutEndsLogin
  BY DEF IInv
<1>2. QED
  BY <1>1, Invariance, PTL

\* The three statements after which a request is answered 2xx.
LEMMA WhoAnswers ==
  ASSUME IInv, [Next]_vars, NEW r \in Requests, pc[r] \in InFlight,
         pc'[r] = "ok"
  PROVE  \/ GateLoadUser(r) /\ op[r] # "logout"
            /\ active[token[jti[r]].user]
         \/ LogoutCommit(r)
         \/ RefreshCommit(r)
<1>1. pc \in [Requests -> Finished \cup InFlight]
  BY DEF IInv, TypeOK
<1>2. "ok" \notin InFlight /\ "idle" \notin InFlight /\ "conflict" \notin InFlight
  BY DEF InFlight
<1>3. ASSUME NEW q \in Requests, NEW next, Goto(q, next), next # "ok"
      PROVE  FALSE
  BY <1>1, <1>2, <1>3 DEF Goto
<1>4. ASSUME NEW q \in Requests, NEW answer, Leave(q, answer)
      PROVE  q = r /\ answer = "ok"
  BY <1>1, <1>2, <1>4 DEF Leave
<1>5. ASSUME NEW q \in Requests, NEW j, NEW next, Revoke(q, j, next),
             next # "ok"
      PROVE  FALSE
  <2>1. CASE Leave(q, "conflict")
    BY <1>4, <2>1
  <2>2. CASE pc' = [pc EXCEPT ![q] = next]
    BY <1>1, <1>2, <1>5, <2>2
  <2>3. QED
    BY <1>5, <2>1, <2>2 DEF Revoke
<1>6. ASSUME NEW q \in Requests,
             ApiArrive(q) \/ LogoutArrive(q) \/ RefreshArrive(q)
      PROVE  FALSE
  BY <1>1, <1>2, <1>6 DEF ApiArrive, LogoutArrive, RefreshArrive, Arrive
<1>7. ASSUME NEW q \in Requests, Abort(q) PROVE FALSE
  BY <1>4, <1>7 DEF Abort
<1>8. ASSUME NEW q \in Requests,
             \/ GateCheckRevoked(q) \/ RefreshCheckRevoked(q)
             \/ RefreshLoadUser(q)
      PROVE  FALSE
  BY <1>3, <1>4, <1>8 DEF GateCheckRevoked, RefreshCheckRevoked, RefreshLoadUser
<1>9. ASSUME NEW q \in Requests,
             \/ LogoutRevokeAccess(q) \/ LogoutRevokeRefresh(q)
             \/ RefreshRevokeOld(q)
      PROVE  FALSE
  BY <1>5, <1>9 DEF LogoutRevokeAccess, LogoutRevokeRefresh, RefreshRevokeOld
<1>10. ASSUME NEW q \in Requests, GateLoadUser(q)
       PROVE  q = r /\ op[r] # "logout" /\ active[token[jti[r]].user]
  BY <1>3, <1>4, <1>10 DEF GateLoadUser
<1>11. ASSUME NEW q \in Requests, LogoutCommit(q) \/ RefreshCommit(q)
       PROVE  q = r
  BY <1>4, <1>11 DEF LogoutCommit, RefreshCommit, Commit
<1>12. ASSUME \/ \E u \in Users : Login(u) \/ SetActive(u)
              \/ Tick \/ UNCHANGED vars
       PROVE  FALSE
  BY <1>2, <1>12 DEF Login, SetActive, Tick, vars
<1>13. QED
  BY <1>6, <1>7, <1>8, <1>9, <1>10, <1>11, <1>12 DEF Next, Step

\* After a 2xx logout neither of its tokens can be used.
THEOREM LogoutRevokesBoth == Spec => LogoutComplete
<1> DEFINE Done(r) ==
      (op[r] = "logout" /\ pc[r] \in InFlight /\ pc'[r] = "ok") =>
        /\ jti[r] \in revoked'
        /\ body[r] \in Refreshes => body[r] \in revoked' \/ ~Decodes(body[r])
<1>1. IInv /\ [Next]_vars => [\A r \in Requests : Done(r)]_vars
  <2> SUFFICES ASSUME IInv, [Next]_vars, NEW r \in Requests, op[r] = "logout",
                      pc[r] \in InFlight, pc'[r] = "ok"
               PROVE  /\ jti[r] \in revoked'
                      /\ body[r] \in Refreshes =>
                           body[r] \in revoked' \/ ~Decodes(body[r])
    OBVIOUS
  <2>1. RequestShape(r) /\ PendShape(r)
    BY DEF IInv
  <2>2. ~RefreshCommit(r)
    BY <2>1 DEF RefreshCommit, RequestShape, RefreshPcs
  <2>3. LogoutCommit(r)
    BY <2>2, WhoAnswers
  <2>4. QED
    BY <2>1, <2>3 DEF LogoutCommit, Commit, PendShape
<1>2. QED
  BY <1>1, Invariance, PTL DEF Spec, LogoutComplete

\* No request is served with a token that was revoked, or for a user who was
\* inactive, all the while it was being handled.
THEOREM OnlyAuthorisedServed == Spec => ServedOnlyIfAuthorised
<1> DEFINE Authorised(r) ==
      (pc[r] \in InFlight /\ pc'[r] = "ok") => ~stale[r] /\ ~dormant[r]
<1>1. IInv /\ [Next]_vars => [\A r \in Requests : Authorised(r)]_vars
  <2> SUFFICES ASSUME IInv, [Next]_vars, NEW r \in Requests,
                      pc[r] \in InFlight, pc'[r] = "ok"
               PROVE  ~stale[r] /\ ~dormant[r]
    OBVIOUS
  <2>1. CheckShape(r) /\ dormant[r] \in BOOLEAN
    BY DEF IInv, TypeOK
  <2>2. CASE GateLoadUser(r) /\ active[token[jti[r]].user]
    BY <2>1, <2>2 DEF GateLoadUser, CheckShape, Admitted
  <2>3. CASE LogoutCommit(r) \/ RefreshCommit(r)
    BY <2>1, <2>3 DEF LogoutCommit, RefreshCommit, CheckShape, Loaded, LogoutPcs
  <2>4. QED
    BY <2>2, <2>3, WhoAnswers
<1>2. QED
  BY <1>1, Invariance, PTL DEF Spec, ServedOnlyIfAuthorised
=============================================================================
