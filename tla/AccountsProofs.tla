--------------------------- MODULE AccountsProofs ---------------------------
(***************************************************************************)
(* IInv is an invariant of Accounts for every number of requests, accounts *)
(* and tokens; the safety properties follow from it.                       *)
(***************************************************************************)
EXTENDS Accounts, FiniteSetTheorems, TLAPS

USE DEF At

\* What IInv says of one request.
SlotShape(r) == LocalShape(r) /\ HoldShape(r) /\ RowShape(r)

LEMMA InitInv == Init => IInv
<1> SUFFICES ASSUME Init PROVE IInv
  OBVIOUS
<1> USE DEF Init
<1>1. TablesOK
  BY DEF TablesOK
<1>2. LocalsOK /\ LocksExclude
  BY DEF LocalsOK, LocksExclude, Finished
<1>3. \A r \in Requests : pc[r] = "idle" /\ holds[r] = {}
  OBVIOUS
<1>4. FreshShape
  BY <1>3 DEF FreshShape, InFlight
<1>5. LinkShape
  BY DEF LinkShape
<1>6. VerifiedLinkIsGone
  BY DEF VerifiedLinkIsGone
<1>7. \A r \in Requests : LocalShape(r) /\ HoldShape(r) /\ RowShape(r)
  BY <1>3 DEF LocalShape, HoldShape, RowShape, InFlight, Changing, Registering, Verifying,
              Resetting, Drawing, Forgetting
<1>8. QED
  BY <1>1, <1>2, <1>4, <1>5, <1>6, <1>7 DEF IInv, TypeOK

-----------------------------------------------------------------------------
(* How a request moves                                                     *)

\* The other requests stay where they are.
Others(r) ==
  \A q \in Requests \ {r} :
    /\ pc'[q] = pc[q] /\ who'[q] = who[q] /\ tok'[q] = tok[q] /\ pw'[q] = pw[q]
    /\ hit'[q] = hit[q] /\ holds'[q] = holds[q]

\* r has gone on to another statement of its request.
GoesOn(r, next) ==
  /\ Others(r)
  /\ pc'[r] = next /\ who'[r] = who[r] /\ tok'[r] = tok[r] /\ pw'[r] = pw[r]

LEMMA RowNames ==
  /\ \A e, t : User(e) # TokenRow(t)
  /\ \A e, f : User(e) = User(f) => e = f
  /\ \A t, u : TokenRow(t) = TokenRow(u) => t = u
BY DEF User, TokenRow

LEMMA LeaveMoves ==
  ASSUME LocalsOK, LocksExclude, NEW r \in Requests, NEW answer \in {"ok", "failed"},
         Leave(r, answer)
  PROVE  LocalsOK' /\ LocksExclude' /\ Others(r) /\ pc'[r] = answer /\ holds'[r] = {}
<1> USE DEF Leave
<1>1. Others(r) /\ pc'[r] = answer /\ holds'[r] = {}
  BY DEF Others, LocalsOK
<1>2. LocksExclude'
  BY <1>1 DEF LocksExclude, Others
<1>3. LocalsOK'
  BY DEF LocalsOK, Finished
<1>4. QED
  BY <1>1, <1>2, <1>3

LEMMA ReadsMoves ==
  ASSUME LocalsOK, LocksExclude, NEW r \in Requests, NEW next \in InFlight, Reads(r, next)
  PROVE  /\ LocalsOK' /\ LocksExclude' /\ GoesOn(r, next)
         /\ hit'[r] = hit[r] /\ holds'[r] = holds[r]
<1> USE DEF Reads, Goto
<1>1. GoesOn(r, next) /\ hit'[r] = hit[r] /\ holds'[r] = holds[r]
  BY DEF GoesOn, Others, LocalsOK
<1>2. LocksExclude'
  BY DEF LocksExclude
<1>3. LocalsOK'
  BY DEF LocalsOK
<1>4. QED
  BY <1>1, <1>2, <1>3

LEMMA WritesMoves ==
  ASSUME LocalsOK, LocksExclude, NEW r \in Requests, NEW next \in InFlight,
         Writes(r, next), Wants(r) \subseteq Rows
  PROVE  /\ LocalsOK' /\ LocksExclude' /\ GoesOn(r, next)
         /\ hit'[r] = hit[r] /\ holds'[r] = holds[r] \cup Wants(r)
<1>1. /\ Free(r, Wants(r)) /\ holds' = [holds EXCEPT ![r] = @ \cup Wants(r)]
      /\ pc' = [pc EXCEPT ![r] = next] /\ UNCHANGED <<who, tok, pw, hit>>
  BY DEF Writes, Goto
<1>2. holds'[r] = holds[r] \cup Wants(r)
  BY <1>1 DEF LocalsOK
<1>3. GoesOn(r, next) /\ hit'[r] = hit[r]
  BY <1>1 DEF GoesOn, Others, LocalsOK
<1>4. LocksExclude'
  BY <1>1, <1>2, <1>3 DEF LocksExclude, Free, GoesOn, Others
<1>5. LocalsOK'
  BY <1>1 DEF LocalsOK
<1>6. QED
  BY <1>2, <1>3, <1>4, <1>5

LEMMA ArriveMoves ==
  ASSUME LocalsOK, LocksExclude, NEW r \in Requests, NEW first \in InFlight,
         NEW e \in Emails, NEW t \in Tokens \cup {NoToken},
         NEW p \in Passwords \cup {NoPassword}, Arrive(r, first, e, t, p)
  PROVE  /\ LocalsOK' /\ LocksExclude' /\ Others(r)
         /\ pc'[r] = first /\ who'[r] = e /\ tok'[r] = t /\ pw'[r] = p
         /\ holds'[r] = holds[r]
<1> USE DEF Arrive
<1>1. Others(r) /\ pc'[r] = first /\ who'[r] = e /\ tok'[r] = t /\ pw'[r] = p
  BY DEF Others, LocalsOK
<1>2. LocksExclude'
  BY DEF LocksExclude
<1>3. LocalsOK'
  BY DEF LocalsOK
<1>4. QED
  BY <1>1, <1>2, <1>3

-----------------------------------------------------------------------------
(* What the others rely on                                                 *)

\* As long as nothing is committed the other requests keep their shapes.
LEMMA OthersKeep ==
  ASSUME NEW r \in Requests, NEW q \in Requests, q # r, SlotShape(q),
         Others(r), UNCHANGED tables, issued \subseteq issued'
  PROVE  SlotShape(q)'
<1> USE DEF Others, tables
<1>1. LocalShape(q)'
  BY DEF SlotShape, LocalShape
<1>2. HoldShape(q)'
  BY DEF SlotShape, HoldShape
<1>3. RowShape(q)'
  BY DEF SlotShape, RowShape, Exists, Unused
<1>4. QED
  BY <1>1, <1>2, <1>3 DEF SlotShape

\* A request that has ended relies on nothing.
LEMMA EndedShape ==
  ASSUME NEW r \in Requests, pc'[r] \in {"ok", "failed"}, holds'[r] = {}
  PROVE  SlotShape(r)'
BY DEF SlotShape, LocalShape, HoldShape, RowShape, InFlight, Registering, Verifying,
       Forgetting, Resetting, Changing, Drawing

\* Tokens stay apart while nobody draws one.
LEMMA FreshKeeps ==
  ASSUME FreshShape,
         \A q \in Requests : pc'[q] \in InFlight =>
           /\ pc[q] \in InFlight /\ tok'[q] = tok[q]
           /\ pc'[q] \in Drawing => pc[q] \in Drawing
  PROVE  FreshShape'
BY DEF FreshShape, Drawing, Registering, Forgetting, InFlight

\* A step of r that commits nothing.
LEMMA QuietStep ==
  ASSUME IInv, NEW r \in Requests, Uncommitted, LocalsOK', LocksExclude', Others(r),
         pc'[r] \in InFlight => /\ pc[r] \in InFlight /\ tok'[r] = tok[r]
                                /\ pc'[r] \in Drawing => pc[r] \in Drawing,
         SlotShape(r)'
  PROVE  IInv'
<1> USE DEF Uncommitted
<1>1. TypeOK'
  BY DEF IInv, TypeOK, TablesOK, tables
<1>2. FreshShape'
  BY FreshKeeps DEF IInv, Others
<1>3. LinkShape' /\ VerifiedLinkIsGone'
  BY DEF IInv, LinkShape, VerifiedLinkIsGone, tables, Exists
<1>4. ASSUME NEW q \in Requests PROVE SlotShape(q)'
  BY <1>4, OthersKeep DEF IInv, SlotShape
<1>5. QED
  BY <1>1, <1>2, <1>3, <1>4 DEF IInv, SlotShape

-----------------------------------------------------------------------------
(* Statements                                                              *)

LEMMA FailInv ==
  ASSUME IInv, NEW r \in Requests, Leave(r, "failed"), Uncommitted
  PROVE  IInv'
<1>1. LocalsOK' /\ LocksExclude' /\ Others(r) /\ pc'[r] = "failed" /\ holds'[r] = {}
  BY LeaveMoves DEF IInv, TypeOK
<1>2. SlotShape(r)'
  BY <1>1, EndedShape
<1>3. QED
  BY <1>1, <1>2, QuietStep DEF InFlight

USE DEF Registering, Verifying, Forgetting, Resetting, Changing, Drawing

\* The statements that write a row.
LEMMA WriteInv ==
  ASSUME IInv, NEW r \in Requests, NEW next, Writes(r, next), Uncommitted,
         \/ pc[r] = "insertUser" /\ next = "registerCommit" /\ ~Exists(who[r])
         \/ pc[r] = "verifyUser" /\ next = "deleteToken"
         \/ pc[r] = "deleteToken" /\ next = "verifyCommit"
         \/ pc[r] = "insertReset" /\ next = "forgotCommit"
         \/ pc[r] = "resetUser" /\ next = "resetToken"
         \/ pc[r] = "resetToken" /\ next = "resetCommit" /\ resetRow[tok[r]] # NoRow
         \/ pc[r] = "changeUser" /\ next = "changeCommit"
  PROVE  IInv'
<1>1. LocalShape(r) /\ HoldShape(r) /\ RowShape(r) /\ LocalsOK /\ LocksExclude /\ TablesOK
  BY DEF IInv, TypeOK
<1>2. pc[r] \in InFlight /\ next \in InFlight
  BY DEF InFlight
<1>3. who[r] \in Emails /\ (pc[r] # "changeUser" => tok[r] \in Tokens)
  BY <1>1, <1>2 DEF LocalShape, TablesOK
<1>4. Wants(r) \subseteq Rows
  BY <1>3 DEF Wants, Rows
<1>5. /\ LocalsOK' /\ LocksExclude' /\ GoesOn(r, next)
      /\ hit'[r] = hit[r] /\ holds'[r] = holds[r] \cup Wants(r)
  BY <1>1, <1>2, <1>4, WritesMoves
<1>6. LocalShape(r)'
  BY <1>1, <1>2, <1>5 DEF LocalShape, GoesOn, Uncommitted
<1>7. HoldShape(r)'
  BY <1>1, <1>5 DEF HoldShape, GoesOn, Wants, Finished
<1>8. RowShape(r)'
  BY <1>1, <1>5 DEF RowShape, GoesOn, Uncommitted, tables, Exists, Unused
<1>9. QED
  BY <1>2, <1>5, <1>6, <1>7, <1>8, QuietStep DEF SlotShape, GoesOn

LEMMA InsertUserInv ==
  ASSUME IInv, NEW r \in Requests, InsertUser(r)
  PROVE  IInv'
BY WriteInv, FailInv DEF InsertUser

LEMMA VerifyLoadInv ==
  ASSUME IInv, NEW r \in Requests, VerifyLoad(r)
  PROVE  IInv'
<1> DEFINE next == IF verified[who[r]] THEN "deleteToken" ELSE "verifyUser"
<1>1. LocalShape(r) /\ HoldShape(r) /\ RowShape(r) /\ LocalsOK /\ LocksExclude
  BY DEF IInv, TypeOK
<1>2. next \in {"deleteToken", "verifyUser"} /\ next \in InFlight /\ pc[r] = "verifyLoad"
  BY DEF VerifyLoad, InFlight
<1> HIDE DEF next
<1>3. Reads(r, next) /\ Uncommitted
  BY DEF VerifyLoad, next
<1>4. /\ LocalsOK' /\ LocksExclude' /\ GoesOn(r, next)
      /\ hit'[r] = hit[r] /\ holds'[r] = holds[r]
  BY <1>1, <1>2, <1>3, ReadsMoves
<1>5. LocalShape(r)' /\ HoldShape(r)'
  BY <1>1, <1>2, <1>3, <1>4 DEF LocalShape, HoldShape, GoesOn, Uncommitted, InFlight, Finished
<1>6. RowShape(r)'
  BY <1>1, <1>2, <1>3, <1>4 DEF RowShape, GoesOn, Uncommitted, tables, Exists
<1>7. QED
  BY <1>2, <1>3, <1>4, <1>5, <1>6, QuietStep DEF SlotShape, GoesOn, InFlight

LEMMA DeleteUnusedInv ==
  ASSUME IInv, NEW r \in Requests, DeleteUnused(r)
  PROVE  IInv'
<1> USE DEF DeleteUnused, Goto
<1>1. LocalShape(r) /\ HoldShape(r) /\ RowShape(r) /\ LocalsOK /\ LocksExclude
  BY DEF IInv, TypeOK
<1>2. LocalsOK'
  BY <1>1 DEF LocalsOK, InFlight, Unused
<1>3. LocksExclude'
  BY <1>1 DEF LocksExclude
<1>4. GoesOn(r, "deleteWait") /\ holds'[r] = holds[r]
  BY <1>1 DEF GoesOn, Others, LocalsOK
<1>5. LocalShape(r)' /\ HoldShape(r)'
  BY <1>1, <1>4 DEF LocalShape, HoldShape, GoesOn, Uncommitted, InFlight, Finished
<1>6. RowShape(r)'
  BY <1>1, <1>4 DEF RowShape, GoesOn, Uncommitted, tables
<1>7. QED
  BY <1>2, <1>3, <1>4, <1>5, <1>6, QuietStep DEF SlotShape, GoesOn, InFlight

LEMMA DeleteWaitInv ==
  ASSUME IInv, NEW r \in Requests, DeleteWait(r)
  PROVE  IInv'
<1> DEFINE rows == hit[r] \cap Unused(who[r])
           locked == {TokenRow(t) : t \in rows}
<1>1. LocalShape(r) /\ HoldShape(r) /\ RowShape(r) /\ LocalsOK /\ LocksExclude
  BY DEF IInv, TypeOK
<1>2. /\ pc[r] = "deleteWait" /\ Free(r, Wants(r)) /\ Uncommitted
      /\ hit' = [hit EXCEPT ![r] = rows] /\ holds' = [holds EXCEPT ![r] = @ \cup locked]
      /\ pc' = [pc EXCEPT ![r] = "insertReset"] /\ UNCHANGED <<who, tok, pw>>
  BY DEF DeleteWait, Goto
<1>3. rows \subseteq Tokens /\ rows \subseteq Unused(who[r])
  BY DEF Unused
<1>4. locked \subseteq Rows /\ locked \subseteq Wants(r)
  BY <1>2, <1>3 DEF Rows, Wants
<1> HIDE DEF rows, locked
<1>5. /\ GoesOn(r, "insertReset") /\ hit'[r] = rows /\ holds'[r] = holds[r] \cup locked
  BY <1>1, <1>2 DEF GoesOn, Others, LocalsOK
<1>6. LocalsOK'
  BY <1>1, <1>2, <1>3, <1>4 DEF LocalsOK, InFlight
<1>7. LocksExclude'
  BY <1>1, <1>2, <1>4, <1>5 DEF LocksExclude, Free, GoesOn, Others
<1>8. LocalShape(r)'
  BY <1>1, <1>2, <1>5 DEF LocalShape, GoesOn, Uncommitted, InFlight
<1>9. HoldShape(r)'
  <2>1. holds'[r] = {TokenRow(t) : t \in hit'[r]}
    BY <1>1, <1>2, <1>5 DEF HoldShape, locked
  <2>2. QED
    BY <1>5, <2>1 DEF HoldShape, GoesOn, Finished
<1>10. RowShape(r)'
  BY <1>1, <1>2, <1>3, <1>5 DEF RowShape, GoesOn, Uncommitted, tables, Unused
<1>11. QED
  BY <1>2, <1>5, <1>6, <1>7, <1>8, <1>9, <1>10, QuietStep DEF SlotShape, GoesOn, InFlight

-----------------------------------------------------------------------------
(* Commits                                                                 *)

\* What is left to show of a commit is what it does to the tables.
LEMMA CommitStep ==
  ASSUME IInv, NEW r \in Requests, Leave(r, "ok"), UNCHANGED <<expired, issued>>,
         TablesOK', LinkShape', VerifiedLinkIsGone',
         \A q \in Requests \ {r} : RowShape(q)'
  PROVE  IInv'
<1>1. LocalsOK' /\ LocksExclude' /\ Others(r) /\ pc'[r] = "ok" /\ holds'[r] = {}
  BY LeaveMoves DEF IInv, TypeOK
<1>2. FreshShape'
  BY <1>1, FreshKeeps DEF IInv, Others, InFlight
<1>3. ASSUME NEW q \in Requests PROVE SlotShape(q)'
  <2>1. CASE q = r
    BY <1>1, <2>1, EndedShape
  <2>2. CASE q # r
    <3>1. LocalShape(q)'
      BY <1>1, <2>2 DEF IInv, LocalShape, Others
    <3>2. HoldShape(q)'
      BY <1>1, <2>2 DEF IInv, HoldShape, Others
    <3>3. QED
      BY <2>2, <3>1, <3>2 DEF SlotShape
  <2>3. QED
    BY <2>1, <2>2
<1>4. QED
  BY <1>1, <1>2, <1>3 DEF IInv, TypeOK, SlotShape

\* What a request in flight has not to fear of another.
LEMMA Apart ==
  ASSUME IInv, NEW r \in Requests, NEW q \in Requests, q # r, Leave(r, "ok")
  PROVE  /\ RowShape(q) /\ HoldShape(q) /\ LocalShape(q)
         /\ pc'[q] = pc[q] /\ who'[q] = who[q] /\ tok'[q] = tok[q] /\ hit'[q] = hit[q]
         /\ holds[q] \cap holds[r] = {}
         /\ pc[q] \in Drawing /\ pc[r] \in InFlight => tok[q] # tok[r]
         /\ pc[r] \in Drawing /\ pc[q] \in InFlight => tok[q] # tok[r]
<1>1. Others(r)
  BY LeaveMoves DEF IInv, TypeOK
<1>2. QED
  BY <1>1 DEF IInv, TypeOK, LocksExclude, FreshShape, Others

LEMMA RegisterCommitInv ==
  ASSUME IInv, NEW r \in Requests, RegisterCommit(r)
  PROVE  IInv'
<1>1. /\ Leave(r, "ok") /\ UNCHANGED <<resetRow, expired, issued>> /\ pc[r] = "registerCommit"
      /\ password' = [password EXCEPT ![who[r]] = pw[r]]
      /\ verified' = [verified EXCEPT ![who[r]] = FALSE]
      /\ verifyRow' = [verifyRow EXCEPT ![tok[r]] = who[r]]
  BY DEF RegisterCommit
<1>2. /\ TablesOK /\ LinkShape /\ VerifiedLinkIsGone /\ ~Exists(who[r])
      /\ who[r] \in Emails /\ tok[r] \in issued /\ tok[r] \in Tokens /\ pw[r] \in Passwords
      /\ verifyRow[tok[r]] = NoRow /\ resetRow[tok[r]] = NoRow /\ holds[r] = {User(who[r])}
  BY <1>1 DEF IInv, TypeOK, TablesOK, LocalShape, RowShape, HoldShape, InFlight
<1>3. TablesOK'
  BY <1>1, <1>2 DEF TablesOK
<1>4. pw[r] # NoPassword /\ \A e \in Emails : Exists(e)' <=> Exists(e) \/ e = who[r]
  BY <1>1, <1>2, AccountAssumption DEF TablesOK, Exists
<1>5. \A t \in Tokens : verifyRow'[t] = IF t = tok[r] THEN who[r] ELSE verifyRow[t]
  BY <1>1, <1>2 DEF TablesOK
<1>6. \A t \in Tokens : verifyRow[t] # who[r]
  BY <1>2, AccountAssumption DEF LinkShape
<1>7. LinkShape'
  <2>1. \A t \in Tokens \ issued' : verifyRow'[t] = NoRow /\ resetRow'[t] = NoRow
    BY <1>1, <1>2, <1>5 DEF LinkShape
  <2>2. \A t \in Tokens : verifyRow'[t] # NoRow => password'[verifyRow'[t]] # NoPassword
    BY <1>1, <1>2, <1>4, <1>5 DEF LinkShape, Exists, TablesOK
  <2>3. \A t, u \in Tokens : verifyRow'[t] = verifyRow'[u] /\ verifyRow'[t] # NoRow => t = u
    BY <1>2, <1>5, <1>6 DEF LinkShape
  <2>4. QED
    BY <2>1, <2>2, <2>3 DEF LinkShape, Exists
<1>8. VerifiedLinkIsGone'
  BY <1>1, <1>2, <1>5 DEF VerifiedLinkIsGone, TablesOK
<1>9. ASSUME NEW q \in Requests \ {r} PROVE RowShape(q)'
  <2>1. /\ RowShape(q) /\ HoldShape(q) /\ LocalShape(q)
        /\ pc'[q] = pc[q] /\ who'[q] = who[q] /\ tok'[q] = tok[q] /\ hit'[q] = hit[q]
        /\ holds[q] \cap holds[r] = {}
        /\ pc[q] \in Drawing => tok[q] # tok[r]
    BY <1>1, Apart DEF InFlight
  <2>2. pc[q] \in InFlight => who[q] \in Emails
    BY <2>1 DEF LocalShape
  <2>3. pc[q] = "registerCommit" => who[q] # who[r]
    BY <1>2, <2>1 DEF HoldShape
  <2>4. pc[q] = "registerCommit" => ~Exists(who[q])'
    BY <1>4, <2>1, <2>2, <2>3 DEF RowShape, InFlight, Exists
  <2>5. pc[q] \in Drawing => verifyRow'[tok[q]] = NoRow /\ resetRow'[tok[q]] = NoRow
    BY <1>1, <1>5, <2>1 DEF RowShape, LocalShape, InFlight, TablesOK
  <2>6. pc[q] \in Verifying => /\ Exists(who[q])'
                              /\ \A t \in Tokens : verifyRow'[t] = who[q] => t = tok[q]
    BY <1>2, <1>4, <1>5, <2>1, <2>2 DEF RowShape, InFlight, Exists
  <2>7. QED
    BY <1>1, <2>1, <2>4, <2>5, <2>6 DEF RowShape, Unused, Exists
<1>10. QED
  BY <1>1, <1>3, <1>7, <1>8, <1>9, CommitStep

LEMMA VerifyCommitInv ==
  ASSUME IInv, NEW r \in Requests, VerifyCommit(r)
  PROVE  IInv'
<1>1. /\ Leave(r, "ok") /\ UNCHANGED <<password, resetRow, expired, issued>>
      /\ pc[r] = "verifyCommit"
      /\ verified' = [verified EXCEPT ![who[r]] = @ \/ User(who[r]) \in holds[r]]
      /\ verifyRow' = [t \in Tokens |-> IF TokenRow(t) \in holds[r]
                                        THEN NoRow ELSE verifyRow[t]]
  BY DEF VerifyCommit
<1>2. /\ TablesOK /\ LinkShape /\ VerifiedLinkIsGone
      /\ who[r] \in Emails /\ tok[r] \in Tokens /\ TokenRow(tok[r]) \in holds[r]
      /\ \A t \in Tokens : verifyRow[t] = who[r] => t = tok[r]
  BY <1>1 DEF IInv, TypeOK, TablesOK, LocalShape, RowShape, HoldShape, InFlight
<1>3. TablesOK'
  <2>1. verified' \in [Emails -> BOOLEAN]
    <3> DEFINE now == verified[who[r]] \/ User(who[r]) \in holds[r]
    <3>1. now \in BOOLEAN /\ verified \in [Emails -> BOOLEAN]
      BY <1>2 DEF TablesOK
    <3>2. verified' = [verified EXCEPT ![who[r]] = now]
      BY <1>1
    <3> HIDE DEF now
    <3>3. QED
      BY <3>1, <3>2
  <2>2. verifyRow' \in [Tokens -> Emails \cup {NoRow}]
    BY <1>1, <1>2 DEF TablesOK
  <2>3. QED
    BY <1>1, <1>2, <2>1, <2>2 DEF TablesOK
<1>4. \A t \in Tokens : verifyRow'[t] = NoRow \/ (verifyRow'[t] = verifyRow[t] /\ t # tok[r])
  BY <1>1, <1>2
<1>5. LinkShape'
  BY <1>1, <1>2, <1>4 DEF LinkShape, Exists
<1>6. VerifiedLinkIsGone'
  <2> SUFFICES ASSUME NEW e \in Emails, NEW t \in Tokens, verified'[e], verifyRow'[t] = e
               PROVE  FALSE
    BY DEF VerifiedLinkIsGone
  <2>1. verifyRow[t] = e /\ t # tok[r]
    BY <1>4, AccountAssumption
  <2>2. e # who[r]
    BY <1>2, <2>1
  <2>3. verified[e]
    BY <1>1, <1>2, <2>2 DEF TablesOK
  <2>4. QED
    BY <1>2, <2>1, <2>3 DEF VerifiedLinkIsGone
<1>7. ASSUME NEW q \in Requests \ {r} PROVE RowShape(q)'
  <2>1. /\ RowShape(q) /\ LocalShape(q)
        /\ pc'[q] = pc[q] /\ who'[q] = who[q] /\ tok'[q] = tok[q] /\ hit'[q] = hit[q]
    BY <1>1, Apart
  <2>2. pc[q] \in Drawing => verifyRow'[tok[q]] = NoRow /\ resetRow'[tok[q]] = NoRow
    BY <1>1, <1>2, <1>4, <2>1 DEF RowShape, LocalShape, InFlight, TablesOK
  <2>3. pc[q] \in Verifying => \A t \in Tokens : verifyRow'[t] = who[q] => t = tok[q]
    <3> SUFFICES ASSUME pc[q] \in Verifying, NEW t \in Tokens, verifyRow'[t] = who[q]
                 PROVE  t = tok[q]
      OBVIOUS
    <3>1. who[q] \in Emails
      BY <2>1 DEF LocalShape, InFlight
    <3>2. QED
      BY <1>4, <2>1, <3>1, AccountAssumption DEF RowShape
  <2>4. QED
    BY <1>1, <2>1, <2>2, <2>3 DEF RowShape, Unused, Exists
<1>8. QED
  BY <1>1, <1>3, <1>5, <1>6, <1>7, CommitStep

LEMMA RowIsNotNoRow ==
  ASSUME NEW e \in Emails, NEW used \in BOOLEAN
  PROVE  [user |-> e, used |-> used] # NoRow
BY AccountAssumption

LEMMA ForgotCommitInv ==
  ASSUME IInv, NEW r \in Requests, ForgotCommit(r)
  PROVE  IInv'
<1>1. /\ Leave(r, "ok") /\ UNCHANGED <<password, verified, verifyRow, expired, issued>>
      /\ pc[r] = "forgotCommit"
      /\ resetRow' = [t \in Tokens |->
                        IF t = tok[r] THEN [user |-> who[r], used |-> FALSE]
                        ELSE IF t \in hit[r] THEN NoRow ELSE resetRow[t]]
  BY DEF ForgotCommit
<1>2. /\ TablesOK /\ LinkShape /\ VerifiedLinkIsGone
      /\ who[r] \in Emails /\ tok[r] \in issued /\ tok[r] \in Tokens
      /\ resetRow[tok[r]] = NoRow /\ hit[r] \subseteq Unused(who[r])
      /\ holds[r] = {TokenRow(t) : t \in hit[r]}
  BY <1>1 DEF IInv, TypeOK, TablesOK, LocalShape, RowShape, HoldShape, InFlight
<1>3. TablesOK'
  <2>1. resetRow' \in [Tokens -> [user : Emails, used : BOOLEAN] \cup {NoRow}]
    BY <1>1, <1>2 DEF TablesOK
  <2>2. QED
    BY <1>1, <1>2, <2>1 DEF TablesOK
<1>4. LinkShape' /\ VerifiedLinkIsGone'
  BY <1>1, <1>2 DEF LinkShape, VerifiedLinkIsGone, Exists, TablesOK
<1>5. \A t \in Tokens : t # tok[r] /\ t \notin hit[r] => resetRow'[t] = resetRow[t]
  BY <1>1
<1>6. \A t \in Tokens : t # tok[r] => resetRow'[t] = NoRow \/ resetRow'[t] = resetRow[t]
  BY <1>1
<1>7. ASSUME NEW q \in Requests \ {r} PROVE RowShape(q)'
  <2>1. /\ RowShape(q) /\ HoldShape(q) /\ LocalShape(q)
        /\ pc'[q] = pc[q] /\ who'[q] = who[q] /\ tok'[q] = tok[q] /\ hit'[q] = hit[q]
        /\ holds[q] \cap holds[r] = {}
        /\ pc[q] \in InFlight => tok[q] # tok[r]
    BY <1>1, Apart DEF InFlight
  <2>2. pc[q] \in Drawing \cup Resetting => tok[q] \in Tokens /\ tok[q] # tok[r]
    BY <1>2, <2>1 DEF LocalShape, InFlight, TablesOK
  <2>3. pc[q] \in Drawing => verifyRow'[tok[q]] = NoRow /\ resetRow'[tok[q]] = NoRow
    BY <1>1, <1>6, <2>1, <2>2 DEF RowShape
  <2>4. pc[q] \in {"insertReset", "forgotCommit"} => hit[q] \subseteq Unused(who[q])'
    <3> SUFFICES ASSUME pc[q] \in {"insertReset", "forgotCommit"}, NEW t \in hit[q]
                 PROVE  t \in Unused(who[q])'
      OBVIOUS
    <3>1. t \in Tokens /\ resetRow[t] = [user |-> who[q], used |-> FALSE]
      BY <2>1 DEF RowShape, Unused
    <3>2. t \notin hit[r]
      BY <1>2, <2>1 DEF HoldShape
    <3>3. t # tok[r]
      <4>1. who[q] \in Emails
        BY <2>1 DEF LocalShape, InFlight
      <4>2. resetRow[t] # NoRow
        BY <3>1, <4>1, RowIsNotNoRow
      <4>3. QED
        BY <1>2, <4>2
    <3>4. resetRow'[t] = [user |-> who'[q], used |-> FALSE]
      BY <1>5, <2>1, <3>1, <3>2, <3>3
    <3>5. QED
      BY <2>1, <3>1, <3>4 DEF Unused
  <2>5. pc[q] \in Resetting /\ resetRow'[tok[q]] # NoRow => resetRow'[tok[q]].user = who[q]
    BY <1>6, <2>1, <2>2 DEF RowShape
  <2>6. pc[q] = "resetCommit" => resetRow'[tok[q]] # NoRow
    <3> SUFFICES ASSUME pc[q] = "resetCommit" PROVE resetRow'[tok[q]] # NoRow
      OBVIOUS
    <3>1. TokenRow(tok[q]) \in holds[q]
      BY <2>1 DEF HoldShape
    <3>2. tok[q] \notin hit[r]
      BY <1>2, <2>1, <3>1
    <3>3. QED
      BY <1>5, <2>1, <2>2, <3>2 DEF RowShape
  <2>7. QED
    BY <1>1, <2>1, <2>3, <2>4, <2>5, <2>6 DEF RowShape, Exists, Unused
<1>8. QED
  BY <1>1, <1>3, <1>4, <1>7, CommitStep

LEMMA ResetCommitInv ==
  ASSUME IInv, NEW r \in Requests, ResetCommit(r)
  PROVE  IInv'
<1>1. /\ Leave(r, "ok") /\ UNCHANGED <<verified, verifyRow, expired, issued>>
      /\ pc[r] = "resetCommit"
      /\ password' = [password EXCEPT ![who[r]] = pw[r]]
      /\ resetRow' = [resetRow EXCEPT ![tok[r]] = [user |-> who[r], used |-> TRUE]]
  BY DEF ResetCommit
<1>2. /\ TablesOK /\ LinkShape /\ VerifiedLinkIsGone
      /\ who[r] \in Emails /\ tok[r] \in issued /\ tok[r] \in Tokens /\ pw[r] \in Passwords
      /\ resetRow[tok[r]] # NoRow /\ resetRow[tok[r]].user = who[r]
      /\ holds[r] = {User(who[r]), TokenRow(tok[r])}
  BY <1>1 DEF IInv, TypeOK, TablesOK, LocalShape, RowShape, HoldShape, InFlight
<1>3. TablesOK'
  <2>1. resetRow' \in [Tokens -> [user : Emails, used : BOOLEAN] \cup {NoRow}]
    BY <1>1, <1>2 DEF TablesOK
  <2>2. password' \in [Emails -> Passwords \cup {NoPassword}]
    BY <1>1, <1>2 DEF TablesOK
  <2>3. QED
    BY <1>1, <1>2, <2>1, <2>2 DEF TablesOK
<1>4. \A e \in Emails : Exists(e)' <=> Exists(e) \/ e = who[r]
  BY <1>1, <1>2, AccountAssumption DEF TablesOK, Exists
<1>5. LinkShape' /\ VerifiedLinkIsGone'
  <2>1. \A t \in Tokens : verifyRow[t] # NoRow => password'[verifyRow[t]] # NoPassword
    BY <1>2, <1>4 DEF LinkShape, Exists, TablesOK
  <2>2. \A t \in Tokens \ issued : resetRow'[t] = NoRow
    BY <1>1, <1>2 DEF LinkShape, TablesOK
  <2>3. QED
    BY <1>1, <1>2, <2>1, <2>2 DEF LinkShape, VerifiedLinkIsGone, Exists
<1>6. \A t \in Tokens : resetRow'[t] = IF t = tok[r] THEN [user |-> who[r], used |-> TRUE]
                                       ELSE resetRow[t]
  BY <1>1, <1>2 DEF TablesOK
<1>7. ASSUME NEW q \in Requests \ {r} PROVE RowShape(q)'
  <2>1. /\ RowShape(q) /\ HoldShape(q) /\ LocalShape(q)
        /\ pc'[q] = pc[q] /\ who'[q] = who[q] /\ tok'[q] = tok[q] /\ hit'[q] = hit[q]
        /\ holds[q] \cap holds[r] = {}
        /\ pc[q] \in Drawing => tok[q] # tok[r]
    BY <1>1, Apart DEF InFlight
  <2>2. /\ pc[q] \in Drawing \cup Resetting => tok[q] \in Tokens
        /\ pc[q] \in InFlight => who[q] \in Emails
    BY <1>2, <2>1 DEF LocalShape, InFlight, TablesOK
  <2>3. pc[q] = "registerCommit" => ~Exists(who[q])'
    <3>1. pc[q] = "registerCommit" => who[q] # who[r]
      BY <1>2, <2>1 DEF HoldShape
    <3>2. QED
      BY <1>4, <2>1, <2>2, <3>1 DEF RowShape, Exists, InFlight
  <2>4. pc[q] \in Drawing => verifyRow'[tok[q]] = NoRow /\ resetRow'[tok[q]] = NoRow
    BY <1>1, <1>6, <2>1, <2>2 DEF RowShape
  <2>5. pc[q] \in {"insertReset", "forgotCommit"} => hit[q] \subseteq Unused(who[q])'
    <3> SUFFICES ASSUME pc[q] \in {"insertReset", "forgotCommit"}, NEW t \in hit[q]
                 PROVE  t \in Unused(who[q])'
      OBVIOUS
    <3>1. t \in Tokens /\ resetRow[t] = [user |-> who[q], used |-> FALSE]
      BY <2>1 DEF RowShape, Unused
    <3>2. t # tok[r]
      BY <1>2, <2>1 DEF HoldShape
    <3>3. QED
      BY <1>6, <2>1, <3>1, <3>2 DEF Unused
  <2>6. pc[q] \in Verifying => Exists(who[q])'
    BY <1>4, <2>1, <2>2 DEF RowShape, Exists, InFlight
  <2>7. pc[q] \in Resetting /\ resetRow'[tok[q]] # NoRow => resetRow'[tok[q]].user = who[q]
    BY <1>2, <1>6, <2>1, <2>2 DEF RowShape
  <2>8. pc[q] = "resetCommit" => resetRow'[tok[q]] # NoRow
    BY <1>2, <1>6, <2>1, <2>2, RowIsNotNoRow DEF RowShape
  <2>9. QED
    BY <1>1, <2>1, <2>3, <2>4, <2>5, <2>6, <2>7, <2>8 DEF RowShape, Exists, Unused
<1>8. QED
  BY <1>1, <1>3, <1>5, <1>7, CommitStep

LEMMA ChangeCommitInv ==
  ASSUME IInv, NEW r \in Requests, ChangeCommit(r)
  PROVE  IInv'
<1>1. /\ Leave(r, "ok") /\ UNCHANGED <<verified, verifyRow, resetRow, expired, issued>>
      /\ pc[r] = "changeCommit" /\ password' = [password EXCEPT ![who[r]] = pw[r]]
  BY DEF ChangeCommit
<1>2. /\ TablesOK /\ LinkShape /\ VerifiedLinkIsGone
      /\ who[r] \in Emails /\ pw[r] \in Passwords /\ holds[r] = {User(who[r])}
  BY <1>1 DEF IInv, TypeOK, LocalShape, HoldShape, InFlight
<1>3. TablesOK'
  BY <1>1, <1>2 DEF TablesOK
<1>4. \A e \in Emails : Exists(e)' <=> Exists(e) \/ e = who[r]
  BY <1>1, <1>2, AccountAssumption DEF TablesOK, Exists
<1>5. LinkShape' /\ VerifiedLinkIsGone'
  <2>1. \A t \in Tokens : verifyRow[t] # NoRow => password'[verifyRow[t]] # NoPassword
    BY <1>2, <1>4 DEF LinkShape, Exists, TablesOK
  <2>2. QED
    BY <1>1, <1>2, <2>1 DEF LinkShape, VerifiedLinkIsGone, Exists
<1>6. ASSUME NEW q \in Requests \ {r} PROVE RowShape(q)'
  <2>1. /\ RowShape(q) /\ HoldShape(q) /\ LocalShape(q)
        /\ pc'[q] = pc[q] /\ who'[q] = who[q] /\ tok'[q] = tok[q] /\ hit'[q] = hit[q]
        /\ holds[q] \cap holds[r] = {}
    BY <1>1, Apart
  <2>2. pc[q] \in InFlight => who[q] \in Emails
    BY <2>1 DEF LocalShape
  <2>3. pc[q] = "registerCommit" => ~Exists(who[q])'
    <3>1. pc[q] = "registerCommit" => who[q] # who[r]
      BY <1>2, <2>1 DEF HoldShape
    <3>2. QED
      BY <1>4, <2>1, <2>2, <3>1 DEF RowShape, Exists, InFlight
  <2>4. pc[q] \in Verifying => Exists(who[q])'
    BY <1>4, <2>1, <2>2 DEF RowShape, Exists, InFlight
  <2>5. QED
    BY <1>1, <2>1, <2>3, <2>4 DEF RowShape, Exists, Unused
<1>7. QED
  BY <1>1, <1>3, <1>5, <1>6, CommitStep

-----------------------------------------------------------------------------
(* Arrivals                                                                *)

LEMMA ArriveInv ==
  ASSUME IInv, NEW r \in Requests, NEW first, NEW e \in Emails, NEW t, NEW p,
         Arrive(r, first, e, t, p),
         \/ /\ first \in {"insertUser", "deleteUnused"} /\ t \in Tokens \ issued
            /\ issued' = issued \cup {t}
            /\ p \in IF first = "insertUser" THEN Passwords ELSE {NoPassword}
         \/ /\ first = "verifyLoad" /\ t \in issued /\ verifyRow[t] = e
            /\ UNCHANGED issued /\ p = NoPassword
         \/ /\ first = "resetUser" /\ t \in issued /\ p \in Passwords /\ UNCHANGED issued
            /\ resetRow[t] # NoRow /\ resetRow[t].user = e
         \/ first = "changeUser" /\ t = NoToken /\ p \in Passwords /\ UNCHANGED issued
  PROVE  IInv'
<1>1. /\ LocalShape(r) /\ HoldShape(r) /\ RowShape(r) /\ LocalsOK /\ LocksExclude
      /\ TablesOK /\ FreshShape /\ LinkShape /\ VerifiedLinkIsGone
  BY DEF IInv, TypeOK
<1>2. first \in InFlight /\ t \in Tokens \cup {NoToken} /\ p \in Passwords \cup {NoPassword}
  BY <1>1 DEF InFlight, TablesOK
<1>3. /\ LocalsOK' /\ LocksExclude' /\ Others(r)
      /\ pc'[r] = first /\ who'[r] = e /\ tok'[r] = t /\ pw'[r] = p /\ holds'[r] = holds[r]
  BY <1>1, <1>2, ArriveMoves
<1>4. holds[r] = {} /\ UNCHANGED <<tables, expired>>
  BY <1>1 DEF Arrive, HoldShape
<1>5. issued \subseteq issued' /\ TablesOK'
  BY <1>1, <1>4 DEF TablesOK, tables
<1>6. LinkShape' /\ VerifiedLinkIsGone'
  BY <1>1, <1>4, <1>5 DEF LinkShape, VerifiedLinkIsGone, tables, Exists
<1>7. ASSUME NEW q \in Requests \ {r}
      PROVE  SlotShape(q)' /\ LocalShape(q) /\ RowShape(q) /\ pc'[q] = pc[q] /\ tok'[q] = tok[q]
  <2>1. SlotShape(q)
    BY DEF IInv, SlotShape
  <2>2. SlotShape(q)'
    BY <1>3, <1>4, <1>5, <2>1, OthersKeep
  <2>3. QED
    BY <1>3, <2>1, <2>2 DEF SlotShape, Others
<1>8. FreshShape'
  <2> SUFFICES ASSUME NEW q \in Requests, NEW s \in Requests, q # s,
                      pc'[q] \in Drawing, pc'[s] \in InFlight
               PROVE  tok'[q] # tok'[s]
    BY DEF FreshShape
  <2>1. CASE q = r
    <3>1. t \in Tokens /\ t \notin issued
      BY <1>3, <2>1
    <3>2. tok[s] \in issued \cup {NoToken} /\ tok'[s] = tok[s]
      BY <1>7, <2>1 DEF LocalShape
    <3>3. QED
      BY <1>3, <2>1, <3>1, <3>2, AccountAssumption
  <2>2. CASE s = r
    <3>1. /\ tok[q] \in issued /\ tok[q] \in Tokens /\ tok'[q] = tok[q]
          /\ verifyRow[tok[q]] = NoRow /\ resetRow[tok[q]] = NoRow
      BY <1>1, <1>7, <2>2 DEF LocalShape, RowShape, InFlight, TablesOK
    <3>2. e # NoRow
      BY AccountAssumption
    <3>3. tok[q] # t
      BY <3>1, <3>2, AccountAssumption
    <3>4. QED
      BY <1>3, <2>2, <3>1, <3>3
  <2>3. CASE q # r /\ s # r
    BY <1>1, <1>7, <2>3 DEF FreshShape
  <2>4. QED
    BY <2>1, <2>2, <2>3
<1>9. LocalShape(r)'
  BY <1>1, <1>3 DEF LocalShape, InFlight
<1>10. HoldShape(r)'
  BY <1>2, <1>3, <1>4 DEF HoldShape, Finished
<1>11. RowShape(r)'
  <2>1. CASE first \in {"insertUser", "deleteUnused"}
    BY <1>1, <1>3, <1>4, <2>1 DEF RowShape, LinkShape, tables
  <2>2. CASE first = "verifyLoad"
    <3>1. t \in Tokens /\ e # NoRow /\ Exists(e)
      BY <1>1, <2>2, AccountAssumption DEF LinkShape, TablesOK
    <3>2. \A u \in Tokens : verifyRow[u] = e => u = t
      BY <1>1, <2>2, <3>1 DEF LinkShape
    <3>3. QED
      BY <1>3, <1>4, <2>2, <3>1, <3>2 DEF RowShape, tables, Exists
  <2>3. CASE first = "resetUser"
    BY <1>3, <1>4, <2>3 DEF RowShape, tables
  <2>4. CASE first = "changeUser"
    BY <1>3, <2>4 DEF RowShape
  <2>5. QED
    BY <2>1, <2>2, <2>3, <2>4
<1>12. QED
  BY <1>3, <1>5, <1>6, <1>7, <1>8, <1>9, <1>10, <1>11 DEF IInv, TypeOK, SlotShape

LEMMA ArrivalsInv ==
  ASSUME IInv, NEW r \in Requests,
         \/ RegisterArrive(r) \/ VerifyArrive(r) \/ ForgotArrive(r)
         \/ ResetArrive(r) \/ ChangeArrive(r)
  PROVE  IInv'
<1>1. CASE RegisterArrive(r)
  BY <1>1, ArriveInv DEF RegisterArrive
<1>2. CASE VerifyArrive(r)
  <2>1. PICK t \in issued \ expired :
          /\ verifyRow[t] # NoRow /\ UNCHANGED issued
          /\ Arrive(r, "verifyLoad", verifyRow[t], t, NoPassword)
    BY <1>2 DEF VerifyArrive
  <2>2. verifyRow[t] \in Emails
    BY <2>1 DEF IInv, TypeOK, TablesOK
  <2>3. QED
    BY <2>1, <2>2, ArriveInv
<1>3. CASE ForgotArrive(r)
  BY <1>3, ArriveInv DEF ForgotArrive
<1>4. CASE ResetArrive(r)
  <2>1. PICK t \in issued \ expired, p \in Passwords :
          /\ resetRow[t] # NoRow /\ UNCHANGED issued
          /\ Arrive(r, "resetUser", resetRow[t].user, t, p)
    BY <1>4 DEF ResetArrive
  <2>2. resetRow[t].user \in Emails
    BY <2>1 DEF IInv, TypeOK, TablesOK
  <2>3. QED
    BY <2>1, <2>2, ArriveInv
<1>5. CASE ChangeArrive(r)
  BY <1>5, ArriveInv DEF ChangeArrive
<1>6. QED
  BY <1>1, <1>2, <1>3, <1>4, <1>5

-----------------------------------------------------------------------------
(* The theorems                                                            *)

LEMMA SameInv ==
  ASSUME IInv, UNCHANGED <<tables, issued, locals>>, expired' \subseteq issued
  PROVE  IInv'
<1> USE DEF tables, locals
<1>1. TypeOK'
  BY DEF IInv, TypeOK, TablesOK, LocalsOK, LocksExclude
<1>2. FreshShape' /\ LinkShape' /\ VerifiedLinkIsGone'
  BY DEF IInv, FreshShape, LinkShape, VerifiedLinkIsGone, Exists
<1>3. \A r \in Requests : (LocalShape(r) /\ HoldShape(r) /\ RowShape(r))'
  BY DEF IInv, LocalShape, HoldShape, RowShape, Exists, Unused
<1>4. QED
  BY <1>1, <1>2, <1>3 DEF IInv

LEMMA NextInv == IInv /\ [Next]_vars => IInv'
<1> SUFFICES ASSUME IInv, [Next]_vars PROVE IInv'
  OBVIOUS
<1>1. ASSUME NEW r \in Requests, Step(r) PROVE IInv'
  <2>1. CASE VerifyUser(r) \/ DeleteToken(r) \/ InsertReset(r) \/ ResetUser(r) \/ ChangeUser(r)
    BY <2>1, WriteInv DEF VerifyUser, DeleteToken, InsertReset, ResetUser, ChangeUser
  <2>2. CASE ResetToken(r)
    BY <2>2, WriteInv, FailInv DEF ResetToken
  <2>3. QED
    BY <1>1, <2>1, <2>2, InsertUserInv, VerifyLoadInv, DeleteUnusedInv, DeleteWaitInv,
       RegisterCommitInv, VerifyCommitInv, ForgotCommitInv, ResetCommitInv, ChangeCommitInv
       DEF Step
<1>2. ASSUME NEW r \in Requests, Abort(r) PROVE IInv'
  BY <1>2, FailInv DEF Abort
<1>3. ASSUME NEW t \in Tokens, Expire(t) PROVE IInv'
  BY <1>3, SameInv DEF Expire, IInv, TypeOK, TablesOK
<1>4. CASE UNCHANGED vars
  BY <1>4, SameInv DEF vars, IInv, TypeOK, TablesOK
<1>5. QED
  BY <1>1, <1>2, <1>3, <1>4, ArrivalsInv DEF Next

\* IInv holds in every reachable state: what a request has read and locked
\* stays as it was until it ends, except for what its statements check again.
THEOREM AccountsInvariance == Spec => []IInv
BY InitInv, NextInv, PTL DEF Spec

\* Types, and no two transactions with the same row lock.
THEOREM TypeCorrect == Spec => []TypeOK
<1>1. IInv => TypeOK
  BY DEF IInv
<1>2. QED
  BY <1>1, AccountsInvariance, PTL

\* However verifications and registrations race, a verified account has no
\* working link.
THEOREM LinkGone == Spec => []VerifiedLinkIsGone
<1>1. IInv => VerifiedLinkIsGone
  BY DEF IInv
<1>2. QED
  BY <1>1, AccountsInvariance, PTL

\* Whoever holds a token's row waits for nothing more; whoever waits for an
\* account's row waits for one of those or for nobody.  Any number of requests.
THEOREM NoDeadlock == Spec => []NoCircularWait
<1>1. IInv => NoCircularWait
  <2> SUFFICES ASSUME IInv, NEW r \in Requests, pc[r] \in InFlight
               PROVE  \E s \in Requests : pc[s] \in InFlight /\ Free(s, Wants(s))
    BY DEF NoCircularWait
  <2>1. \A s \in Requests : HoldShape(s) /\ LocalShape(s) /\ pc[s] \in Finished \cup InFlight
    BY DEF IInv, TypeOK, LocalsOK
  <2>2. ASSUME NEW s \in Requests, NEW t, TokenRow(t) \in holds[s]
        PROVE  pc[s] \in InFlight /\ Free(s, Wants(s))
    <3>1. pc[s] \in {"verifyCommit", "insertReset", "forgotCommit", "resetCommit"}
      BY <2>1, <2>2, RowNames DEF HoldShape, LocalShape, Finished, InFlight
    <3>2. Wants(s) = {}
      BY <3>1 DEF Wants
    <3>3. QED
      BY <3>1, <3>2 DEF Free, InFlight
  <2>3. ASSUME NEW s \in Requests, NEW e, User(e) \in holds[s], ~Free(s, Wants(s))
        PROVE  \E t : \E q \in Requests : TokenRow(t) \in holds[q]
    <3>1. pc[s] \in {"registerCommit", "deleteToken", "verifyCommit", "resetToken",
                     "resetCommit", "changeCommit", "insertReset", "forgotCommit"}
      BY <2>1, <2>3 DEF HoldShape, Finished, InFlight
    <3>2. Wants(s) \subseteq {TokenRow(tok[s])}
      BY <3>1 DEF Wants
    <3>3. QED
      BY <2>3, <3>2 DEF Free
  <2>4. CASE ~Free(r, Wants(r))
    <3>1. PICK q \in Requests \ {r} : \E row \in Wants(r) : row \in holds[q]
      BY <2>4 DEF Free
    <3>2. \E x : (User(x) \in holds[q] \/ TokenRow(x) \in holds[q])
      BY <3>1 DEF Wants
    <3>3. pc[q] \in InFlight
      BY <2>1, <3>2 DEF HoldShape
    <3>4. QED
      BY <2>2, <2>3, <3>2, <3>3
  <2>5. QED
    BY <2>4
<1>2. QED
  BY <1>1, AccountsInvariance, PTL

\* The unique index is enough, however long ago email_exists was asked.
THEOREM RegisteredOnce == Spec => RegisterOnce
<1> DEFINE Alone(r) == (At(r, "registerCommit") /\ pc'[r] = "ok") => ~Exists(who[r])
<1>1. IInv /\ [Next]_vars => [\A r \in Requests : Alone(r)]_vars
  BY DEF IInv, RowShape
<1>2. QED
  BY <1>1, AccountsInvariance, PTL DEF Spec, RegisterOnce

\* A reset that commits has its token's row, whatever a forgot-password with
\* the same account does in the meantime.
THEOREM SupersededStaysDead == Spec => SupersededIsDead
<1> DEFINE Held(r) == (At(r, "resetCommit") /\ pc'[r] = "ok") => resetRow[tok[r]] # NoRow
<1>1. IInv /\ [Next]_vars => [\A r \in Requests : Held(r)]_vars
  BY DEF IInv, RowShape
<1>2. QED
  BY <1>1, AccountsInvariance, PTL DEF Spec, SupersededIsDead

\* The row of a used token is final: no clean-up deletes it and no second reset
\* or reissue changes it.
THEOREM UsedIsFinal == Spec => UsedStaysUsed
<1> DEFINE Final(t) == (resetRow[t] # NoRow /\ resetRow[t].used) => resetRow'[t] = resetRow[t]
<1>1. IInv /\ [Next]_vars => [\A t \in Tokens : Final(t)]_vars
  <2> SUFFICES ASSUME IInv, Next, NEW t \in Tokens, resetRow[t] # NoRow, resetRow[t].used
               PROVE  resetRow'[t] = resetRow[t]
    BY DEF vars, tables
  <2>1. ASSUME NEW r \in Requests, ForgotCommit(r) PROVE resetRow'[t] = resetRow[t]
    <3>1. t # tok[r] /\ t \notin hit[r]
      <4>1. RowShape(r) /\ pc[r] = "forgotCommit"
        BY <2>1 DEF ForgotCommit, IInv
      <4>2. resetRow[tok[r]] = NoRow /\ hit[r] \subseteq Unused(who[r])
        BY <4>1 DEF RowShape
      <4>3. t \in hit[r] => resetRow[t] = [user |-> who[r], used |-> FALSE]
        BY <4>2 DEF Unused
      <4>4. t \notin hit[r]
        BY <4>3
      <4>5. QED
        BY <4>2, <4>4
    <3>2. QED
      BY <2>1, <3>1 DEF ForgotCommit
  <2>2. ASSUME NEW r \in Requests, ResetCommit(r) PROVE resetRow'[t] = resetRow[t]
    <3>1. resetRow[t] \in [user : Emails, used : BOOLEAN]
      BY DEF IInv, TypeOK, TablesOK
    <3>2. t = tok[r] => resetRow[t].user = who[r]
      BY <2>2 DEF ResetCommit, IInv, RowShape
    <3>3. resetRow[t] = [user |-> resetRow[t].user, used |-> TRUE]
      BY <3>1
    <3>4. QED
      BY <2>2, <3>2, <3>3 DEF ResetCommit, IInv, TypeOK, TablesOK
  <2>3. CASE \A r \in Requests : ~ForgotCommit(r) /\ ~ResetCommit(r)
    <3>1. UNCHANGED resetRow
      BY <2>3 DEF Next, Step, Abort, Expire, RegisterArrive, VerifyArrive, ForgotArrive, ResetArrive,
         ChangeArrive, Arrive, InsertUser, RegisterCommit, VerifyLoad, VerifyUser, DeleteToken,
         VerifyCommit, DeleteUnused, DeleteWait, InsertReset, ResetUser, ResetToken, ChangeUser,
         ChangeCommit, Uncommitted, tables
    <3>2. QED
      BY <3>1
  <2>4. QED
    BY <2>1, <2>2, <2>3
<1>2. QED
  BY <1>1, AccountsInvariance, PTL DEF Spec, UsedStaysUsed

-----------------------------------------------------------------------------
(* Unused reset tokens                                                     *)

LEMMA NextAskers ==
  ASSUME NEW f, f \in [Outstanding' -> Requests],
         \A e \in Emails : \A t, u \in Unused(e)' : f[t] = f[u] => t = u,
         \A r \in Requests : pc'[r] \in Deleting =>
           \A t \in Unused(who[r])' : f[t] = r => t \in hit'[r]
  PROVE  AskerShape'
<1>1. AskedOnce(f)'
  BY DEF AskedOnce
<1>2. QED
  BY <1>1 DEF AskerShape

\* Tokens that go, and a request that still knows those it will delete, leave
\* the others with the same askers.
LEMMA AskersKeep ==
  ASSUME AskerShape, IInv',
         \A t \in Tokens : \A e \in Emails : t \in Unused(e)' => t \in Unused(e),
         \A r \in Requests : pc'[r] \in Deleting =>
           \/ \A t \in Unused(who[r])' : t \in hit'[r]
           \/ /\ pc[r] \in Deleting /\ who'[r] = who[r]
              /\ \A t \in Unused(who[r])' : t \in hit[r] => t \in hit'[r]
  PROVE  AskerShape'
<1>1. PICK asker \in [Outstanding -> Requests] : AskedOnce(asker)
  BY DEF AskerShape
<1> DEFINE now == [t \in Outstanding' |-> asker[t]]
<1>2. \A e \in Emails : Unused(e)' \subseteq Unused(e) /\ Unused(e)' \subseteq Outstanding'
  <2> SUFFICES ASSUME NEW e \in Emails, NEW t \in Unused(e)'
               PROVE  t \in Unused(e) /\ t \in Outstanding'
    OBVIOUS
  <2>1. t \in Tokens
    BY DEF Unused
  <2>2. QED
    BY <2>1 DEF Outstanding
<1>3. now \in [Outstanding' -> Requests]
  <2>1. Outstanding' \subseteq Outstanding
    BY <1>2 DEF Outstanding
  <2>2. QED
    BY <1>1, <2>1
<1>4. \A e \in Emails : \A t \in Unused(e)' : t \in Outstanding' /\ t \in Unused(e)
  BY <1>2
<1>5. \A e \in Emails : \A t, u \in Unused(e)' : now[t] = now[u] => t = u
  BY <1>1, <1>4 DEF AskedOnce
<1>6. ASSUME NEW r \in Requests, pc'[r] \in Deleting, NEW t \in Unused(who[r])', now[t] = r
      PROVE  t \in hit'[r]
  <2>1. who'[r] \in Emails
    BY <1>6 DEF IInv, LocalShape, InFlight, Deleting
  <2>2. asker[t] = r /\ t \in Unused(who'[r])
    BY <1>4, <1>6, <2>1
  <2>3. QED
    BY <1>1, <1>6, <2>2 DEF AskedOnce
<1> HIDE DEF now
<1>7. QED
  BY <1>3, <1>5, <1>6, NextAskers

\* A forgot-password leaves its own token, and deletes the one its slot left
\* before.
LEMMA ForgotAsked ==
  ASSUME IInv, IInv', AskerShape, NEW r \in Requests, ForgotCommit(r)
  PROVE  AskerShape'
<1>1. /\ Leave(r, "ok") /\ pc[r] = "forgotCommit"
      /\ resetRow' = [t \in Tokens |->
                        IF t = tok[r] THEN [user |-> who[r], used |-> FALSE]
                        ELSE IF t \in hit[r] THEN NoRow ELSE resetRow[t]]
  BY DEF ForgotCommit
<1>2. /\ Others(r) /\ pc'[r] = "ok" /\ who[r] \in Emails /\ tok[r] \in Tokens
      /\ resetRow[tok[r]] = NoRow
  BY <1>1, LeaveMoves DEF IInv, TypeOK, TablesOK, LocalShape, RowShape, InFlight
<1>3. ASSUME NEW e \in Emails, NEW t \in Unused(e)', t # tok[r]
      PROVE  t \in Unused(e) /\ t \notin hit[r]
  <2>1. t \in Tokens /\ resetRow'[t] = [user |-> e, used |-> FALSE]
    BY DEF Unused
  <2>2. resetRow'[t] # NoRow
    BY <2>1, RowIsNotNoRow
  <2>3. QED
    BY <1>1, <1>3, <2>1, <2>2 DEF Unused
<1>4. PICK asker \in [Outstanding -> Requests] : AskedOnce(asker)
  BY DEF AskerShape
<1> DEFINE now == [t \in Outstanding' |-> IF t = tok[r] THEN r ELSE asker[t]]
<1>5. \A e \in Emails : \A t \in Unused(e)' : t \in Outstanding'
  BY DEF Outstanding
<1>6. now \in [Outstanding' -> Requests]
  <2>1. ASSUME NEW t \in Outstanding', t # tok[r] PROVE asker[t] \in Requests
    <3>1. t \in Outstanding
      BY <1>3, <2>1 DEF Outstanding
    <3>2. QED
      BY <1>4, <3>1
  <2>2. QED
    BY <2>1
<1>7. ASSUME NEW e \in Emails, NEW t \in Unused(e)', NEW u \in Unused(e)', now[t] = now[u]
      PROVE  t = u
  <2>1. \A x \in Unused(e)' : x # tok[r] /\ now[x] = r => e # who[r]
    <3> SUFFICES ASSUME NEW x \in Unused(e)', x # tok[r], now[x] = r, e = who[r]
                 PROVE  FALSE
      OBVIOUS
    <3>1. x \in Unused(who[r]) /\ x \notin hit[r] /\ asker[x] = r
      BY <1>3, <1>5
    <3>2. QED
      BY <1>1, <1>4, <3>1 DEF AskedOnce, Deleting
  <2>2. tok[r] \in Unused(e)' => e = who[r] /\ now[tok[r]] = r
    <3> SUFFICES ASSUME tok[r] \in Unused(e)' PROVE e = who[r] /\ now[tok[r]] = r
      OBVIOUS
    <3>1. [user |-> who[r], used |-> FALSE] = [user |-> e, used |-> FALSE]
      BY <1>1, <1>2 DEF Unused
    <3>2. [user |-> who[r], used |-> FALSE].user = [user |-> e, used |-> FALSE].user
      BY <3>1
    <3>3. QED
      BY <1>5, <3>2
  <2>3. CASE t # tok[r] /\ u # tok[r]
    <3>1. t \in Unused(e) /\ u \in Unused(e) /\ asker[t] = asker[u]
      BY <1>3, <1>5, <1>7, <2>3
    <3>2. QED
      BY <1>4, <3>1 DEF AskedOnce
  <2>4. CASE t = tok[r] \/ u = tok[r]
    BY <1>7, <2>1, <2>2, <2>4
  <2>5. QED
    BY <2>3, <2>4
<1>8. ASSUME NEW q \in Requests, pc'[q] \in Deleting, NEW t \in Unused(who[q])', now[t] = q
      PROVE  t \in hit'[q]
  <2>1. q # r
    BY <1>2, <1>8 DEF Deleting
  <2>2. pc'[q] = pc[q] /\ who'[q] = who[q] /\ hit'[q] = hit[q]
    BY <1>2, <2>1 DEF Others
  <2>3. who[q] \in Emails
    BY <1>8, <2>2 DEF IInv, LocalShape, InFlight, Deleting
  <2>4. t # tok[r] /\ asker[t] = q /\ t \in Unused(who[q])
    BY <1>3, <1>5, <1>8, <2>1, <2>2, <2>3
  <2>5. QED
    BY <1>4, <1>8, <2>2, <2>4 DEF AskedOnce
<1> HIDE DEF now
<1>9. QED
  BY <1>6, <1>7, <1>8, NextAskers

\* Steps that leave the table alone; those of a forgot-password narrow down
\* what it deletes to the tokens that are still unused.
LEMMA QuietAsked ==
  ASSUME IInv, IInv', AskerShape, [Next]_vars,
         \A r \in Requests : ~ForgotCommit(r) /\ ~ResetCommit(r)
  PROVE  AskerShape'
<1>1. UNCHANGED resetRow
  BY DEF Next, Step, Abort, Expire, RegisterArrive, VerifyArrive, ForgotArrive, ResetArrive,
         ChangeArrive, Arrive, InsertUser, RegisterCommit, VerifyLoad, VerifyUser, DeleteToken,
         VerifyCommit, DeleteUnused, DeleteWait, InsertReset, ResetUser, ResetToken, ChangeUser,
         ChangeCommit, Uncommitted, tables, vars
<1>2. \A e : Unused(e)' = Unused(e)
  BY <1>1 DEF Unused
<1> DEFINE Knows(r) ==
      pc'[r] \in Deleting =>
        \/ \A t \in Unused(who[r])' : t \in hit'[r]
        \/ /\ pc[r] \in Deleting /\ who'[r] = who[r]
           /\ \A t \in Unused(who[r])' : t \in hit[r] => t \in hit'[r]
<1>3. ASSUME NEW r \in Requests, NEW q \in Requests,
             \/ Step(r) \/ Abort(r) \/ RegisterArrive(r) \/ VerifyArrive(r) \/ ForgotArrive(r)
             \/ ResetArrive(r) \/ ChangeArrive(r)
      PROVE  Knows(q)
  <2> USE DEF IInv, TypeOK, LocalsOK
  <2>1. CASE DeleteUnused(r)
    BY <1>2, <2>1 DEF DeleteUnused, Goto
  <2>2. CASE DeleteWait(r)
    <3>1. /\ pc[r] \in Deleting /\ UNCHANGED who
          /\ hit' = [hit EXCEPT ![r] = hit[r] \cap Unused(who[r])]
          /\ pc' = [pc EXCEPT ![r] = "insertReset"]
      BY <2>2 DEF DeleteWait, Goto, Deleting
    <3>2. CASE q = r
      BY <1>2, <3>1, <3>2
    <3>3. CASE q # r
      BY <3>1, <3>3
    <3>4. QED
      BY <3>2, <3>3
  <2>3. CASE InsertReset(r)
    BY <2>3 DEF InsertReset, Writes, Goto, Deleting
  <2>4. CASE Abort(r) \/ InsertUser(r) \/ RegisterCommit(r) \/ VerifyCommit(r)
             \/ ResetToken(r) \/ ChangeCommit(r)
    BY <2>4 DEF Abort, InsertUser, RegisterCommit, VerifyCommit, ResetToken, ChangeCommit,
                Leave, Writes, Goto, Deleting
  <2>5. CASE VerifyLoad(r) \/ VerifyUser(r) \/ DeleteToken(r) \/ ResetUser(r) \/ ChangeUser(r)
    BY <2>5 DEF VerifyLoad, VerifyUser, DeleteToken, ResetUser, ChangeUser, Reads, Writes, Goto,
                Deleting
  <2>6. CASE \/ RegisterArrive(r) \/ VerifyArrive(r) \/ ForgotArrive(r)
             \/ ResetArrive(r) \/ ChangeArrive(r)
    BY <2>6 DEF RegisterArrive, VerifyArrive, ForgotArrive, ResetArrive, ChangeArrive, Arrive,
                Deleting
  <2>7. QED
    BY <1>3, <2>1, <2>2, <2>3, <2>4, <2>5, <2>6 DEF Step
<1>4. CASE UNCHANGED vars \/ \E t \in Tokens : Expire(t)
  <2>1. UNCHANGED <<pc, who, hit>>
    BY <1>4 DEF vars, locals, Expire
  <2>2. \A q \in Requests : Knows(q)
    BY <2>1
  <2>3. QED
    BY <1>2, <2>2, AskersKeep
<1>5. CASE ~(UNCHANGED vars \/ \E t \in Tokens : Expire(t))
  <2>1. \A q \in Requests : Knows(q)
    BY <1>3, <1>5 DEF Next
  <2>2. QED
    BY <1>2, <2>1, AskersKeep
<1>6. QED
  BY <1>4, <1>5

\* A reset uses its token up.
LEMMA ResetAsked ==
  ASSUME IInv, IInv', AskerShape, NEW r \in Requests, ResetCommit(r)
  PROVE  AskerShape'
<1>1. /\ Leave(r, "ok")
      /\ resetRow' = [resetRow EXCEPT ![tok[r]] = [user |-> who[r], used |-> TRUE]]
  BY DEF ResetCommit
<1>2. Others(r) /\ pc'[r] = "ok" /\ TablesOK
  BY <1>1, LeaveMoves DEF IInv, TypeOK
<1>3. ASSUME NEW e, NEW t \in Unused(e)' PROVE t \in Unused(e)
  <2>1. t \in Tokens /\ resetRow'[t] = [user |-> e, used |-> FALSE]
    BY DEF Unused
  <2>2. t # tok[r]
    <3>1. [user |-> who[r], used |-> TRUE].used # [user |-> e, used |-> FALSE].used
      OBVIOUS
    <3>2. [user |-> who[r], used |-> TRUE] # [user |-> e, used |-> FALSE]
      BY <3>1
    <3>3. QED
      BY <1>1, <1>2, <2>1, <3>2 DEF TablesOK
  <2>3. resetRow'[t] = resetRow[t]
    BY <1>1, <1>2, <2>1, <2>2 DEF TablesOK
  <2>4. QED
    BY <2>1, <2>3 DEF Unused
<1>4. \A q \in Requests : pc'[q] \in Deleting =>
        /\ pc[q] \in Deleting /\ who'[q] = who[q] /\ hit'[q] = hit[q]
  BY <1>2 DEF Others, Deleting
<1>5. QED
  BY <1>3, <1>4, AskersKeep

LEMMA InitAsked == Init => AskerShape
<1> SUFFICES ASSUME Init PROVE AskerShape
  OBVIOUS
<1>1. \A e \in Emails : Unused(e) = {}
  <2> SUFFICES ASSUME NEW e \in Emails, NEW t \in Unused(e) PROVE FALSE
    OBVIOUS
  <2>1. NoRow = [user |-> e, used |-> FALSE]
    BY DEF Init, Unused
  <2>2. QED
    BY <2>1, RowIsNotNoRow
<1>2. Outstanding = {}
  BY <1>1 DEF Outstanding
<1> DEFINE asker == [t \in Outstanding |-> CHOOSE r \in Requests : TRUE]
<1>3. asker \in [Outstanding -> Requests]
  BY <1>2
<1>4. AskedOnce(asker)
  BY <1>1 DEF AskedOnce, Init, Deleting
<1>5. QED
  BY <1>3, <1>4 DEF AskerShape

\* Every unused token can be laid at the door of a slot that asked for it, and
\* of an account no slot has two.
THEOREM AskersInvariance == Spec => []AskerShape
<1>1. IInv /\ IInv' /\ AskerShape /\ [Next]_vars => AskerShape'
  BY QuietAsked, ForgotAsked, ResetAsked
<1>2. QED
  BY <1>1, InitAsked, AccountsInvariance, PTL DEF Spec

\* forgot_password deletes only the unused tokens it saw when its DELETE began,
\* and yet the unused tokens of an account never outnumber the request slots,
\* however many requests overlap, fail and repeat.
THEOREM UnusedLimited == Spec => []UnusedBounded
<1>1. IInv /\ AskerShape => UnusedBounded
  <2> SUFFICES ASSUME IInv, AskerShape, NEW e \in Emails
               PROVE  Cardinality(Unused(e)) <= Cardinality(Requests)
    BY DEF UnusedBounded
  <2>1. PICK asker \in [Outstanding -> Requests] : AskedOnce(asker)
    BY DEF AskerShape
  <2> DEFINE f == [t \in Unused(e) |-> asker[t]]
  <2>2. Unused(e) \subseteq Outstanding
    BY DEF Outstanding
  <2>3. f \in Injection(Unused(e), Requests)
    <3>1. f \in [Unused(e) -> Requests]
      BY <2>1, <2>2
    <3>2. \A t, u \in Unused(e) : f[t] = f[u] => t = u
      BY <2>1 DEF AskedOnce
    <3>3. IsInjective(f)
      BY <3>2 DEF IsInjective
    <3>4. QED
      BY <3>1, <3>3 DEF Injection
  <2>4. QED
    BY <2>3, AccountAssumption, FS_Injection
<1>2. QED
  BY <1>1, AskersInvariance, AccountsInvariance, PTL
=============================================================================
