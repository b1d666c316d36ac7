---------------------------- MODULE PantryProofs ----------------------------
(***************************************************************************)
(* IInv is an invariant of Pantry for every number of requests, jobs,      *)
(* items and days and every limit; the safety properties follow from it.   *)
(***************************************************************************)
EXTENDS Pantry, FiniteSetTheorems, TLAPS

SlotVars(s) == <<pc[s], premium[s], item[s], date[s], seen[s], holds[s], todo[s]>>

\* The part of IInv that is about one slot.
SlotInv(s) ==
  /\ s \in Requests => RequestShape(s) /\ RequestLocks(s) /\ (premium[s] => paid)
  /\ s \in Jobs => JobShape(s) /\ JobLocks(s)

LEMMA InvSlot == ASSUME IInv, NEW s \in Slots PROVE SlotInv(s)
BY DEF IInv, SlotInv, TierShape

LEMMA CollectInv ==
  ASSUME TypeOK', tier' = "premium" => paid', DatedItemsExist', OvershootBounded',
         TodoUnsent', \A s \in Slots : SlotInv(s)'
  PROVE  IInv'
BY DEF IInv, SlotInv, TierShape, Slots

LEMMA RowsDiffer ==
  ASSUME NEW i, NEW k
  PROVE  ItemRow(i) # DateRow(k) /\ (DateRow(i) = DateRow(k) <=> i = k)
BY DEF ItemRow, DateRow

LEMMA InitInv == Init => IInv
<1> SUFFICES ASSUME Init PROVE IInv
  OBVIOUS
<1> USE DEF Init
<1>1. TypeOK
  BY DEF TypeOK
<1>2. stored = {} /\ Adding = {}
  BY DEF Adding, At, Slots
<1>3. OvershootBounded
  <2>1. Cardinality(stored) = 0 /\ Cardinality(Adding) = 0
    BY <1>2, FS_EmptySet
  <2>2. Cardinality(Requests) \in Nat
    BY PantryAssumption, FS_CardinalityType
  <2>3. QED
    BY <2>1, <2>2, PantryAssumption DEF OvershootBounded
<1>4. ASSUME NEW r \in Requests PROVE RequestShape(r) /\ RequestLocks(r)
  BY DEF RequestShape, RequestLocks, Slots, JobPcs, UpdatePcs, DeletePcs
<1>5. ASSUME NEW j \in Jobs PROVE JobShape(j) /\ JobLocks(j)
  BY DEF JobShape, JobLocks, Slots
<1>6. TodoUnsent /\ DatedItemsExist /\ TierShape
  BY DEF TodoUnsent, DatedItemsExist, TierShape, Slots
<1>7. QED
  BY <1>1, <1>3, <1>4, <1>5, <1>6 DEF IInv

-----------------------------------------------------------------------------
(* Frames: what a step leaves true that does not touch a part of the state *)

\* A slot keeps its invariant while others write, if they leave alone the
\* items whose expiry rows it holds and do not bring back one it deletes.
LEMMA OtherSlot ==
  ASSUME IInv, NEW q \in Slots, UNCHANGED SlotVars(q), paid => paid',
         \A i \in Items : DateRow(i) \in holds[q] =>
           /\ i \in stored => i \in stored'
           /\ expiry[i] # NoRow => expiry'[i] # NoRow,
         item[q] \in stored' => item[q] \in stored
  PROVE  SlotInv(q)'
<1>1. SlotInv(q)
  BY InvSlot
<1>2. ASSUME q \in Requests
      PROVE  RequestShape(q)' /\ RequestLocks(q)' /\ (premium'[q] => paid')
  <2>1. RequestShape(q)' /\ (premium'[q] => paid')
    BY <1>1, <1>2 DEF SlotInv, RequestShape, SlotVars
  <2>2. RequestLocks(q)'
    BY <1>1, <1>2 DEF SlotInv, RequestLocks, SlotVars, DateRow
  <2>3. QED
    BY <2>1, <2>2
<1>3. ASSUME q \in Jobs PROVE JobShape(q)' /\ JobLocks(q)'
  BY <1>1, <1>3 DEF SlotInv, JobShape, JobLocks, SlotVars, DateRow
<1>4. QED
  BY <1>2, <1>3 DEF SlotInv

LEMMA FewerItems ==
  ASSUME IInv, stored' \subseteq stored, Adding' \subseteq Adding, paid => paid',
         paid \in BOOLEAN, paid' \in BOOLEAN
  PROVE  OvershootBounded'
<1>1. /\ IsFiniteSet(stored) /\ IsFiniteSet(Adding)
      /\ Cardinality(Requests) \in Nat /\ Limit \in Nat
  BY PantryAssumption, FS_Subset, FS_CardinalityType DEF IInv, TypeOK, Adding
<1>2. /\ Cardinality(stored') <= Cardinality(stored)
      /\ Cardinality(Adding') <= Cardinality(Adding)
      /\ Cardinality(stored') \in Nat /\ Cardinality(Adding') \in Nat
      /\ Cardinality(stored) \in Nat /\ Cardinality(Adding) \in Nat
  BY <1>1, FS_Subset, FS_CardinalityType
<1>3. QED
  BY <1>1, <1>2 DEF IInv, OvershootBounded

\* Steps of one slot that write no table.
LEMMA LocalStep ==
  ASSUME IInv, TypeOK', NEW s \in Slots, Uncommitted,
         \A q \in Slots \ {s} : UNCHANGED SlotVars(q),
         SlotInv(s)', todo'[s] \subseteq todo[s],
         OvershootBounded'
  PROVE  IInv'
<1>1. \A q \in Slots : SlotInv(q)'
  BY OtherSlot DEF Uncommitted, tables
<1>2. TodoUnsent'
  <2>1. \A q \in Slots : todo'[q] \subseteq todo[q]
    BY DEF SlotVars
  <2>2. QED
    BY <2>1 DEF IInv, TodoUnsent, Uncommitted, tables, Slots
<1>3. DatedItemsExist' /\ (tier' = "premium" => paid')
  BY DEF IInv, DatedItemsExist, TierShape, Uncommitted, tables
<1>4. QED
  BY <1>1, <1>2, <1>3, CollectInv

-----------------------------------------------------------------------------
(* The ways a slot moves                                                   *)

SlotTypes ==
  /\ pc \in [Slots -> {"idle"} \cup InFlight]
  /\ premium \in [Slots -> BOOLEAN]
  /\ item \in [Slots -> Items \cup {NoItem}]
  /\ date \in [Slots -> Days \cup {NoDate}]
  /\ seen \in [Slots -> Dated \cup {NoRow}]
  /\ holds \in [Slots -> SUBSET Rows]
  /\ todo \in [Slots -> SUBSET Items]
  /\ \A q, s \in Slots : q # s => holds[q] \cap holds[s] = {}

LEMMA LeftSlot ==
  ASSUME IInv, NEW s \in Slots, Leave(s)
  PROVE  /\ SlotTypes' /\ SlotInv(s)' /\ todo'[s] = {} /\ Adding' \subseteq Adding
         /\ pc'[s] = "idle" /\ holds'[s] = {}
         /\ \A q \in Slots \ {s} : UNCHANGED SlotVars(q)
<1> USE DEF Leave
<1>1. TypeOK
  BY DEF IInv
<1>2. SlotTypes'
  BY <1>1 DEF TypeOK, SlotTypes
<1>3. /\ pc'[s] = "idle" /\ holds'[s] = {} /\ todo'[s] = {} /\ premium'[s] = FALSE
      /\ \A q \in Slots \ {s} : UNCHANGED SlotVars(q)
  BY <1>1 DEF TypeOK, SlotVars
<1>4. SlotInv(s)'
  BY <1>3 DEF SlotInv, RequestShape, RequestLocks, JobShape, JobLocks,
              UpdatePcs, DeletePcs, JobPcs
<1>5. Adding' \subseteq Adding
  BY <1>3 DEF Adding, At, SlotVars, Slots
<1>6. QED
  BY <1>2, <1>3, <1>4, <1>5

LEMMA LeaveStep == ASSUME IInv, NEW s \in Slots, Leave(s), Uncommitted PROVE IInv'
<1>1. /\ SlotTypes' /\ SlotInv(s)' /\ todo'[s] = {} /\ Adding' \subseteq Adding
      /\ \A q \in Slots \ {s} : UNCHANGED SlotVars(q)
  BY LeftSlot
<1>2. TypeOK'
  BY <1>1 DEF IInv, TypeOK, SlotTypes, Uncommitted, tables
<1>3. OvershootBounded'
  BY <1>1, FewerItems DEF IInv, TypeOK, Uncommitted, tables
<1>4. QED
  BY <1>1, <1>2, <1>3, LocalStep

\* Any other step of a slot that writes no table and does not pass the limit.
LEMMA MoveStep ==
  ASSUME IInv, SlotTypes', NEW s \in Slots, Uncommitted,
         \A q \in Slots \ {s} : UNCHANGED SlotVars(q),
         SlotInv(s)', todo'[s] \subseteq todo[s], pc'[s] # "addCommit"
  PROVE  IInv'
<1>1. TypeOK'
  BY DEF IInv, TypeOK, SlotTypes, Uncommitted, tables
<1>2. Adding' \subseteq Adding
  BY DEF Adding, At, SlotVars, Slots
<1>3. OvershootBounded'
  BY <1>2, FewerItems DEF IInv, TypeOK, Uncommitted, tables
<1>4. QED
  BY <1>1, <1>3, LocalStep

LEMMA ArriveStep ==
  ASSUME IInv, NEW r \in Requests, NEW first \in AddPcs \cup UpdatePcs \cup DeletePcs,
         first \notin {"addCommit", "updateCommit", "writeExpiry", "insertExpiry",
                       "deleteCommit"},
         NEW tierSeen \in BOOLEAN, tierSeen => paid,
         NEW i \in Items \cup {NoItem}, first \notin AddPcs => i \in Items,
         NEW d \in Days \cup {NoDate}, first \in UpdatePcs => d \in Days,
         NEW row \in Dated \cup {NoRow},
         Arrive(r, first, tierSeen, i, d, row)
  PROVE  IInv'
<1> USE DEF Arrive
<1>1. TypeOK /\ r \in Slots /\ SlotInv(r)
  BY InvSlot DEF IInv, Slots
<1>2. SlotTypes'
  BY <1>1 DEF TypeOK, SlotTypes, InFlight
<1>3. /\ pc[r] = "idle" /\ pc'[r] = first /\ item'[r] = i /\ date'[r] = d
      /\ premium'[r] = tierSeen /\ paid' = paid /\ holds'[r] = holds[r]
      /\ todo'[r] = todo[r]
      /\ \A q \in Slots \ {r} : UNCHANGED SlotVars(q)
  BY <1>1 DEF TypeOK, SlotVars, At
<1>4. r \notin Jobs
  BY PantryAssumption
<1>5. RequestShape(r)'
  BY <1>3 DEF RequestShape, AddPcs, UpdatePcs, DeletePcs, JobPcs
<1>6. RequestLocks(r)'
  <2>1. \A k \in Items : DateRow(k) \notin holds[r]
    BY <1>1, <1>3 DEF SlotInv, RequestLocks
  <2>2. QED
    BY <1>3, <2>1 DEF RequestLocks, DateRow
<1>7. SlotInv(r)'
  BY <1>3, <1>4, <1>5, <1>6 DEF SlotInv
<1>8. QED
  BY <1>1, <1>2, <1>3, <1>7, MoveStep DEF Uncommitted, AddPcs, UpdatePcs, DeletePcs

\* A statement: the slot may remember a row and hold more rows.
LEMMA StatementTypes ==
  ASSUME IInv, NEW s \in Slots, NEW next \in InFlight, Goto(s, next),
         NEW row \in Dated \cup {NoRow},
         UNCHANGED seen \/ seen' = [seen EXCEPT ![s] = row],
         NEW rows \in SUBSET Rows,
         \/ UNCHANGED holds
         \/ Free(s, rows) /\ holds' = [holds EXCEPT ![s] = @ \cup rows]
  PROVE  /\ SlotTypes'
         /\ \A q \in Slots \ {s} : UNCHANGED SlotVars(q)
         /\ pc'[s] = next /\ premium'[s] = premium[s] /\ item'[s] = item[s]
         /\ date'[s] = date[s] /\ todo'[s] = todo[s]
<1>1. TypeOK
  BY DEF IInv
<1>2. /\ pc' \in [Slots -> {"idle"} \cup InFlight]
      /\ UNCHANGED <<premium, item, date, todo>>
      /\ seen' \in [Slots -> Dated \cup {NoRow}]
      /\ holds' \in [Slots -> SUBSET Rows]
  BY <1>1 DEF TypeOK, Goto
<1>3. \A q \in Slots \ {s} : UNCHANGED SlotVars(q)
  BY <1>1 DEF TypeOK, Goto, SlotVars
<1>4. ASSUME NEW p \in Slots, NEW q \in Slots, p # q
      PROVE  holds'[p] \cap holds'[q] = {}
  BY <1>1, <1>4 DEF TypeOK, Free
<1>5. pc'[s] = next
  BY <1>1 DEF TypeOK, Goto
<1>6. QED
  BY <1>1, <1>2, <1>3, <1>4, <1>5 DEF TypeOK, SlotTypes

LEMMA StatementStep ==
  ASSUME IInv, NEW s \in Slots, NEW next \in InFlight \ {"addCommit"}, Goto(s, next),
         NEW row \in Dated \cup {NoRow},
         UNCHANGED seen \/ seen' = [seen EXCEPT ![s] = row],
         NEW rows \in SUBSET Rows,
         \/ UNCHANGED holds
         \/ Free(s, rows) /\ holds' = [holds EXCEPT ![s] = @ \cup rows],
         Uncommitted, SlotInv(s)'
  PROVE  IInv'
<1>1. /\ SlotTypes' /\ pc'[s] = next /\ todo'[s] = todo[s]
      /\ \A q \in Slots \ {s} : UNCHANGED SlotVars(q)
  BY StatementTypes
<1>2. QED
  BY <1>1, MoveStep

-----------------------------------------------------------------------------
(* POST /inventory                                                         *)

LEMMA AddArriveInv == ASSUME IInv, NEW r \in Requests, AddArrive(r) PROVE IInv'
<1>1. (tier = "premium") => paid
  BY DEF IInv, TierShape
<1>2. ASSUME NEW d \in Days \cup {NoDate},
             Arrive(r, "addCheck", tier = "premium", NoItem, d, NoRow)
      PROVE  IInv'
  BY <1>1, <1>2, ArriveStep DEF AddPcs, UpdatePcs
<1>3. ASSUME Arrive(r, "scanCheck", tier = "premium", NoItem, NoDate, NoRow)
      PROVE  IInv'
  BY <1>1, <1>3, ArriveStep DEF AddPcs, UpdatePcs
<1>4. QED
  BY <1>2, <1>3 DEF AddArrive

LEMMA ScanCheckInv == ASSUME IInv, NEW r \in Requests, ScanCheck(r) PROVE IInv'
<1>1. r \in Slots /\ SlotInv(r) /\ r \notin Jobs
  BY InvSlot, PantryAssumption DEF Slots
<1>2. Uncommitted /\ (Leave(r) \/ (At(r, "scanCheck") /\ Reads(r, "addCheck")))
  BY DEF ScanCheck
<1>3. ASSUME At(r, "scanCheck"), Reads(r, "addCheck") PROVE IInv'
  <2> USE <1>3 DEF Reads
  <2>1. /\ pc'[r] = "addCheck" /\ premium'[r] = premium[r] /\ holds'[r] = holds[r]
        /\ "addCheck" \in InFlight \ {"addCommit"}
    BY <1>1, StatementTypes DEF InFlight, AddPcs
  <2>2. SlotInv(r)'
    BY <1>1, <1>2, <2>1 DEF SlotInv, RequestShape, RequestLocks, AddPcs, UpdatePcs,
       DeletePcs, JobPcs, DateRow, At, Uncommitted
  <2>3. QED
    BY <1>1, <1>2, <2>1, <2>2, StatementStep
<1>4. QED
  BY <1>1, <1>2, <1>3, LeaveStep

\* Passing the check makes r the only new request past it, with room for one.
LEMMA AddCheckInv == ASSUME IInv, NEW r \in Requests, AddCheck(r) PROVE IInv'
<1>1. r \in Slots /\ SlotInv(r) /\ r \notin Jobs /\ TypeOK
  BY InvSlot, PantryAssumption DEF Slots, IInv
<1>2. Uncommitted /\ At(r, "addCheck")
  BY DEF AddCheck
<1>3. ASSUME WithinLimit(r), Reads(r, "addCommit") PROVE IInv'
  <2> USE <1>3 DEF Reads
  <2>1. /\ SlotTypes' /\ pc'[r] = "addCommit" /\ premium'[r] = premium[r]
        /\ holds'[r] = holds[r] /\ todo'[r] = todo[r]
        /\ \A q \in Slots \ {r} : UNCHANGED SlotVars(q)
    BY <1>1, StatementTypes DEF InFlight, AddPcs
  <2>2. SlotInv(r)'
    BY <1>1, <1>2, <2>1 DEF SlotInv, RequestShape, RequestLocks, AddPcs, UpdatePcs,
       DeletePcs, JobPcs, DateRow, At, Uncommitted
  <2>3. TypeOK'
    BY <1>1, <1>2, <2>1 DEF TypeOK, SlotTypes, Uncommitted, tables
  <2>4. OvershootBounded'
    <3>1. SUFFICES ASSUME ~paid
                   PROVE  Cardinality(stored) + Cardinality(Adding')
                            <= (Limit - 1) + Cardinality(Requests)
      BY <1>2 DEF OvershootBounded, Uncommitted, tables
    <3>2. Cardinality(stored) < Limit
      BY <1>1, <3>1 DEF WithinLimit, SlotInv
    <3>3. /\ Cardinality(Adding') <= Cardinality(Requests)
          /\ Cardinality(Adding') \in Nat /\ Cardinality(Requests) \in Nat
      BY PantryAssumption, FS_Subset, FS_CardinalityType DEF Adding
    <3>4. Cardinality(stored) \in Nat /\ Limit \in Nat
      BY <1>1, PantryAssumption, FS_Subset, FS_CardinalityType DEF TypeOK
    <3>5. QED
      BY <3>2, <3>3, <3>4
  <2>5. QED
    BY <1>1, <1>2, <2>1, <2>2, <2>3, <2>4, LocalStep
<1>4. ASSUME Leave(r) PROVE IInv'
  BY <1>1, <1>2, <1>4, LeaveStep
<1>5. QED
  BY <1>3, <1>4 DEF AddCheck

-----------------------------------------------------------------------------
(* Commits                                                                 *)

\* The commit of slot s, when it spares the rows the others hold.
LEMMA CommitStep ==
  ASSUME IInv, NEW s \in Slots, Leave(s), UNCHANGED <<tier, paid>>,
         stored' \subseteq Items, expiry' \in [Items -> Dated \cup {NoRow}],
         \A q \in Slots \ {s}, i \in Items : DateRow(i) \in holds[q] =>
           /\ i \in stored => i \in stored'
           /\ expiry[i] # NoRow => expiry'[i] # NoRow,
         \A q \in Slots \ {s} : item[q] \in stored' => item[q] \in stored,
         \A j \in Jobs \ {s} : \A i \in todo[j] :
           (expiry[i] # NoRow => ~expiry[i].sent) =>
             (expiry'[i] # NoRow => ~expiry'[i].sent),
         DatedItemsExist', OvershootBounded'
  PROVE  IInv'
<1>1. /\ SlotTypes' /\ SlotInv(s)' /\ todo'[s] = {}
      /\ \A q \in Slots \ {s} : UNCHANGED SlotVars(q)
  BY LeftSlot
<1>2. TypeOK'
  BY <1>1 DEF IInv, TypeOK, SlotTypes
<1>3. \A q \in Slots : SlotInv(q)'
  BY <1>1, OtherSlot
<1>4. \A j \in Jobs \ {s} : todo'[j] = todo[j]
  BY <1>1 DEF SlotVars, Slots
<1>5. TodoUnsent'
  BY <1>1, <1>4 DEF IInv, TodoUnsent
<1>6. tier' = "premium" => paid'
  BY DEF IInv, TierShape
<1>7. QED
  BY <1>2, <1>3, <1>5, <1>6, CollectInv

LEMMA AddCommitInv == ASSUME IInv, NEW r \in Requests, AddCommit(r) PROVE IInv'
<1>1. r \in Slots /\ TypeOK /\ At(r, "addCommit") /\ Leave(r)
  BY DEF Slots, IInv, AddCommit
<1>2. PICK i \in Fresh :
        /\ stored' = stored \cup {i}
        /\ expiry' = [expiry EXCEPT ![i] =
                        IF date[r] = NoDate THEN NoRow
                        ELSE [due |-> date[r], sent |-> FALSE]]
  BY DEF AddCommit
<1>3. /\ i \in Items /\ i \notin stored
      /\ \A s \in Slots : item[s] # i /\ i \notin todo[s]
  BY <1>2 DEF Fresh
<1>4. expiry[i] = NoRow
  BY <1>3 DEF IInv, DatedItemsExist
<1>5. \A q \in Slots : DateRow(i) \notin holds[q]
  BY <1>3, <1>4 DEF IInv, RequestLocks, JobLocks, Slots
<1>6. stored' \subseteq Items /\ expiry' \in [Items -> Dated \cup {NoRow}]
  BY <1>1, <1>2, <1>3 DEF TypeOK, Dated
<1>7. \A k \in Items \ {i} : expiry'[k] = expiry[k]
  BY <1>1, <1>2 DEF TypeOK
<1>8. OvershootBounded'
  <2>1. Adding' = Adding \ {r} /\ r \in Adding
    <3>1. pc'[r] = "idle" /\ \A q \in Slots \ {r} : pc'[q] = pc[q]
      BY <1>1, LeftSlot DEF SlotVars
    <3>2. QED
      BY <1>1, <3>1 DEF Adding, At, Slots
  <2>2. IsFiniteSet(stored) /\ IsFiniteSet(Adding)
    BY <1>1, PantryAssumption, FS_Subset DEF TypeOK, Adding
  <2>3. Cardinality(stored') = Cardinality(stored) + 1
    BY <1>2, <1>3, <2>2, FS_AddElement
  <2>4. Cardinality(Adding') = Cardinality(Adding) - 1
    BY <2>1, <2>2, FS_RemoveElement
  <2>5. /\ Cardinality(stored) \in Nat /\ Cardinality(Adding) \in Nat
        /\ Cardinality(Requests) \in Nat /\ Limit \in Nat
    BY <2>2, PantryAssumption, FS_CardinalityType
  <2>6. paid' = paid
    BY DEF AddCommit
  <2>7. QED
    BY <2>3, <2>4, <2>5, <2>6 DEF IInv, OvershootBounded
<1>9. DatedItemsExist'
  BY <1>2, <1>7 DEF IInv, DatedItemsExist
<1>10. \A q \in Slots \ {r} : item[q] \in stored' => item[q] \in stored
  BY <1>2, <1>3
<1>11. \A q \in Slots \ {r}, k \in Items : DateRow(k) \in holds[q] =>
         /\ k \in stored => k \in stored'
         /\ expiry[k] # NoRow => expiry'[k] # NoRow
  BY <1>2, <1>5, <1>7
<1>12. \A j \in Jobs \ {r} : \A k \in todo[j] : expiry'[k] = expiry[k]
  BY <1>1, <1>3, <1>7 DEF TypeOK, Slots
<1>13. QED
  BY <1>1, <1>6, <1>8, <1>9, <1>10, <1>11, <1>12, CommitStep DEF AddCommit

\* The expiry rows a commit rewrites are those slot s holds.
LEMMA HeldBySOnly ==
  ASSUME IInv, NEW s \in Slots, NEW q \in Slots \ {s}, NEW i,
         DateRow(i) \in holds[s]
  PROVE  DateRow(i) \notin holds[q]
BY DEF IInv, TypeOK

LEMMA UpdateCommitInv == ASSUME IInv, NEW r \in Requests, UpdateCommit(r) PROVE IInv'
<1>1. r \in Slots /\ TypeOK /\ SlotInv(r) /\ Leave(r) /\ stored' = stored /\ paid' = paid
  BY InvSlot DEF Slots, IInv, UpdateCommit
<1>2. Adding' \subseteq Adding
  BY <1>1, LeftSlot
<1>3. OvershootBounded'
  BY <1>1, <1>2, FewerItems DEF TypeOK
<1>4. CASE DateRow(item[r]) \notin holds[r]
  <2>1. expiry' = expiry
    BY <1>4 DEF UpdateCommit
  <2>2. DatedItemsExist'
    BY <1>1, <2>1 DEF IInv, DatedItemsExist
  <2>3. QED
    BY <1>1, <1>3, <2>1, <2>2, CommitStep DEF UpdateCommit, TypeOK
<1>5. CASE DateRow(item[r]) \in holds[r]
  <2>1. /\ item[r] \in Items /\ item[r] \in stored /\ date[r] \in Days
        /\ seen[r] # NoRow => expiry[item[r]] # NoRow
    BY <1>1, <1>5 DEF UpdateCommit, At, SlotInv, RequestShape, RequestLocks, UpdatePcs
  <2>2. expiry' = [expiry EXCEPT ![item[r]] = Written(r)]
    BY <1>5 DEF UpdateCommit
  <2>3. /\ Written(r) \in Dated
        /\ Written(r).sent => expiry[item[r]] # NoRow /\ expiry[item[r]].sent
    <3>1. CASE seen[r] = NoRow
      BY <2>1, <3>1 DEF Written, Dated
    <3>2. CASE seen[r] # NoRow
      <4>1. expiry[item[r]] \in Dated /\ seen[r] \in Dated
        BY <1>1, <2>1, <3>2 DEF TypeOK
      <4>2. QED
        BY <2>1, <3>2, <4>1 DEF Written, Dated
    <3>3. QED
      BY <3>1, <3>2
  <2>4. /\ expiry'[item[r]] = Written(r)
        /\ \A k \in Items \ {item[r]} : expiry'[k] = expiry[k]
        /\ expiry' \in [Items -> Dated \cup {NoRow}]
    BY <1>1, <2>1, <2>2, <2>3 DEF TypeOK
  <2>5. DatedItemsExist'
    BY <1>1, <2>1, <2>4 DEF IInv, DatedItemsExist
  <2>6. \A q \in Slots \ {r}, k \in Items : DateRow(k) \in holds[q] => expiry'[k] = expiry[k]
    BY <1>1, <1>5, <2>4, HeldBySOnly
  <2>7. ASSUME NEW j \in Jobs, NEW k \in todo[j], expiry[k] # NoRow => ~expiry[k].sent
        PROVE  expiry'[k] # NoRow => ~expiry'[k].sent
    <3>1. k \in Items
      BY <1>1 DEF TypeOK, Slots
    <3>2. QED
      BY <2>3, <2>4, <2>7, <3>1
  <2>8. QED
    BY <1>1, <1>3, <2>4, <2>5, <2>6, <2>7, CommitStep DEF UpdateCommit, TypeOK
<1>6. QED
  BY <1>4, <1>5

LEMMA DeleteCommitInv == ASSUME IInv, NEW r \in Requests, DeleteCommit(r) PROVE IInv'
<1>1. /\ r \in Slots /\ TypeOK /\ SlotInv(r) /\ Leave(r) /\ paid' = paid
      /\ pc[r] = "deleteCommit" /\ item[r] \in Items
      /\ stored' = stored \ {item[r]}
      /\ expiry' = [expiry EXCEPT ![item[r]] = NoRow]
  BY InvSlot DEF Slots, IInv, DeleteCommit, At, SlotInv, RequestShape, DeletePcs
<1>2. OvershootBounded'
  BY <1>1, LeftSlot, FewerItems DEF TypeOK
<1>3. /\ expiry' \in [Items -> Dated \cup {NoRow}] /\ expiry'[item[r]] = NoRow
      /\ \A k \in Items \ {item[r]} : expiry'[k] = expiry[k]
  BY <1>1 DEF TypeOK
<1>4. DatedItemsExist'
  BY <1>1, <1>3 DEF IInv, DatedItemsExist
<1>5. \A q \in Slots \ {r} : DateRow(item[r]) \in holds[q] =>
         item[r] \notin stored /\ expiry[item[r]] = NoRow
  BY <1>1, HeldBySOnly DEF SlotInv, RequestLocks, IInv, DatedItemsExist
<1>6. \A q \in Slots \ {r}, k \in Items : DateRow(k) \in holds[q] =>
         /\ k \in stored => k \in stored'
         /\ expiry[k] # NoRow => expiry'[k] # NoRow
  BY <1>1, <1>3, <1>5
<1>7. \A j \in Jobs : \A k \in todo[j] :
         (expiry[k] # NoRow => ~expiry[k].sent) => (expiry'[k] # NoRow => ~expiry'[k].sent)
  BY <1>1, <1>3 DEF TypeOK, Slots
<1>8. QED
  BY <1>1, <1>2, <1>3, <1>4, <1>6, <1>7, CommitStep DEF DeleteCommit, TypeOK

-----------------------------------------------------------------------------
(* PATCH and DELETE /inventory/{item_id}                                   *)

LEMMA UpdateArriveInv == ASSUME IInv, NEW r \in Requests, UpdateArrive(r) PROVE IInv'
<1>1. PICK i \in stored, d \in Days, first \in {"updateItem", "findExpiry"} :
        Arrive(r, first, FALSE, i, d, expiry[i])
  BY DEF UpdateArrive
<1>2. i \in Items /\ expiry[i] \in Dated \cup {NoRow}
  BY DEF IInv, TypeOK
<1>3. QED
  BY <1>1, <1>2, ArriveStep DEF AddPcs, UpdatePcs

LEMMA DeleteArriveInv == ASSUME IInv, NEW r \in Requests, DeleteArrive(r) PROVE IInv'
<1>1. PICK i \in stored :
        Arrive(r, IF expiry[i] = NoRow THEN "deleteItem" ELSE "deleteExpiry",
               FALSE, i, NoDate, NoRow)
  BY DEF DeleteArrive
<1>2. i \in Items
  BY DEF IInv, TypeOK
<1>3. PICK first \in {"deleteItem", "deleteExpiry"} :
        Arrive(r, first, FALSE, i, NoDate, NoRow)
  BY <1>1
<1>4. QED
  BY <1>2, <1>3, ArriveStep DEF AddPcs, UpdatePcs, DeletePcs

LEMMA RowsOfItem ==
  ASSUME NEW i \in Items
  PROVE  ItemRow(i) \in Rows /\ DateRow(i) \in Rows
BY DEF Rows

LEMMA UpdateItemInv == ASSUME IInv, NEW r \in Requests, UpdateItem(r) PROVE IInv'
<1>1. /\ r \in Slots /\ SlotInv(r) /\ r \notin Jobs /\ TypeOK /\ Uncommitted
      /\ pc[r] = "updateItem" /\ item[r] \in Items /\ date[r] \in Days
      /\ expiry[item[r]] \in Dated \cup {NoRow}
  BY InvSlot, PantryAssumption
     DEF Slots, IInv, UpdateItem, At, SlotInv, RequestShape, UpdatePcs, TypeOK
<1>2. ASSUME Free(r, {ItemRow(item[r])}), Goto(r, "findExpiry"),
             holds' = [holds EXCEPT ![r] = @ \cup {ItemRow(item[r])}],
             seen' = [seen EXCEPT ![r] = expiry[item[r]]]
      PROVE  IInv'
  <2>1. "findExpiry" \in InFlight \ {"addCommit"} /\ {ItemRow(item[r])} \in SUBSET Rows
    BY <1>1, RowsOfItem DEF InFlight, UpdatePcs
  <2>2. /\ pc'[r] = "findExpiry" /\ premium'[r] = premium[r] /\ item'[r] = item[r]
        /\ date'[r] = date[r]
    BY <1>1, <1>2, <2>1, StatementTypes
  <2>3. \A i \in Items : DateRow(i) \notin holds'[r]
    BY <1>1, <1>2, RowsDiffer DEF SlotInv, RequestLocks, TypeOK
  <2>4. RequestLocks(r)'
    BY <2>2, <2>3 DEF RequestLocks, DateRow
  <2>5. SlotInv(r)'
    BY <1>1, <2>2, <2>4 DEF SlotInv, RequestShape, UpdatePcs, DeletePcs, JobPcs,
       Uncommitted
  <2>6. QED
    BY <1>1, <1>2, <2>1, <2>5, StatementStep
<1>3. QED
  BY <1>1, <1>2, LeaveStep DEF UpdateItem

LEMMA FindExpiryInv == ASSUME IInv, NEW r \in Requests, FindExpiry(r) PROVE IInv'
<1> DEFINE row == expiry[item[r]]
           next == IF row = NoRow THEN "insertExpiry" ELSE "writeExpiry"
           value == IF row = NoRow \/ seen[r] = NoRow THEN row ELSE seen[r]
<1>1. /\ r \in Slots /\ SlotInv(r) /\ r \notin Jobs /\ TypeOK /\ Uncommitted
      /\ pc[r] = "findExpiry" /\ item[r] \in Items /\ date[r] \in Days
  BY InvSlot, PantryAssumption
     DEF Slots, IInv, FindExpiry, At, SlotInv, RequestShape, UpdatePcs
<1>2. /\ Goto(r, next) /\ seen' = [seen EXCEPT ![r] = value] /\ holds' = holds
      /\ value \in Dated \cup {NoRow} /\ next \in InFlight \ {"addCommit"}
  BY <1>1 DEF FindExpiry, TypeOK, InFlight, UpdatePcs
<1>3. /\ pc'[r] = next /\ premium'[r] = premium[r] /\ item'[r] = item[r]
      /\ date'[r] = date[r] /\ seen'[r] = value
  <2> HIDE DEF next, value
  <2>1. seen'[r] = value
    BY <1>1, <1>2 DEF TypeOK
  <2>2. QED
    BY <1>1, <1>2, <2>1, StatementTypes
<1>4. SlotInv(r)'
  <2>1. \A i \in Items : DateRow(i) \notin holds'[r]
    BY <1>1, <1>2 DEF SlotInv, RequestLocks
  <2>2. RequestLocks(r)'
    BY <1>3, <2>1 DEF RequestLocks, DateRow
  <2>3. QED
    BY <1>1, <1>3, <2>2 DEF SlotInv, RequestShape, UpdatePcs, DeletePcs, JobPcs,
       Uncommitted
<1>5. QED
  <2> HIDE DEF next, value
  <2>1. QED
    BY <1>1, <1>2, <1>4, StatementStep

\* A statement of an edit that leads to its commit, having written the expiry
\* row or nothing.
LEMMA ToUpdateCommit ==
  ASSUME IInv, NEW r \in Requests, pc[r] \in UpdatePcs, pc[r] # "updateCommit",
         Uncommitted, item[r] \in stored,
         seen[r] # NoRow => expiry[item[r]] # NoRow,
         Writes(r, {DateRow(item[r])}, "updateCommit")
  PROVE  IInv'
<1>1. /\ r \in Slots /\ SlotInv(r) /\ r \notin Jobs /\ TypeOK
      /\ item[r] \in Items /\ date[r] \in Days
      /\ "updateCommit" \in InFlight \ {"addCommit"}
  BY InvSlot, PantryAssumption DEF Slots, IInv, SlotInv, RequestShape, InFlight, UpdatePcs
<1>2. /\ Free(r, {DateRow(item[r])}) /\ Goto(r, "updateCommit") /\ seen' = seen
      /\ holds' = [holds EXCEPT ![r] = @ \cup {DateRow(item[r])}]
      /\ {DateRow(item[r])} \in SUBSET Rows
  BY <1>1, RowsOfItem DEF Writes
<1>3. /\ pc'[r] = "updateCommit" /\ premium'[r] = premium[r] /\ item'[r] = item[r]
      /\ date'[r] = date[r]
  BY <1>1, <1>2, StatementTypes
<1>4. \A i \in Items : DateRow(i) \in holds'[r] => i = item[r]
  BY <1>1, <1>2, RowsDiffer DEF SlotInv, RequestLocks, TypeOK
<1>5. RequestLocks(r)'
  BY <1>2, <1>3, <1>4 DEF RequestLocks, DateRow, Uncommitted, tables
<1>6. SlotInv(r)'
  BY <1>1, <1>3, <1>5 DEF SlotInv, RequestShape, UpdatePcs, DeletePcs, JobPcs, Uncommitted
<1>7. QED
  BY <1>1, <1>2, <1>6, StatementStep

LEMMA WriteExpiryInv == ASSUME IInv, NEW r \in Requests, WriteExpiry(r) PROVE IInv'
<1>1. /\ r \in Slots /\ SlotInv(r) /\ r \notin Jobs /\ TypeOK /\ Uncommitted
      /\ pc[r] = "writeExpiry" /\ item[r] \in Items /\ date[r] \in Days
  BY InvSlot, PantryAssumption
     DEF Slots, IInv, WriteExpiry, At, SlotInv, RequestShape, UpdatePcs
<1>2. ASSUME Reads(r, "updateCommit") PROVE IInv'
  <2> USE <1>2 DEF Reads
  <2>1. /\ pc'[r] = "updateCommit" /\ premium'[r] = premium[r] /\ item'[r] = item[r]
        /\ date'[r] = date[r] /\ "updateCommit" \in InFlight \ {"addCommit"}
    BY <1>1, StatementTypes DEF InFlight, UpdatePcs
  <2>2. \A i \in Items : DateRow(i) \notin holds'[r]
    BY <1>1 DEF SlotInv, RequestLocks
  <2>3. RequestLocks(r)'
    BY <2>1, <2>2 DEF RequestLocks, DateRow
  <2>4. SlotInv(r)'
    BY <1>1, <2>1, <2>3 DEF SlotInv, RequestShape, UpdatePcs, DeletePcs, JobPcs,
       Uncommitted
  <2>5. QED
    BY <1>1, <2>1, <2>4, StatementStep
<1>3. ASSUME expiry[item[r]] # NoRow, Writes(r, {DateRow(item[r])}, "updateCommit")
      PROVE  IInv'
  <2>1. item[r] \in stored
    BY <1>1, <1>3 DEF IInv, DatedItemsExist
  <2>2. QED
    BY <1>1, <1>3, <2>1, ToUpdateCommit DEF UpdatePcs
<1>4. QED
  BY <1>1, <1>2, <1>3, LeaveStep DEF WriteExpiry

LEMMA InsertExpiryInv == ASSUME IInv, NEW r \in Requests, InsertExpiry(r) PROVE IInv'
<1>1. /\ r \in Slots /\ SlotInv(r) /\ pc[r] = "insertExpiry" /\ seen[r] = NoRow
      /\ Uncommitted
  BY InvSlot DEF Slots, InsertExpiry, At, SlotInv, RequestShape
<1>2. ASSUME item[r] \in stored, Writes(r, {DateRow(item[r])}, "updateCommit")
      PROVE  IInv'
  BY <1>1, <1>2, ToUpdateCommit DEF UpdatePcs
<1>3. QED
  BY <1>1, <1>2, LeaveStep DEF InsertExpiry

\* The statements of a deletion.
LEMMA DeleteStatement ==
  ASSUME IInv, NEW r \in Requests, pc[r] \in {"deleteExpiry", "deleteItem"}, Uncommitted,
         NEW next \in {"deleteItem", "deleteCommit"},
         NEW rows \in SUBSET {ItemRow(item[r]), DateRow(item[r])},
         next = "deleteCommit" => item[r] \notin stored \/ DateRow(item[r]) \in rows,
         (Reads(r, next) /\ rows = {}) \/ Writes(r, rows, next)
  PROVE  IInv'
<1>1. /\ r \in Slots /\ SlotInv(r) /\ r \notin Jobs /\ TypeOK /\ item[r] \in Items
      /\ next \in InFlight \ {"addCommit"}
  BY InvSlot, PantryAssumption DEF Slots, IInv, SlotInv, RequestShape, InFlight, DeletePcs
<1>2. /\ Goto(r, next) /\ seen' = seen /\ rows \in SUBSET Rows
      /\ \/ UNCHANGED holds /\ rows = {}
         \/ Free(r, rows) /\ holds' = [holds EXCEPT ![r] = @ \cup rows]
  BY <1>1, RowsOfItem DEF Reads, Writes
<1>3. /\ pc'[r] = next /\ premium'[r] = premium[r] /\ item'[r] = item[r]
  BY <1>1, <1>2, StatementTypes
<1>4. /\ \A i \in Items : DateRow(i) \in holds'[r] => i = item[r]
      /\ rows \subseteq holds'[r]
  BY <1>1, <1>2, RowsDiffer DEF SlotInv, RequestLocks, TypeOK
<1>5. RequestLocks(r)'
  BY <1>3, <1>4 DEF RequestLocks, DateRow, Uncommitted, tables
<1>6. SlotInv(r)'
  BY <1>1, <1>3, <1>5 DEF SlotInv, RequestShape, UpdatePcs, DeletePcs, JobPcs, Uncommitted
<1>7. QED
  BY <1>1, <1>2, <1>6, StatementStep

LEMMA DeleteExpiryInv == ASSUME IInv, NEW r \in Requests, DeleteExpiry(r) PROVE IInv'
<1>1. pc[r] = "deleteExpiry" /\ Uncommitted
  BY DEF DeleteExpiry, At
<1>2. CASE Reads(r, "deleteItem")
  BY <1>1, <1>2, DeleteStatement
<1>3. CASE Writes(r, {DateRow(item[r])}, "deleteItem")
  BY <1>1, <1>3, DeleteStatement
<1>4. QED
  BY <1>2, <1>3 DEF DeleteExpiry

LEMMA DeleteItemInv == ASSUME IInv, NEW r \in Requests, DeleteItem(r) PROVE IInv'
<1>1. pc[r] = "deleteItem" /\ Uncommitted
  BY DEF DeleteItem, At
<1>2. CASE item[r] \notin stored /\ Reads(r, "deleteCommit")
  <2>1. {} \in SUBSET {ItemRow(item[r]), DateRow(item[r])}
    OBVIOUS
  <2>2. QED
    BY <1>1, <1>2, <2>1, DeleteStatement
<1>3. CASE Writes(r, {ItemRow(item[r]), DateRow(item[r])}, "deleteCommit")
  BY <1>1, <1>3, DeleteStatement
<1>4. QED
  BY <1>2, <1>3 DEF DeleteItem

-----------------------------------------------------------------------------
(* The notification job                                                    *)

LEMMA JobSelectInv == ASSUME IInv, NEW j \in Jobs, JobSelect(j) PROVE IInv'
<1>1. PICK d \in Days :
        /\ date' = [date EXCEPT ![j] = d]
        /\ todo' = [todo EXCEPT ![j] =
                      {i \in Items : expiry[i] = [due |-> d, sent |-> FALSE]}]
  BY DEF JobSelect
<1>2. /\ j \in Slots /\ SlotInv(j) /\ j \notin Requests /\ TypeOK /\ Uncommitted
      /\ pc[j] = "idle" /\ holds[j] = {}
  BY InvSlot, PantryAssumption DEF Slots, IInv, JobSelect, At, SlotInv, JobLocks
<1>3. /\ SlotTypes' /\ pc'[j] = "announce" /\ holds'[j] = {}
      /\ \A q \in Slots \ {j} : UNCHANGED SlotVars(q)
      /\ todo'[j] = {i \in Items : expiry[i] = [due |-> d, sent |-> FALSE]}
  BY <1>1, <1>2 DEF JobSelect, TypeOK, SlotTypes, SlotVars, InFlight, JobPcs
<1>4. TypeOK'
  BY <1>2, <1>3 DEF TypeOK, SlotTypes, Uncommitted, tables
<1>5. SlotInv(j)'
  BY <1>2, <1>3 DEF SlotInv, JobShape, JobLocks, JobPcs
<1>6. \A q \in Slots : SlotInv(q)'
  BY <1>2, <1>3, <1>5, OtherSlot DEF Uncommitted, tables
<1>7. TodoUnsent'
  BY <1>2, <1>3 DEF TodoUnsent, Uncommitted, tables
<1>8. Adding' \subseteq Adding
  BY <1>2, <1>3 DEF Adding, At, SlotVars, Slots
<1>9. OvershootBounded'
  BY <1>2, <1>8, FewerItems DEF TypeOK, Uncommitted, tables
<1>10. DatedItemsExist' /\ (tier' = "premium" => paid')
  BY <1>2 DEF IInv, DatedItemsExist, TierShape, Uncommitted, tables
<1>11. QED
  BY <1>4, <1>6, <1>7, <1>9, <1>10, CollectInv

LEMMA JobAnnounceInv == ASSUME IInv, NEW j \in Jobs, JobAnnounce(j) PROVE IInv'
<1>1. PICK i \in todo[j] :
        /\ item' = [item EXCEPT ![j] = i]
        /\ todo' = [todo EXCEPT ![j] = @ \ {i}]
  BY DEF JobAnnounce
<1>2. /\ j \in Slots /\ SlotInv(j) /\ j \notin Requests /\ TypeOK /\ Uncommitted
  BY InvSlot, PantryAssumption DEF Slots, IInv, JobAnnounce
<1>3. i \in Items
  BY <1>2 DEF TypeOK
<1>4. /\ SlotTypes' /\ pc'[j] = "mark" /\ holds'[j] = holds[j] /\ item'[j] = i
      /\ \A q \in Slots \ {j} : UNCHANGED SlotVars(q)
      /\ todo'[j] \subseteq todo[j]
  BY <1>1, <1>2, <1>3 DEF JobAnnounce, TypeOK, SlotTypes, SlotVars, InFlight, JobPcs
<1>5. SlotInv(j)'
  BY <1>2, <1>3, <1>4 DEF SlotInv, JobShape, JobLocks, JobPcs, DateRow, Uncommitted, tables
<1>6. QED
  BY <1>2, <1>4, <1>5, MoveStep

LEMMA JobMarkInv == ASSUME IInv, NEW j \in Jobs, JobMark(j) PROVE IInv'
<1>1. /\ j \in Slots /\ SlotInv(j) /\ j \notin Requests /\ TypeOK /\ Uncommitted
      /\ item[j] \in Items /\ "announce" \in InFlight \ {"addCommit"}
  BY InvSlot, PantryAssumption
     DEF Slots, IInv, JobMark, At, SlotInv, JobShape, InFlight, JobPcs
<1>2. ASSUME expiry[item[j]] # NoRow, Writes(j, {DateRow(item[j])}, "announce")
      PROVE  IInv'
  <2>1. /\ Free(j, {DateRow(item[j])}) /\ Goto(j, "announce") /\ seen' = seen
        /\ holds' = [holds EXCEPT ![j] = @ \cup {DateRow(item[j])}]
        /\ {DateRow(item[j])} \in SUBSET Rows
    BY <1>1, <1>2, RowsOfItem DEF Writes
  <2>2. pc'[j] = "announce"
    BY <1>1, <2>1, StatementTypes
  <2>3. \A i \in Items : DateRow(i) \in holds'[j] => expiry[i] # NoRow
    BY <1>1, <1>2, <2>1, RowsDiffer DEF SlotInv, JobLocks, TypeOK
  <2>4. SlotInv(j)'
    BY <1>1, <2>2, <2>3 DEF SlotInv, JobShape, JobLocks, JobPcs, DateRow,
       Uncommitted, tables
  <2>5. QED
    BY <1>1, <2>1, <2>4, StatementStep
<1>3. QED
  BY <1>1, <1>2, LeaveStep DEF JobMark

LEMMA JobCommitInv == ASSUME IInv, NEW j \in Jobs, JobCommit(j) PROVE IInv'
<1>1. /\ j \in Slots /\ SlotInv(j) /\ TypeOK /\ Leave(j)
      /\ stored' = stored /\ paid' = paid
  BY InvSlot DEF Slots, IInv, JobCommit
<1>2. \A i \in Items :
        IF DateRow(i) \in holds[j]
        THEN expiry[i] \in Dated /\ expiry'[i] = [expiry[i] EXCEPT !.sent = TRUE]
        ELSE expiry'[i] = expiry[i]
  BY <1>1 DEF JobCommit, SlotInv, JobLocks, TypeOK
<1>3. expiry' \in [Items -> Dated \cup {NoRow}]
  <2>1. \A i \in Items : expiry'[i] \in Dated \cup {NoRow}
    BY <1>1, <1>2 DEF TypeOK, Dated
  <2>2. QED
    BY <2>1 DEF JobCommit
<1>4. DatedItemsExist'
  BY <1>1, <1>2, PantryAssumption DEF IInv, DatedItemsExist
<1>5. OvershootBounded'
  BY <1>1, LeftSlot, FewerItems DEF TypeOK
<1>6. \A q \in Slots \ {j}, i \in Items : DateRow(i) \in holds[q] => expiry'[i] = expiry[i]
  BY <1>1, <1>2, HeldBySOnly
<1>7. TodoUnsent'
  BY <1>1, LeftSlot DEF TodoUnsent
<1>8. \A q \in Slots : SlotInv(q)'
  BY <1>1, <1>6, LeftSlot, OtherSlot
<1>9. TypeOK'
  BY <1>1, <1>3, LeftSlot DEF TypeOK, SlotTypes, JobCommit
<1>10. tier' = "premium" => paid'
  BY DEF IInv, TierShape, JobCommit
<1>11. QED
  BY <1>4, <1>5, <1>7, <1>8, <1>9, <1>10, CollectInv

-----------------------------------------------------------------------------
(* Subscription                                                            *)

LEMMA TierStep ==
  ASSUME IInv, UNCHANGED <<stored, expiry, locals>>, tier' \in {"free", "premium"},
         paid' \in BOOLEAN, paid => paid', tier' = "premium" => paid'
  PROVE  IInv'
<1>1. TypeOK'
  BY DEF IInv, TypeOK, locals
<1>2. \A s \in Slots : SlotInv(s)'
  BY OtherSlot DEF SlotVars, locals
<1>3. Adding' = Adding
  BY DEF Adding, At, locals
<1>4. OvershootBounded'
  BY <1>3, FewerItems DEF IInv, TypeOK
<1>5. TodoUnsent' /\ DatedItemsExist'
  BY DEF IInv, TodoUnsent, DatedItemsExist, locals
<1>6. QED
  BY <1>1, <1>2, <1>4, <1>5, CollectInv

-----------------------------------------------------------------------------
(* The theorems                                                            *)

LEMMA NextInv == ASSUME IInv, [Next]_vars PROVE IInv'
<1>1. ASSUME NEW r \in Requests,
             \/ AddArrive(r) \/ ScanCheck(r) \/ AddCheck(r) \/ AddCommit(r)
             \/ UpdateArrive(r) \/ UpdateItem(r) \/ FindExpiry(r) \/ WriteExpiry(r)
             \/ InsertExpiry(r) \/ UpdateCommit(r)
             \/ DeleteArrive(r) \/ DeleteExpiry(r) \/ DeleteItem(r) \/ DeleteCommit(r)
      PROVE  IInv'
  BY <1>1, AddArriveInv, ScanCheckInv, AddCheckInv, AddCommitInv, UpdateArriveInv,
     UpdateItemInv, FindExpiryInv, WriteExpiryInv, InsertExpiryInv, UpdateCommitInv,
     DeleteArriveInv, DeleteExpiryInv, DeleteItemInv, DeleteCommitInv
<1>2. ASSUME NEW j \in Jobs,
             JobSelect(j) \/ JobAnnounce(j) \/ JobMark(j) \/ JobCommit(j)
      PROVE  IInv'
  BY <1>2, JobSelectInv, JobAnnounceInv, JobMarkInv, JobCommitInv
<1>3. ASSUME NEW s \in Slots, Abort(s) PROVE IInv'
  BY <1>3, LeaveStep DEF Abort
<1>4. CASE Upgrade
  BY <1>4, TierStep DEF Upgrade, IInv, TypeOK
<1>5. CASE Downgrade
  BY <1>5, TierStep DEF Downgrade, IInv, TypeOK
<1>6. CASE UNCHANGED vars
  BY <1>6, TierStep DEF vars, tables, IInv, TypeOK, TierShape
<1>7. QED
  BY <1>1, <1>2, <1>3, <1>4, <1>5, <1>6 DEF Next

\* IInv holds in every reachable state: what a transaction holds or remembers
\* stays true of the tables until it ends.
THEOREM PantryInvariance == Spec => []IInv
<1>1. IInv /\ [Next]_vars => IInv'
  BY NextInv
<1>2. QED
  BY InitInv, <1>1, PTL DEF Spec

\* Rows, locks and what each transaction remembers keep their types.
THEOREM PantryTypeCorrect == Spec => []TypeOK
<1>1. IInv => TypeOK
  BY DEF IInv
<1>2. QED
  BY PantryInvariance, <1>1, PTL

\* However adds and scans race, an account that never paid exceeds the free
\* limit by less than the number of its requests in flight.
THEOREM LimitNearlyKept == Spec => []OvershootBounded
<1>1. IInv => OvershootBounded
  BY DEF IInv
<1>2. QED
  BY PantryInvariance, <1>1, PTL

\* No interleaving of edits, deletions and the job leaves an expiry date
\* without its item.
THEOREM NoOrphanDates == Spec => []DatedItemsExist
<1>1. IInv => DatedItemsExist
  BY DEF IInv
<1>2. QED
  BY PantryInvariance, <1>1, PTL

\* Only JobAnnounce announces.
LEMMA AnnounceStep ==
  ASSUME IInv, [Next]_vars, NEW j \in Jobs, NEW i, Announces(j, i)
  PROVE  JobAnnounce(j)
<1>1. /\ TypeOK /\ j \in Slots /\ j \notin Requests
      /\ pc[j] = "announce" /\ pc'[j] = "mark"
  BY PantryAssumption DEF IInv, Slots, Announces, At
<1>2. ASSUME NEW s \in Slots, Leave(s) PROVE FALSE
  BY <1>1, <1>2 DEF Leave, TypeOK
<1>3. ASSUME NEW s \in Slots, NEW next, Goto(s, next), s # j \/ next # "mark"
      PROVE  FALSE
  BY <1>1, <1>3 DEF Goto, TypeOK
<1>4. ASSUME NEW r \in Requests,
             \/ AddArrive(r) \/ ScanCheck(r) \/ AddCheck(r) \/ AddCommit(r)
             \/ UpdateArrive(r) \/ UpdateItem(r) \/ FindExpiry(r) \/ WriteExpiry(r)
             \/ InsertExpiry(r) \/ UpdateCommit(r)
             \/ DeleteArrive(r) \/ DeleteExpiry(r) \/ DeleteItem(r) \/ DeleteCommit(r)
      PROVE  FALSE
  <2>1. r \in Slots /\ r # j
    BY <1>1 DEF Slots
  <2>2. ASSUME NEW first, NEW t, NEW k, NEW d, NEW row, Arrive(r, first, t, k, d, row)
        PROVE  FALSE
    BY <1>1, <2>1, <2>2 DEF Arrive, TypeOK
  <2>3. QED
    BY <1>2, <1>3, <1>4, <2>1, <2>2 DEF AddArrive, ScanCheck, AddCheck, AddCommit,
       UpdateArrive, UpdateItem, FindExpiry, WriteExpiry, InsertExpiry, UpdateCommit,
       DeleteArrive, DeleteExpiry, DeleteItem, DeleteCommit, Reads, Writes
<1>5. ASSUME NEW k \in Jobs, JobSelect(k) PROVE FALSE
  BY <1>1, <1>5 DEF JobSelect, TypeOK, Slots
<1>6. ASSUME NEW k \in Jobs, JobAnnounce(k), k # j PROVE FALSE
  BY <1>1, <1>6 DEF JobAnnounce, TypeOK, Slots
<1>7. ASSUME NEW k \in Jobs, JobMark(k) \/ JobCommit(k) PROVE FALSE
  BY <1>2, <1>3, <1>7 DEF JobMark, JobCommit, Writes, Slots
<1>8. ASSUME NEW s \in Slots, Abort(s) PROVE FALSE
  BY <1>2, <1>8 DEF Abort
<1>9. ASSUME UNCHANGED pc PROVE FALSE
  BY <1>1, <1>9
<1>10. QED
  BY <1>4, <1>5, <1>6, <1>7, <1>8, <1>9 DEF Next, Upgrade, Downgrade, locals, vars

\* With one notification job, a date recorded as announced is not announced
\* again, whatever is edited or deleted while the job runs.
THEOREM NoDateToldTwice ==
  ASSUME NEW n, Jobs = {n}
  PROVE  Spec => NoSecondNotice
<1> DEFINE Untold(j, i) == (Announces(j, i) /\ expiry[i] # NoRow) => ~expiry[i].sent
<1>1. IInv /\ [Next]_vars => [\A j \in Jobs, i \in Items : Untold(j, i)]_vars
  <2> SUFFICES ASSUME IInv, [Next]_vars, NEW j \in Jobs, NEW i \in Items,
                      Announces(j, i), expiry[i] # NoRow
               PROVE  ~expiry[i].sent
    OBVIOUS
  <2>1. JobAnnounce(j) /\ j \in Slots /\ TypeOK
    BY AnnounceStep DEF IInv, Slots
  <2>2. i \in todo[j]
    BY <2>1 DEF JobAnnounce, Announces, TypeOK
  <2>3. QED
    BY <2>2 DEF IInv, TodoUnsent
<1>2. QED
  BY PantryInvariance, <1>1, PTL DEF Spec, NoSecondNotice
=============================================================================
