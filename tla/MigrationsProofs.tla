--------------------------- MODULE MigrationsProofs ---------------------------
(***************************************************************************)
(* What a command of alembic does, revision by revision.                   *)
(***************************************************************************)
EXTENDS Migrations, TLAPS

LEMMA ChainLength == HeadRevision = 8 /\ BaseRevision = 0 /\ DOMAIN Chain = 1..8
<1>1. Len(Chain) = 8
  BY DEF Chain
<1>2. DOMAIN Chain = 1..8
  BY DEF Chain
<1>3. QED
  BY <1>1, <1>2 DEF HeadRevision, BaseRevision

\* Up from a revision and down from one, step by step.
LEMMA UpTo ==
  ASSUME NEW S, NEW from \in 0..8, from \in S, \A n \in from..7 : n \in S => n + 1 \in S
  PROVE  \A n \in from..8 : n \in S
<1> DEFINE In(n) == from <= n => n \in S
<1>1. \A n \in 0..7 : In(n) => In(n + 1)
  OBVIOUS
<1>2. In(0)
  OBVIOUS
<1> HIDE DEF In
<1>3. In(0) /\ In(1) /\ In(2) /\ In(3) /\ In(4) /\ In(5) /\ In(6) /\ In(7) /\ In(8)
  BY <1>1, <1>2
<1>4. \A n \in 0..8 : In(n)
  BY <1>3
<1>5. QED
  BY <1>4 DEF In

LEMMA DownTo ==
  ASSUME NEW S, NEW from \in 0..8, from \in S, \A n \in 1..from : n \in S => n - 1 \in S
  PROVE  \A n \in 0..from : n \in S
<1> DEFINE T == {n \in 0..8 : 8 - n \in S}
<1>1. \A n \in (8 - from)..7 : n \in T => n + 1 \in T
  <2> SUFFICES ASSUME NEW n \in (8 - from)..7, n \in T PROVE n + 1 \in T
    OBVIOUS
  <2>1. 8 - n \in 1..from /\ 8 - n \in S /\ (8 - n) - 1 = 8 - (n + 1) /\ n + 1 \in 0..8
    OBVIOUS
  <2>2. QED
    BY <2>1
<1>2. 8 - from \in 0..8 /\ 8 - (8 - from) = from
  OBVIOUS
<1>3. 8 - from \in T
  BY <1>2
<1> HIDE DEF T
<1>4. \A n \in (8 - from)..8 : n \in T
  BY ONLY <1>1, <1>2, <1>3, UpTo
<1>5. SUFFICES ASSUME NEW n \in 0..from PROVE n \in S
  OBVIOUS
<1>6. 8 - n \in (8 - from)..8 /\ 8 - (8 - n) = n
  OBVIOUS
<1>7. QED
  BY <1>4, <1>6 DEF T

-----------------------------------------------------------------------------
(* The two commands, as recursions                                         *)

Failed(d) == [ok |-> FALSE, db |-> d]
Done(d) == [ok |-> TRUE, db |-> d]

\* One more revision up, after what came before it; d if anything fails.
UpStep(d, k, prev) ==
  IF prev.ok /\ CanUpgrade(Chain[k], prev.db) THEN Done(Upgraded(Chain[k], prev.db))
  ELSE Failed(d)

\* Downgrades from k + 1 to k.
DownStep(d, k, prev, populated) ==
  IF prev.ok /\ CanDowngrade(Chain[k + 1], prev.db, populated)
  THEN Done(Downgraded(Chain[k + 1], prev.db))
  ELSE Failed(d)

UpBody(d, from, k, f) == IF k = from THEN Done(d) ELSE UpStep(d, k, f[k - 1])
DownBody(d, from, k, f, populated) ==
  IF k = from THEN Done(d) ELSE DownStep(d, k, f[k + 1], populated)

\* There is such a function on every interval that starts at from.
LEMMA UpDefined ==
  ASSUME NEW d, NEW from \in 0..8
  PROVE  \E f : f = [k \in from..8 |-> UpBody(d, from, k, f)]
<1> DEFINE S == {n \in from..8 : \E f : f = [k \in from..n |-> UpBody(d, from, k, f)]}
<1>1. from \in S
  <2> DEFINE f == [k \in from..from |-> Done(d)]
  <2>1. f = [k \in from..from |-> UpBody(d, from, k, f)]
    BY DEF UpBody
  <2>2. QED
    BY <2>1
<1>2. ASSUME NEW n \in from..7, n \in S PROVE n + 1 \in S
  <2>1. PICK f : f = [k \in from..n |-> UpBody(d, from, k, f)]
    BY <1>2
  <2> DEFINE g == [k \in from..(n + 1) |-> IF k = n + 1 THEN UpStep(d, k, f[n]) ELSE f[k]]
  <2>2. ASSUME NEW k \in from..(n + 1) PROVE g[k] = UpBody(d, from, k, g)
    <3>1. CASE k = n + 1
      <4>1. g[k] = UpStep(d, k, f[n]) /\ g[k - 1] = f[n] /\ k # from /\ k - 1 = n
        BY <3>1
      <4>2. QED
        BY <4>1 DEF UpBody
    <3>2. CASE k # n + 1
      <4>1. k \in from..n /\ g[k] = f[k] /\ f[k] = UpBody(d, from, k, f)
        BY <2>1, <3>2
      <4>2. k # from => k - 1 \in from..n /\ g[k - 1] = f[k - 1]
        BY <4>1
      <4>3. QED
        BY <4>1, <4>2 DEF UpBody
    <3>3. QED
      BY <3>1, <3>2
  <2>3. g = [k \in from..(n + 1) |-> g[k]]
    OBVIOUS
  <2> HIDE DEF g
  <2>4. g = [k \in from..(n + 1) |-> UpBody(d, from, k, g)]
    BY <2>2, <2>3
  <2>5. n + 1 \in from..8
    OBVIOUS
  <2>6. QED
    BY <2>4, <2>5
<1> HIDE DEF S
<1>3. 8 \in S
  BY <1>1, <1>2, UpTo
<1>4. QED
  BY <1>3 DEF S

LEMMA UpgradingSteps ==
  ASSUME NEW d, NEW from \in 0..8
  PROVE  /\ Upgrading(d, from, from) = Done(d)
         /\ \A k \in (from + 1)..8 :
              Upgrading(d, from, k) = UpStep(d, k, Upgrading(d, from, k - 1))
<1> DEFINE after == CHOOSE f : f = [k \in from..8 |-> UpBody(d, from, k, f)]
<1>1. after = [k \in from..8 |-> UpBody(d, from, k, after)]
  BY UpDefined
<1>2. \A to : Upgrading(d, from, to) = after[to]
  BY ChainLength DEF Upgrading, UpBody, UpStep, Done, Failed
<1> HIDE DEF after
<1>3. \A k \in from..8 : after[k] = UpBody(d, from, k, after)
  BY <1>1
<1>4. after[from] = Done(d)
  BY <1>3 DEF UpBody
<1>5. ASSUME NEW k \in (from + 1)..8
      PROVE  after[k] = UpStep(d, k, after[k - 1])
  BY <1>3 DEF UpBody
<1>6. QED
  BY <1>2, <1>4, <1>5

LEMMA DownDefined ==
  ASSUME NEW d, NEW from \in 0..8, NEW populated
  PROVE  \E f : f = [k \in 0..from |-> DownBody(d, from, k, f, populated)]
<1> DEFINE S == {n \in 0..from : \E f : f = [k \in n..from |-> DownBody(d, from, k, f, populated)]}
<1>1. from \in S
  <2> DEFINE f == [k \in from..from |-> Done(d)]
  <2>1. f = [k \in from..from |-> DownBody(d, from, k, f, populated)]
    BY DEF DownBody
  <2>2. QED
    BY <2>1
<1>2. ASSUME NEW n \in 1..from, n \in S PROVE n - 1 \in S
  <2>1. PICK f : f = [k \in n..from |-> DownBody(d, from, k, f, populated)]
    BY <1>2
  <2> DEFINE g == [k \in (n - 1)..from |->
                     IF k = n - 1 THEN DownStep(d, k, f[n], populated) ELSE f[k]]
  <2>2. ASSUME NEW k \in (n - 1)..from PROVE g[k] = DownBody(d, from, k, g, populated)
    <3>1. CASE k = n - 1
      <4>1. /\ g[k] = DownStep(d, k, f[n], populated) /\ g[k + 1] = f[n]
            /\ k # from /\ k + 1 = n
        BY <3>1
      <4>2. QED
        BY <4>1 DEF DownBody
    <3>2. CASE k # n - 1
      <4>1. k \in n..from /\ g[k] = f[k] /\ f[k] = DownBody(d, from, k, f, populated)
        BY <2>1, <3>2
      <4>2. k # from => k + 1 \in n..from /\ g[k + 1] = f[k + 1]
        BY <4>1
      <4>3. QED
        BY <4>1, <4>2 DEF DownBody
    <3>3. QED
      BY <3>1, <3>2
  <2>3. g = [k \in (n - 1)..from |-> g[k]]
    OBVIOUS
  <2> HIDE DEF g
  <2>4. g = [k \in (n - 1)..from |-> DownBody(d, from, k, g, populated)]
    BY <2>2, <2>3
  <2>5. n - 1 \in 0..from
    OBVIOUS
  <2>6. QED
    BY <2>4, <2>5
<1> HIDE DEF S
<1>3. 0 \in S
  BY <1>1, <1>2, DownTo
<1>4. QED
  BY <1>3 DEF S

LEMMA DowngradingSteps ==
  ASSUME NEW d, NEW from \in 0..8, NEW populated
  PROVE  /\ Downgrading(d, from, from, populated) = Done(d)
         /\ \A k \in 0..(from - 1) :
              Downgrading(d, from, k, populated) =
                DownStep(d, k, Downgrading(d, from, k + 1, populated), populated)
<1> DEFINE after == CHOOSE f : f = [k \in 0..from |-> DownBody(d, from, k, f, populated)]
<1>1. after = [k \in 0..from |-> DownBody(d, from, k, after, populated)]
  BY DownDefined
<1>2. \A to : Downgrading(d, from, to, populated) = after[to]
  BY ChainLength DEF Downgrading, DownBody, DownStep, Done, Failed
<1> HIDE DEF after
<1>3. \A k \in 0..from : after[k] = DownBody(d, from, k, after, populated)
  BY <1>1
<1>4. after[from] = Done(d)
  BY <1>3 DEF DownBody
<1>5. ASSUME NEW k \in 0..(from - 1)
      PROVE  after[k] = DownStep(d, k, after[k + 1], populated)
  BY <1>3 DEF DownBody
<1>6. QED
  BY <1>2, <1>4, <1>5

-----------------------------------------------------------------------------
(* The revisions                                                           *)

LEMMA ChainIs ==
  /\ Chain[1] = Init_e093f8711acd /\ Chain[3] = AddCategories_2b6601049b08
  /\ Chain[6] = AddParent_96153f250b24 /\ Chain[8] = AddUnits_3d4275ecfd3e
  /\ Chain[2] = NoChange /\ Chain[4] = NoChange /\ Chain[5] = NoChange /\ Chain[7] = NoChange
BY DEF Chain

LEMMA NoChangeIs ==
  /\ NoChange.types = {} /\ NoChange.creates = <<>> /\ NoChange.adds = {}
  /\ NoChange.removes = {} /\ NoChange.drops = <<>> /\ NoChange.restores = {}
BY DEF NoChange

LEMMA InitIs ==
  LET r == Init_e093f8711acd IN
  /\ r.creates = InitTables /\ r.drops = InitDrops
  /\ r.adds = {} /\ r.removes = {} /\ r.restores = {}
BY DEF Init_e093f8711acd, NoChange

LEMMA AddCategoriesIs ==
  LET r == AddCategories_2b6601049b08 IN
  /\ r.creates = CategoryTables /\ r.drops = CategoryDrops
  /\ r.adds = {} /\ r.removes = {TierColumn} /\ r.restores = {TierColumn}
BY DEF AddCategories_2b6601049b08, NoChange

LEMMA AddParentIs ==
  LET r == AddParent_96153f250b24 IN
  r.creates = <<>> /\ r.adds = {ParentColumn} /\ r.removes = {} /\ r.unnamed
BY DEF AddParent_96153f250b24, NoChange

LEMMA AddUnitsIs ==
  LET r == AddUnits_3d4275ecfd3e IN
  /\ r.creates = UnitTables /\ r.drops = UnitDrops /\ r.types = {"unit_type"}
  /\ r.adds = {} /\ r.removes = {} /\ r.restores = {}
BY DEF AddUnits_3d4275ecfd3e, NoChange

\* The names of the tables, in the order of the code.
LEMMA OwnersAre ==
  /\ DOMAIN InitOwners = 1..8
  /\ InitOwners[1][1] = "cuisine_categories" /\ InitOwners[2][1] = "equipment"
  /\ InitOwners[3][1] = "users" /\ InitOwners[4][1] = "ai_scan_logs"
  /\ InitOwners[5][1] = "inventory_items" /\ InitOwners[6][1] = "recipes"
  /\ InitOwners[7][1] = "shopping_lists" /\ InitOwners[8][1] = "subscriptions"
BY DEF InitOwners

LEMMA DetailsAre ==
  /\ DOMAIN InitDetails = 1..4
  /\ InitDetails[1][1] = "user_equipment" /\ InitDetails[2][1] = "expiry_tracking"
  /\ InitDetails[3][1] = "recipe_ingredients" /\ InitDetails[4][1] = "shopping_list_items"
BY DEF InitDetails

LEMMA Appended ==
  ASSUME NEW T, NEW a \in Seq(T), NEW b \in Seq(T)
  PROVE  /\ a \o b \in Seq(T) /\ Len(a \o b) = Len(a) + Len(b)
         /\ \A k \in 1..Len(a) + Len(b) :
              (a \o b)[k] = IF k <= Len(a) THEN a[k] ELSE b[k - Len(a)]
OBVIOUS

LEMMA InitTablesAre ==
  /\ DOMAIN InitTables = 1..12
  /\ InitTables[1] = InitOwners[1] /\ InitTables[2] = InitOwners[2]
  /\ InitTables[3] = InitOwners[3] /\ InitTables[4] = InitOwners[4]
  /\ InitTables[5] = InitOwners[5] /\ InitTables[6] = InitOwners[6]
  /\ InitTables[7] = InitOwners[7] /\ InitTables[8] = InitOwners[8]
  /\ InitTables[9] = InitDetails[1] /\ InitTables[10] = InitDetails[2]
  /\ InitTables[11] = InitDetails[3] /\ InitTables[12] = InitDetails[4]
<1> DEFINE T == {InitOwners[k] : k \in 1..8} \cup {InitDetails[k] : k \in 1..4}
<1>1. InitOwners \in Seq(T) /\ Len(InitOwners) = 8
  BY DEF InitOwners
<1>2. InitDetails \in Seq(T) /\ Len(InitDetails) = 4
  BY DEF InitDetails
<1> HIDE DEF T
<1>3. InitTables = InitOwners \o InitDetails
  BY DEF InitTables
<1>4. /\ InitTables \in Seq(T) /\ Len(InitTables) = Len(InitOwners) + Len(InitDetails)
      /\ \A k \in 1..Len(InitOwners) + Len(InitDetails) :
           InitTables[k] = IF k <= Len(InitOwners) THEN InitOwners[k]
                           ELSE InitDetails[k - Len(InitOwners)]
  BY <1>1, <1>2, <1>3, Appended, Zenon
<1>5. /\ InitTables \in Seq(T) /\ Len(InitTables) = 12
      /\ \A k \in 1..12 : InitTables[k] = IF k <= 8 THEN InitOwners[k] ELSE InitDetails[k - 8]
  BY <1>1, <1>2, <1>4
<1>6. QED
  BY <1>5

LEMMA InitDropsAre ==
  {InitDrops[k] : k \in DOMAIN InitDrops} =
    {"shopping_list_items", "recipe_ingredients", "expiry_tracking", "user_equipment",
     "subscriptions", "shopping_lists", "recipes", "inventory_items", "ai_scan_logs",
     "users", "equipment", "cuisine_categories"}
BY DEF InitDrops

LEMMA InitCreated ==
  {InitTables[k][1] : k \in DOMAIN InitTables} =
    {"shopping_list_items", "recipe_ingredients", "expiry_tracking", "user_equipment",
     "subscriptions", "shopping_lists", "recipes", "inventory_items", "ai_scan_logs",
     "users", "equipment", "cuisine_categories"}
<1>1. 1..12 = {1, 2, 3, 4, 5, 6, 7, 8, 9, 10, 11, 12}
  OBVIOUS
<1>2. QED
  BY <1>1, InitTablesAre, OwnersAre, DetailsAre

\* downgrade() drops what upgrade() has created.
LEMMA DropsWhatItCreates ==
  /\ Dropped(Chain[1]) = Created(Chain[1])
  /\ Dropped(Chain[3]) = Created(Chain[3])
  /\ Dropped(Chain[8]) = Created(Chain[8])
<1>1. Dropped(Chain[1]) = Created(Chain[1])
  BY ChainIs, InitIs, InitDropsAre, InitCreated DEF Dropped, Created
<1>2. Dropped(Chain[3]) = Created(Chain[3])
  <2>1. {CategoryDrops[k] : k \in DOMAIN CategoryDrops} =
          {"recipe_categories", "inventory_item_categories", "revoked_tokens",
           "password_reset_tokens", "email_verification_tokens", "categories"}
    BY DEF CategoryDrops
  <2>2. {CategoryTables[k][1] : k \in DOMAIN CategoryTables} =
          {"recipe_categories", "inventory_item_categories", "revoked_tokens",
           "password_reset_tokens", "email_verification_tokens", "categories"}
    BY DEF CategoryTables
  <2>3. QED
    BY <2>1, <2>2, ChainIs, AddCategoriesIs DEF Dropped, Created
<1>3. Dropped(Chain[8]) = Created(Chain[8])
  <2>1. {UnitDrops[k] : k \in DOMAIN UnitDrops} = {"category_units", "units"}
    BY DEF UnitDrops
  <2>2. {UnitTables[k][1] : k \in DOMAIN UnitTables} = {"category_units", "units"}
    BY DEF UnitTables
  <2>3. QED
    BY <2>1, <2>2, ChainIs, AddUnitsIs DEF Dropped, Created
<1>4. QED
  BY <1>1, <1>2, <1>3
-----------------------------------------------------------------------------
(* Tables                                                                  *)

IsTable(x) ==
  \E a, b, c, d : x = [required |-> a, optional |-> b, unique |-> c, refs |-> d]

IsSchema(f) == f = [t \in DOMAIN f |-> f[t]] /\ \A t \in DOMAIN f : IsTable(f[t])

CreatesTables(r) == \A k \in DOMAIN r.creates : IsTable(r.creates[k][2])

LEMMA EntityIsTable ==
  ASSUME NEW a, NEW b, NEW c, NEW d
  PROVE  IsTable(Entity(a, b, c, d)) /\ IsTable(Association(a, b, c, d))
BY DEF IsTable, Entity, Association

LEMMA WithAddedFields ==
  ASSUME NEW a, NEW b, NEW c, NEW d, NEW name, NEW changes
  PROVE  WithAdded([required |-> a, optional |-> b, unique |-> c, refs |-> d], name, changes) =
           [required |-> a, optional |-> b \cup ColumnsOf(changes, name), unique |-> c,
            refs |-> d \cup RefsOf(changes, name)]
<1> DEFINE x == [required |-> a, optional |-> b, unique |-> c, refs |-> d]
<1>1. x.optional = b /\ x.refs = d
  OBVIOUS
<1> DEFINE e == b \cup ColumnsOf(changes, name)
           f == d \cup RefsOf(changes, name)
<1> HIDE DEF e, f
<1>2. [x EXCEPT !.optional = e, !.refs = f] = [[x EXCEPT !.optional = e] EXCEPT !.refs = f]
  OBVIOUS
<1>3. [x EXCEPT !.optional = e] = [required |-> a, optional |-> e, unique |-> c, refs |-> d]
  OBVIOUS
<1>4. [[required |-> a, optional |-> e, unique |-> c, refs |-> d] EXCEPT !.refs = f] =
        [required |-> a, optional |-> e, unique |-> c, refs |-> f]
  OBVIOUS
<1>5. [x EXCEPT !.optional = e, !.refs = f] =
        [required |-> a, optional |-> e, unique |-> c, refs |-> f]
  BY <1>2, <1>3, <1>4, Zenon
<1>6. QED
  BY <1>1, <1>5, Zenon DEF WithAdded, e, f

LEMMA TableChanges ==
  ASSUME NEW x, IsTable(x), NEW name, NEW changes
  PROVE  /\ IsTable(WithAdded(x, name, changes)) /\ IsTable(WithRemoved(x, name, changes))
         /\ IsTable(WithRestored(x, name, changes))
         /\ WithAdded(x, name, {}) = x /\ WithRemoved(x, name, {}) = x
         /\ WithRestored(x, name, {}) = x
         /\ ColumnsOf(changes, name) = {} => WithRemoved(x, name, changes) = x
         /\ ColumnsOf(changes, name) = {} /\ RefsOf(changes, name) = {} =>
              WithAdded(x, name, changes) = x
         /\ ColumnsOf(changes, name) \subseteq x.required =>
              WithRestored(WithRemoved(x, name, changes), name, changes) = x
<1>1. PICK a, b, c, d : x = [required |-> a, optional |-> b, unique |-> c, refs |-> d]
  BY DEF IsTable
<1>2. ColumnsOf({}, name) = {} /\ RefsOf({}, name) = {}
  BY DEF ColumnsOf, RefsOf
<1>3. WithAdded(x, name, changes) =
        [required |-> a, optional |-> b \cup ColumnsOf(changes, name), unique |-> c,
         refs |-> d \cup RefsOf(changes, name)]
  <2>1. WithAdded([required |-> a, optional |-> b, unique |-> c, refs |-> d], name, changes) =
          [required |-> a, optional |-> b \cup ColumnsOf(changes, name), unique |-> c,
           refs |-> d \cup RefsOf(changes, name)]
    BY WithAddedFields
  <2>2. QED
    BY <1>1, <2>1
<1>4. WithRemoved(x, name, changes) =
        [required |-> a \ ColumnsOf(changes, name), optional |-> b, unique |-> c, refs |-> d]
  BY <1>1 DEF WithRemoved
<1>5. WithRestored(x, name, changes) =
        [required |-> a \cup ColumnsOf(changes, name), optional |-> b, unique |-> c, refs |-> d]
  BY <1>1 DEF WithRestored
<1>6. WithAdded(x, name, {}) = x /\ WithRemoved(x, name, {}) = x /\ WithRestored(x, name, {}) = x
  BY <1>1, <1>2 DEF WithAdded, WithRemoved, WithRestored
<1>7. ASSUME ColumnsOf(changes, name) \subseteq x.required
      PROVE  WithRestored(WithRemoved(x, name, changes), name, changes) = x
  <2>1. WithRestored(WithRemoved(x, name, changes), name, changes) =
          [required |-> (a \ ColumnsOf(changes, name)) \cup ColumnsOf(changes, name),
           optional |-> b, unique |-> c, refs |-> d]
    BY <1>4 DEF WithRestored
  <2>2. ColumnsOf(changes, name) \subseteq a
    BY <1>1, <1>7
  <2>3. (a \ ColumnsOf(changes, name)) \cup ColumnsOf(changes, name) = a
    BY <2>2
  <2>4. QED
    BY <1>1, <2>1, <2>3
<1>8. /\ IsTable(WithAdded(x, name, changes)) /\ IsTable(WithRemoved(x, name, changes))
      /\ IsTable(WithRestored(x, name, changes))
  BY <1>3, <1>4, <1>5, Zenon DEF IsTable
<1>9. /\ ColumnsOf(changes, name) = {} => WithRemoved(x, name, changes) = x
      /\ ColumnsOf(changes, name) = {} /\ RefsOf(changes, name) = {} =>
           WithAdded(x, name, changes) = x
  <2>1. a \ {} = a /\ b \cup {} = b /\ d \cup {} = d
    OBVIOUS
  <2>2. QED
    BY <1>1, <1>3, <1>4, <2>1, Zenon
<1>10. QED
  BY <1>6, <1>7, <1>8, <1>9

LEMMA AllCreateTables == \A k \in 1..8 : CreatesTables(Chain[k])
<1>1. CreatesTables(Chain[1])
  <2>1. \A k \in 1..8 : IsTable(InitOwners[k][2])
    <3>1. /\ IsTable(InitOwners[1][2]) /\ IsTable(InitOwners[2][2]) /\ IsTable(InitOwners[3][2])
          /\ IsTable(InitOwners[4][2]) /\ IsTable(InitOwners[5][2]) /\ IsTable(InitOwners[6][2])
          /\ IsTable(InitOwners[7][2]) /\ IsTable(InitOwners[8][2])
      BY EntityIsTable DEF InitOwners
    <3>2. QED
      BY <3>1
  <2>2. \A k \in 1..4 : IsTable(InitDetails[k][2])
    <3>1. /\ IsTable(InitDetails[1][2]) /\ IsTable(InitDetails[2][2])
          /\ IsTable(InitDetails[3][2]) /\ IsTable(InitDetails[4][2])
      BY EntityIsTable DEF InitDetails
    <3>2. QED
      BY <3>1
  <2>3. \A k \in 1..12 : IsTable(InitTables[k][2])
    BY <2>1, <2>2, InitTablesAre
  <2>4. QED
    BY <2>3, InitTablesAre, ChainIs, InitIs DEF CreatesTables
<1>2. CreatesTables(Chain[3])
  <2>1. /\ IsTable(CategoryTables[1][2]) /\ IsTable(CategoryTables[2][2])
        /\ IsTable(CategoryTables[3][2]) /\ IsTable(CategoryTables[4][2])
        /\ IsTable(CategoryTables[5][2]) /\ IsTable(CategoryTables[6][2])
    BY EntityIsTable DEF CategoryTables
  <2>2. DOMAIN CategoryTables = 1..6
    BY DEF CategoryTables
  <2>3. QED
    BY <2>1, <2>2, ChainIs, AddCategoriesIs DEF CreatesTables
<1>3. CreatesTables(Chain[8])
  <2>1. IsTable(UnitTables[1][2]) /\ IsTable(UnitTables[2][2])
    BY EntityIsTable DEF UnitTables, IsTable, Entity
  <2>2. DOMAIN UnitTables = 1..2
    BY DEF UnitTables
  <2>3. QED
    BY <2>1, <2>2, ChainIs, AddUnitsIs DEF CreatesTables
<1>4. CreatesTables(NoChange)
  BY NoChangeIs DEF CreatesTables
<1>5. CreatesTables(Chain[6])
  BY ChainIs, AddParentIs DEF CreatesTables
<1>6. QED
  BY <1>1, <1>2, <1>3, <1>4, <1>5, ChainIs

LEMMA DefinitionIsCreated ==
  ASSUME NEW r, NEW name \in Created(r)
  PROVE  \E k \in DOMAIN r.creates : r.creates[k][1] = name /\ Definition(r, name) = r.creates[k][2]
<1> DEFINE all == {r.creates[k] : k \in DOMAIN r.creates}
<1>1. \E c \in all : c[1] = name
  BY DEF Created
<1> DEFINE c == CHOOSE x \in all : x[1] = name
<1>2. c \in all /\ c[1] = name
  BY <1>1
<1>3. Definition(r, name) = c[2]
  BY DEF Definition
<1> HIDE DEF c
<1>4. QED
  BY <1>2, <1>3

LEMMA UpgradedIsSchema ==
  ASSUME NEW r, NEW d, CreatesTables(r), IsSchema(d.schema)
  PROVE  IsSchema(Upgraded(r, d).schema)
<1> DEFINE f == Upgraded(r, d).schema
<1>1. f = [t \in DOMAIN d.schema \cup Created(r) |->
             IF t \in Created(r) THEN Definition(r, t)
             ELSE WithAdded(WithRemoved(d.schema[t], t, r.removes), t, r.adds)]
  BY DEF Upgraded
<1>2. ASSUME NEW t \in DOMAIN d.schema \cup Created(r)
      PROVE  IsTable(f[t])
  <2>1. CASE t \in Created(r)
    BY <1>1, <2>1, DefinitionIsCreated DEF CreatesTables
  <2>2. CASE t \notin Created(r)
    <3>1. IsTable(d.schema[t])
      BY <2>2 DEF IsSchema
    <3>2. IsTable(WithAdded(WithRemoved(d.schema[t], t, r.removes), t, r.adds))
      BY <3>1, TableChanges
    <3>3. QED
      BY <1>1, <2>2, <3>2
  <2>3. QED
    BY <2>1, <2>2
<1>3. f = [t \in DOMAIN f |-> f[t]] /\ DOMAIN f = DOMAIN d.schema \cup Created(r)
  BY <1>1
<1> HIDE DEF f
<1>4. IsSchema(f)
  BY <1>2, <1>3 DEF IsSchema
<1>5. QED
  BY <1>4 DEF f

-----------------------------------------------------------------------------
(* Upgrading an empty database                                             *)

Empty == [schema |-> <<>>, types |-> {}]

Fresh(k) == Upgrading(Empty, 0, k)

LEMMA FreshSteps ==
  /\ Fresh(0) = Done(Empty)
  /\ \A k \in 1..8 : Fresh(k) = UpStep(Empty, k, Fresh(k - 1))
<1>1. 0 \in 0..8 /\ 0 + 1 = 1
  OBVIOUS
<1>2. QED
  BY <1>1, UpgradingSteps DEF Fresh

LEMMA FreshIsSchema == \A k \in 0..8 : Fresh(k).ok => IsSchema(Fresh(k).db.schema)
<1> DEFINE S == {k \in 0..8 : Fresh(k).ok => IsSchema(Fresh(k).db.schema)}
<1>1. 0 \in S
  BY FreshSteps DEF Done, Empty, IsSchema
<1>2. ASSUME NEW n \in 0..7, n \in S PROVE n + 1 \in S
  <2>1. n + 1 \in 1..8 /\ (n + 1) - 1 = n
    OBVIOUS
  <2>2. Fresh(n + 1) = UpStep(Empty, n + 1, Fresh(n))
    BY <2>1, FreshSteps
  <2>3. SUFFICES ASSUME Fresh(n + 1).ok PROVE IsSchema(Fresh(n + 1).db.schema)
    BY <2>1
  <2>4. /\ Fresh(n).ok
        /\ Fresh(n + 1) = Done(Upgraded(Chain[n + 1], Fresh(n).db))
    BY <2>2, <2>3 DEF UpStep, Failed
  <2>5. IsSchema(Fresh(n).db.schema)
    BY <1>2, <2>4
  <2>6. IsSchema(Upgraded(Chain[n + 1], Fresh(n).db).schema)
    BY <2>1, <2>5, AllCreateTables, UpgradedIsSchema
  <2>7. QED
    BY <2>4, <2>6 DEF Done
<1> HIDE DEF S
<1>3. \A k \in 0..8 : k \in S
  BY <1>1, <1>2, UpTo
<1>4. QED
  BY <1>3 DEF S

\* A database with the tables of revision k, and at least its types.
Agrees(k, d) ==
  /\ Fresh(k).ok
  /\ d.schema = Fresh(k).db.schema
  /\ Fresh(k).db.types \subseteq d.types

LEMMA UpgradeAgrees ==
  ASSUME NEW d, NEW k \in 1..8, Agrees(k - 1, d), CanUpgrade(Chain[k], d)
  PROVE  Agrees(k, Upgraded(Chain[k], d))
<1> DEFINE f == Fresh(k - 1).db
<1>1. CanUpgrade(Chain[k], f)
  BY DEF Agrees, CanUpgrade
<1>2. Fresh(k) = Done(Upgraded(Chain[k], f))
  BY <1>1, FreshSteps DEF Agrees, UpStep
<1>3. Upgraded(Chain[k], d).schema = Upgraded(Chain[k], f).schema
  BY DEF Agrees, Upgraded
<1>4. Upgraded(Chain[k], f).types \subseteq Upgraded(Chain[k], d).types
  BY DEF Agrees, Upgraded
<1>5. QED
  BY <1>2, <1>3, <1>4 DEF Agrees, Done

\* The definition of "users" is the third of the first revision's tables.
LEMMA UsersAtFirst ==
  ASSUME Fresh(1).ok
  PROVE  Fresh(1).db.schema["users"] = InitOwners[3][2]
<1>1. Fresh(1) = Done(Upgraded(Chain[1], Empty))
  BY FreshSteps DEF UpStep, Failed, Done
<1>2. Created(Chain[1]) = {InitTables[k][1] : k \in DOMAIN InitTables}
  BY ChainIs, InitIs DEF Created
<1>3. "users" \in Created(Chain[1])
  BY <1>2, InitCreated
<1>4. Fresh(1).db.schema["users"] = Definition(Chain[1], "users")
  BY <1>1, <1>3 DEF Done, Upgraded
<1>5. PICK k \in 1..12 :
        InitTables[k][1] = "users" /\ Definition(Chain[1], "users") = InitTables[k][2]
  BY <1>3, DefinitionIsCreated, ChainIs, InitIs, InitTablesAre
<1>6. k = 3
  BY <1>5, InitTablesAre, OwnersAre, DetailsAre
<1>7. QED
  BY <1>4, <1>5, <1>6, InitTablesAre

LEMMA NoChangeKeeps ==
  ASSUME NEW d, IsSchema(d.schema)
  PROVE  Upgraded(NoChange, d).schema = d.schema
<1>1. Created(NoChange) = {}
  BY NoChangeIs DEF Created
<1>2. \A t \in DOMAIN d.schema : WithAdded(WithRemoved(d.schema[t], t, {}), t, {}) = d.schema[t]
  BY TableChanges DEF IsSchema
<1>3. Upgraded(NoChange, d).schema = [t \in DOMAIN d.schema |-> d.schema[t]]
  BY <1>1, <1>2, NoChangeIs DEF Upgraded
<1>4. QED
  BY <1>3 DEF IsSchema

LEMMA UsersAtSecond ==
  ASSUME Fresh(2).ok
  PROVE  /\ Fresh(1).ok /\ Fresh(2).db.schema = Fresh(1).db.schema
         /\ "subscription_tier" \in Fresh(2).db.schema["users"].required
<1>1. Fresh(1).ok /\ Fresh(2) = Done(Upgraded(Chain[2], Fresh(1).db))
  BY FreshSteps DEF UpStep, Failed, Done
<1>2. Fresh(2).db.schema = Fresh(1).db.schema
  BY <1>1, ChainIs, FreshIsSchema, NoChangeKeeps DEF Done
<1>3. "subscription_tier" \in InitOwners[3][2].required
  BY DEF InitOwners, Entity
<1>4. QED
  BY <1>1, <1>2, <1>3, UsersAtFirst

LEMMA TierColumns ==
  \A t : /\ ColumnsOf({TierColumn}, t) \subseteq {"subscription_tier"}
         /\ t # "users" => ColumnsOf({TierColumn}, t) = {}
<1>1. TierColumn.table = "users" /\ TierColumn.column = "subscription_tier"
  BY DEF TierColumn
<1>2. QED
  BY <1>1 DEF ColumnsOf

\* What a revision takes out of a table was there.
LEMMA RemovesWhatIsThere ==
  ASSUME NEW k \in 1..8, Fresh(k - 1).ok, NEW t \in DOMAIN Fresh(k - 1).db.schema
  PROVE  ColumnsOf(Chain[k].removes, t) \subseteq Fresh(k - 1).db.schema[t].required
<1>1. CASE k = 3
  <2>1. k - 1 = 2 /\ Chain[k].removes = {TierColumn}
    BY <1>1, ChainIs, AddCategoriesIs
  <2>2. CASE t = "users"
    BY <2>1, <2>2, TierColumns, UsersAtSecond
  <2>3. CASE t # "users"
    BY <2>1, <2>3, TierColumns
  <2>4. QED
    BY <2>2, <2>3
<1>2. CASE k # 3
  <2>1. Chain[k].removes = {}
    BY <1>2, ChainIs, InitIs, NoChangeIs, AddParentIs, AddUnitsIs
  <2>2. ColumnsOf({}, t) = {}
    BY DEF ColumnsOf
  <2>3. QED
    BY <2>1, <2>2
<1>3. QED
  BY <1>1, <1>2

\* A revision that can be undone adds no column, puts back what it takes out
\* and drops what it creates.
LEMMA UndoneWhole ==
  ASSUME NEW k \in 1..8, ConstraintsNamed(Chain[k])
  PROVE  /\ Chain[k].adds = {} /\ Chain[k].restores = Chain[k].removes
         /\ Dropped(Chain[k]) = Created(Chain[k])
<1>1. k # 6
  BY ChainIs, AddParentIs DEF ConstraintsNamed
<1>2. Dropped(NoChange) = Created(NoChange)
  BY NoChangeIs DEF Dropped, Created
<1>3. CASE k = 1
  BY <1>3, DropsWhatItCreates, ChainIs, InitIs
<1>4. CASE k = 3
  BY <1>4, DropsWhatItCreates, ChainIs, AddCategoriesIs
<1>5. CASE k = 8
  BY <1>5, DropsWhatItCreates, ChainIs, AddUnitsIs
<1>6. CASE k \notin {1, 3, 6, 8}
  <2>1. Chain[k] = NoChange
    BY <1>6, ChainIs
  <2>2. QED
    BY <1>2, <2>1, NoChangeIs
<1>7. QED
  BY <1>1, <1>3, <1>4, <1>5, <1>6

LEMMA DowngradeAgrees ==
  ASSUME NEW d, NEW k \in 1..8, Agrees(k, d), NEW populated,
         CanDowngrade(Chain[k], d, populated)
  PROVE  Agrees(k - 1, Downgraded(Chain[k], d))
<1> DEFINE f == Fresh(k - 1).db
           r == Chain[k]
<1>1. Fresh(k - 1).ok /\ CanUpgrade(r, f) /\ Fresh(k) = Done(Upgraded(r, f))
  BY FreshSteps DEF Agrees, UpStep, Failed, Done
<1>2. IsSchema(f.schema)
  BY <1>1, FreshIsSchema
<1>3. /\ r.adds = {} /\ r.restores = r.removes /\ Dropped(r) = Created(r)
  BY UndoneWhole DEF CanDowngrade
<1>4. Created(r) \cap DOMAIN f.schema = {}
  BY <1>1 DEF CanUpgrade
<1>5. d.schema = Upgraded(r, f).schema /\ f.types \subseteq d.types
  BY <1>1 DEF Agrees, Done, Upgraded
<1> HIDE DEF f, r
<1>6. \A t \in DOMAIN f.schema :
        WithRestored(WithAdded(WithRemoved(f.schema[t], t, r.removes), t, {}), t, r.removes)
          = f.schema[t]
  <2> TAKE t \in DOMAIN f.schema
  <2>1. IsTable(f.schema[t]) /\ IsTable(WithRemoved(f.schema[t], t, r.removes))
    BY <1>2, TableChanges DEF IsSchema
  <2>2. ColumnsOf(r.removes, t) \subseteq f.schema[t].required
    BY <1>1, RemovesWhatIsThere DEF f, r
  <2>3. QED
    BY <2>1, <2>2, TableChanges
<1> DEFINE left == Drop(d.schema, Dropped(r))
<1>7. left = [t \in DOMAIN f.schema |-> WithAdded(WithRemoved(f.schema[t], t, r.removes), t, {})]
  BY <1>3, <1>4, <1>5 DEF Drop, Upgraded
<1>8. [t \in DOMAIN left |-> WithRestored(left[t], t, r.restores)]
        = [t \in DOMAIN f.schema |-> f.schema[t]]
  BY <1>3, <1>6, <1>7
<1>9. Downgraded(r, d).schema = f.schema /\ Downgraded(r, d).types = d.types
  BY <1>2, <1>8 DEF Downgraded, IsSchema
<1>10. QED
  BY <1>1, <1>5, <1>9 DEF Agrees, f, r

-----------------------------------------------------------------------------
(* A whole command                                                         *)

LEMMA UpgradingAgrees ==
  ASSUME NEW d, NEW from \in 0..8, NEW to \in from..8, Agrees(from, d),
         Upgrading(d, from, to).ok
  PROVE  /\ Agrees(to, Upgrading(d, from, to).db)
         /\ d.types \subseteq Upgrading(d, from, to).db.types
         /\ from < 8 /\ to = 8 => "unit_type" \notin d.types
<1> DEFINE Result(n) == Upgrading(d, from, n)
           S == {n \in 0..8 : Result(n).ok =>
                   /\ Agrees(n, Result(n).db)
                   /\ d.types \subseteq Result(n).db.types
                   /\ from < 8 /\ n = 8 => "unit_type" \notin d.types}
<1>1. from \in S
  BY UpgradingSteps DEF Done
<1>2. ASSUME NEW n \in from..7, n \in S PROVE n + 1 \in S
  <2>1. n + 1 \in (from + 1)..8 /\ (n + 1) - 1 = n /\ n + 1 \in 1..8
    OBVIOUS
  <2>2. Result(n + 1) = UpStep(d, n + 1, Result(n))
    BY <2>1, UpgradingSteps
  <2> HIDE DEF Result
  <2>3. SUFFICES ASSUME Result(n + 1).ok
                 PROVE  /\ Agrees(n + 1, Result(n + 1).db)
                        /\ d.types \subseteq Result(n + 1).db.types
                        /\ from < 8 /\ n + 1 = 8 => "unit_type" \notin d.types
    BY <2>1
  <2> DEFINE e == Result(n).db
  <2>4. /\ Result(n).ok /\ CanUpgrade(Chain[n + 1], e)
        /\ Result(n + 1).db = Upgraded(Chain[n + 1], e)
    BY <2>2, <2>3 DEF UpStep, Failed, Done
  <2>5. Agrees(n, e) /\ d.types \subseteq e.types
    BY <1>2, <2>4
  <2>6. Agrees(n + 1, Upgraded(Chain[n + 1], e))
    BY <2>1, <2>4, <2>5, UpgradeAgrees
  <2>7. d.types \subseteq Upgraded(Chain[n + 1], e).types
    BY <2>5 DEF Upgraded
  <2>8. n + 1 = 8 => "unit_type" \notin e.types
    BY <2>4, ChainIs, AddUnitsIs DEF CanUpgrade
  <2>9. QED
    BY <2>4, <2>5, <2>6, <2>7, <2>8
<1> HIDE DEF S
<1>3. to \in S
  BY <1>1, <1>2, UpTo
<1>4. QED
  BY <1>3 DEF S

LEMMA DowngradingAgrees ==
  ASSUME NEW d, NEW from \in 0..8, NEW to \in 0..from, Agrees(from, d), NEW populated,
         Downgrading(d, from, to, populated).ok
  PROVE  /\ Agrees(to, Downgrading(d, from, to, populated).db)
         /\ Downgrading(d, from, to, populated).db.types = d.types
         /\ from >= 3 /\ "users" \in populated => to >= 3
<1> DEFINE Result(n) == Downgrading(d, from, n, populated)
           S == {n \in 0..8 : Result(n).ok =>
                   /\ Agrees(n, Result(n).db)
                   /\ Result(n).db.types = d.types
                   /\ from >= 3 /\ "users" \in populated => n >= 3}
<1>1. from \in S
  BY DowngradingSteps DEF Done
<1>2. ASSUME NEW n \in 1..from, n \in S PROVE n - 1 \in S
  <2>1. n - 1 \in 0..(from - 1) /\ (n - 1) + 1 = n /\ n \in 1..8 /\ n - 1 \in 0..8
    OBVIOUS
  <2>2. Result(n - 1) = DownStep(d, n - 1, Result(n), populated)
    BY <2>1, DowngradingSteps
  <2> HIDE DEF Result
  <2>3. SUFFICES ASSUME Result(n - 1).ok
                 PROVE  /\ Agrees(n - 1, Result(n - 1).db)
                        /\ Result(n - 1).db.types = d.types
                        /\ from >= 3 /\ "users" \in populated => n - 1 >= 3
    BY <2>1
  <2> DEFINE e == Result(n).db
  <2>4. /\ Result(n).ok /\ CanDowngrade(Chain[n], e, populated)
        /\ Result(n - 1).db = Downgraded(Chain[n], e)
    BY <2>1, <2>2, <2>3 DEF DownStep, Failed, Done
  <2>5. Agrees(n, e) /\ e.types = d.types /\ (from >= 3 /\ "users" \in populated => n >= 3)
    BY <1>2, <2>4
  <2>6. Agrees(n - 1, Downgraded(Chain[n], e))
    BY <2>1, <2>4, <2>5, DowngradeAgrees
  <2>7. Downgraded(Chain[n], e).types = e.types
    BY DEF Downgraded
  <2>8. n = 3 => "users" \notin populated
    <3>1. TierColumn.table = "users"
      BY DEF TierColumn
    <3>2. QED
      BY <2>4, <3>1, ChainIs, AddCategoriesIs DEF CanDowngrade, Restorable
  <2>9. QED
    BY <2>4, <2>5, <2>6, <2>7, <2>8
<1> HIDE DEF S
<1>3. \A n \in 0..from : n \in S
  BY <1>1, <1>2, DownTo
<1>4. QED
  BY <1>3 DEF S

-----------------------------------------------------------------------------
(* The tables of a revision                                                *)

LEMMA CreatedAre ==
  /\ Created(Chain[1]) =
       {"shopping_list_items", "recipe_ingredients", "expiry_tracking", "user_equipment",
        "subscriptions", "shopping_lists", "recipes", "inventory_items", "ai_scan_logs",
        "users", "equipment", "cuisine_categories"}
  /\ Created(Chain[3]) =
       {"recipe_categories", "inventory_item_categories", "revoked_tokens",
        "password_reset_tokens", "email_verification_tokens", "categories"}
  /\ Created(Chain[8]) = {"category_units", "units"}
  /\ \A k \in {2, 4, 5, 6, 7} : Created(Chain[k]) = {}
<1>1. Created(Chain[1]) = {InitTables[k][1] : k \in DOMAIN InitTables}
  BY ChainIs, InitIs DEF Created
<1>2. {CategoryTables[k][1] : k \in DOMAIN CategoryTables} =
        {"recipe_categories", "inventory_item_categories", "revoked_tokens",
         "password_reset_tokens", "email_verification_tokens", "categories"}
  BY DEF CategoryTables
<1>3. {UnitTables[k][1] : k \in DOMAIN UnitTables} = {"category_units", "units"}
  BY DEF UnitTables
<1>4. Created(Chain[3]) = {CategoryTables[k][1] : k \in DOMAIN CategoryTables}
  BY ChainIs, AddCategoriesIs DEF Created
<1>5. Created(Chain[8]) = {UnitTables[k][1] : k \in DOMAIN UnitTables}
  BY ChainIs, AddUnitsIs DEF Created
<1>6. \A k \in {2, 4, 5, 6, 7} : Created(Chain[k]) = {}
  BY ChainIs, AddParentIs, NoChangeIs DEF Created
<1>7. QED
  BY <1>1, <1>2, <1>3, <1>4, <1>5, <1>6, InitCreated

LEMMA FreshTables ==
  ASSUME NEW k \in 1..8, Fresh(k).ok
  PROVE  /\ Fresh(k - 1).ok /\ Fresh(k).db = Upgraded(Chain[k], Fresh(k - 1).db)
         /\ DOMAIN Fresh(k).db.schema = DOMAIN Fresh(k - 1).db.schema \cup Created(Chain[k])
<1>1. /\ Fresh(k - 1).ok /\ Fresh(k).db = Upgraded(Chain[k], Fresh(k - 1).db)
  BY FreshSteps DEF UpStep, Failed, Done
<1>2. QED
  BY <1>1 DEF Upgraded

LEMMA TablesAt ==
  ASSUME NEW k \in 0..8, Fresh(k).ok
  PROVE  LET tables == DOMAIN Fresh(k).db.schema
         IN  /\ "users" \in tables <=> k >= 1
             /\ "categories" \in tables <=> k >= 3
             /\ "units" \in tables <=> k = 8
             /\ "category_units" \in tables <=> k = 8
             /\ "ai_usage_logs" \notin tables
<1> DEFINE Here(n, t) == t \in DOMAIN Fresh(n).db.schema
           At(n) == /\ Here(n, "users") <=> n >= 1
                    /\ Here(n, "categories") <=> n >= 3
                    /\ Here(n, "units") <=> n = 8
                    /\ Here(n, "category_units") <=> n = 8
                    /\ ~Here(n, "ai_usage_logs")
           S == {n \in 0..8 : Fresh(n).ok => At(n)}
<1>1. 0 \in S
  BY FreshSteps DEF Done, Empty
<1>2. ASSUME NEW n \in 0..7, n \in S PROVE n + 1 \in S
  <2>1. n + 1 \in 1..8 /\ (n + 1) - 1 = n
    OBVIOUS
  <2>2. SUFFICES ASSUME Fresh(n + 1).ok PROVE At(n + 1)
    BY <2>1
  <2>3. Fresh(n).ok /\ \A t : Here(n + 1, t) <=> Here(n, t) \/ t \in Created(Chain[n + 1])
    BY <2>1, <2>2, FreshTables
  <2>4. At(n)
    BY <1>2, <2>3
  <2> HIDE DEF Here
  <2>5. CASE n + 1 = 1
    BY <2>3, <2>4, <2>5, CreatedAre
  <2>6. CASE n + 1 = 3
    BY <2>3, <2>4, <2>6, CreatedAre
  <2>7. CASE n + 1 = 8
    BY <2>3, <2>4, <2>7, CreatedAre
  <2>8. CASE n + 1 \in {2, 4, 5, 6, 7}
    BY <2>3, <2>4, <2>8, CreatedAre
  <2>9. QED
    BY <2>5, <2>6, <2>7, <2>8
<1> HIDE DEF S
<1>3. \A n \in 0..8 : n \in S
  BY <1>1, <1>2, UpTo
<1>4. At(k)
  BY <1>3 DEF S
<1>5. QED
  BY <1>4

\* Until the third revision an account has a tier the models do not know.
LEMMA TierAtFirst ==
  ASSUME NEW k \in {1, 2}, Fresh(k).ok
  PROVE  ~(Fresh(k).db.schema["users"].required \subseteq UserModels["users"].required)
<1>1. "subscription_tier" \in Fresh(k).db.schema["users"].required
  <2>1. "subscription_tier" \in InitOwners[3][2].required
    BY DEF InitOwners, Entity
  <2>2. QED
    BY <2>1, UsersAtFirst, UsersAtSecond
<1>2. "subscription_tier" \notin UserModels["users"].required
  BY DEF UserModels, Entity, Timestamps
<1>3. QED
  BY <1>1, <1>2

-----------------------------------------------------------------------------
(* The tables at the head                                                  *)

LEMMA FreshBelow ==
  ASSUME NEW k \in 0..8, Fresh(k).ok
  PROVE  \A n \in 0..k : Fresh(n).ok
<1> DEFINE S == {n \in 0..k : Fresh(n).ok}
<1>1. k \in S
  OBVIOUS
<1>2. ASSUME NEW n \in 1..k, n \in S PROVE n - 1 \in S
  BY <1>2, FreshTables
<1> HIDE DEF S
<1>3. \A n \in 0..k : n \in S
  BY <1>1, <1>2, DownTo
<1>4. QED
  BY <1>3 DEF S

\* What the k-th revision does to one table.
LEMMA FreshTable ==
  ASSUME NEW k \in 1..8, Fresh(k).ok, NEW t
  PROVE  /\ t \in Created(Chain[k]) =>
              /\ t \in DOMAIN Fresh(k).db.schema
              /\ Fresh(k).db.schema[t] = Definition(Chain[k], t)
         /\ t \in DOMAIN Fresh(k - 1).db.schema =>
              /\ t \in DOMAIN Fresh(k).db.schema
              /\ Fresh(k).db.schema[t] =
                   WithAdded(WithRemoved(Fresh(k - 1).db.schema[t], t, Chain[k].removes),
                             t, Chain[k].adds)
<1>1. /\ CanUpgrade(Chain[k], Fresh(k - 1).db)
      /\ Fresh(k).db = Upgraded(Chain[k], Fresh(k - 1).db)
  BY FreshSteps DEF UpStep, Failed, Done
<1>2. Created(Chain[k]) \cap DOMAIN Fresh(k - 1).db.schema = {}
  BY <1>1 DEF CanUpgrade
<1>3. QED
  BY <1>1, <1>2 DEF Upgraded

\* No revision from one to the other changes a column of the table.
LeavesTable(k, t) ==
  /\ ColumnsOf(Chain[k].removes, t) = {}
  /\ ColumnsOf(Chain[k].adds, t) = {} /\ RefsOf(Chain[k].adds, t) = {}

LEMMA TableKept ==
  ASSUME NEW from \in 0..8, NEW to \in from..8, Fresh(to).ok,
         NEW t \in DOMAIN Fresh(from).db.schema,
         \A k \in (from + 1)..to : LeavesTable(k, t)
  PROVE  t \in DOMAIN Fresh(to).db.schema /\ Fresh(to).db.schema[t] = Fresh(from).db.schema[t]
<1> DEFINE Here(n) == /\ t \in DOMAIN Fresh(n).db.schema
                      /\ Fresh(n).db.schema[t] = Fresh(from).db.schema[t]
           S == {n \in 0..8 : n <= to => Here(n)}
<1>1. from \in S
  OBVIOUS
<1>2. ASSUME NEW n \in from..7, n \in S PROVE n + 1 \in S
  <2>1. n + 1 \in (from + 1)..8 /\ (n + 1) - 1 = n /\ n + 1 \in 1..8 /\ n \in 0..8
    OBVIOUS
  <2>2. SUFFICES ASSUME n + 1 <= to PROVE Here(n + 1)
    BY <2>1
  <2>3. Fresh(n + 1).ok /\ Fresh(n).ok /\ LeavesTable(n + 1, t) /\ Here(n)
    <3>1. n + 1 \in 0..to /\ n \in 0..to /\ n + 1 \in (from + 1)..to
      BY <2>1, <2>2
    <3>2. QED
      BY <1>2, <3>1, FreshBelow
  <2>4. IsTable(Fresh(n).db.schema[t])
    BY <2>1, <2>3, FreshIsSchema DEF IsSchema
  <2>5. WithAdded(WithRemoved(Fresh(n).db.schema[t], t, Chain[n + 1].removes),
                  t, Chain[n + 1].adds) = Fresh(n).db.schema[t]
    BY <2>3, <2>4, TableChanges DEF LeavesTable
  <2>6. QED
    BY <2>1, <2>3, <2>5, FreshTable
<1> HIDE DEF S
<1>3. to \in S
  BY <1>1, <1>2, UpTo
<1>4. QED
  BY <1>3 DEF S

LEMMA ChangedTables ==
  ASSUME NEW k \in 1..8, NEW t
  PROVE  /\ t # "users" \/ k # 3 => ColumnsOf(Chain[k].removes, t) = {}
         /\ t # "categories" \/ k # 6 =>
              ColumnsOf(Chain[k].adds, t) = {} /\ RefsOf(Chain[k].adds, t) = {}
<1>1. ColumnsOf({}, t) = {} /\ RefsOf({}, t) = {}
  BY DEF ColumnsOf, RefsOf
<1>2. k # 3 => Chain[k].removes = {}
  BY ChainIs, InitIs, NoChangeIs, AddParentIs, AddUnitsIs
<1>3. k # 6 => Chain[k].adds = {}
  BY ChainIs, InitIs, NoChangeIs, AddCategoriesIs, AddUnitsIs
<1>4. k = 3 => Chain[k].removes = {TierColumn}
  BY ChainIs, AddCategoriesIs
<1>5. k = 6 => Chain[k].adds = {ParentColumn}
  BY ChainIs, AddParentIs
<1>6. t # "categories" => ColumnsOf({ParentColumn}, t) = {} /\ RefsOf({ParentColumn}, t) = {}
  <2>1. ParentColumn.table = "categories"
    BY DEF ParentColumn
  <2>2. QED
    BY <2>1 DEF ColumnsOf, RefsOf
<1>7. QED
  BY <1>1, <1>2, <1>3, <1>4, <1>5, <1>6, TierColumns

\* A table no revision changes is at the head as it was created.
LEMMA CreatedForGood ==
  ASSUME Fresh(8).ok, NEW k \in 1..8, NEW t \in Created(Chain[k]), t \notin {"users", "categories"}
  PROVE  t \in DOMAIN Fresh(8).db.schema /\ Fresh(8).db.schema[t] = Definition(Chain[k], t)
<1>1. Fresh(k).ok
  BY FreshBelow
<1>2. t \in DOMAIN Fresh(k).db.schema /\ Fresh(k).db.schema[t] = Definition(Chain[k], t)
  BY <1>1, FreshTable
<1>3. \A n \in (k + 1)..8 : LeavesTable(n, t)
  BY ChangedTables DEF LeavesTable
<1>4. QED
  BY <1>2, <1>3, TableKept

LEMMA DefinitionByName ==
  ASSUME NEW r, NEW k \in DOMAIN r.creates,
         \A j \in DOMAIN r.creates : r.creates[j][1] = r.creates[k][1] => j = k
  PROVE  r.creates[k][1] \in Created(r) /\ Definition(r, r.creates[k][1]) = r.creates[k][2]
<1>1. r.creates[k][1] \in Created(r)
  BY DEF Created
<1>2. QED
  BY <1>1, DefinitionIsCreated

LEMMA InitNames ==
  /\ \A j, k \in 1..12 : InitTables[j][1] = InitTables[k][1] => j = k
  /\ InitTables[1][1] = "cuisine_categories" /\ InitTables[2][1] = "equipment"
  /\ InitTables[3][1] = "users" /\ InitTables[4][1] = "ai_scan_logs"
  /\ InitTables[5][1] = "inventory_items" /\ InitTables[6][1] = "recipes"
  /\ InitTables[7][1] = "shopping_lists" /\ InitTables[8][1] = "subscriptions"
  /\ InitTables[9][1] = "user_equipment" /\ InitTables[10][1] = "expiry_tracking"
  /\ InitTables[11][1] = "recipe_ingredients" /\ InitTables[12][1] = "shopping_list_items"
BY InitTablesAre, OwnersAre, DetailsAre

LEMMA InitAtHead ==
  ASSUME Fresh(8).ok, NEW k \in 1..12, k # 3
  PROVE  LET t == InitTables[k][1]
         IN  t \in DOMAIN Fresh(8).db.schema /\ Fresh(8).db.schema[t] = InitTables[k][2]
<1> DEFINE t == InitTables[k][1]
<1>1. Chain[1].creates = InitTables /\ k \in DOMAIN InitTables
  BY ChainIs, InitIs, InitTablesAre
<1>2. t \in Created(Chain[1]) /\ Definition(Chain[1], t) = InitTables[k][2]
  <2>1. \A j \in DOMAIN InitTables : InitTables[j][1] = InitTables[k][1] => j = k
    BY InitNames, InitTablesAre
  <2>2. QED
    BY <1>1, <2>1, DefinitionByName
<1>3. t \notin {"users", "categories"}
  <2>1. t # "users"
    BY InitNames
  <2>2. "categories" \notin Created(Chain[1])
    BY CreatedAre
  <2>3. QED
    BY <1>2, <2>1, <2>2
<1>4. QED
  BY <1>2, <1>3, CreatedForGood

LEMMA CategoryNames ==
  /\ DOMAIN CategoryTables = 1..6
  /\ CategoryTables[1][1] = "categories"
  /\ CategoryTables[2][1] = "email_verification_tokens"
  /\ CategoryTables[3][1] = "password_reset_tokens" /\ CategoryTables[4][1] = "revoked_tokens"
  /\ CategoryTables[5][1] = "inventory_item_categories"
  /\ CategoryTables[6][1] = "recipe_categories"
BY DEF CategoryTables

LEMMA CategoryDefinitions ==
  ASSUME NEW k \in 1..6
  PROVE  LET t == CategoryTables[k][1]
         IN  t \in Created(Chain[3]) /\ Definition(Chain[3], t) = CategoryTables[k][2]
<1>1. Chain[3].creates = CategoryTables
  BY ChainIs, AddCategoriesIs
<1>2. \A j \in 1..6 : CategoryTables[j][1] = CategoryTables[k][1] => j = k
  BY CategoryNames
<1>3. QED
  BY <1>1, <1>2, CategoryNames, DefinitionByName

LEMMA CategoriesAtHead ==
  ASSUME Fresh(8).ok, NEW k \in 2..6
  PROVE  LET t == CategoryTables[k][1]
         IN  t \in DOMAIN Fresh(8).db.schema /\ Fresh(8).db.schema[t] = CategoryTables[k][2]
<1> DEFINE t == CategoryTables[k][1]
<1>1. t \notin {"users", "categories"}
  BY CategoryNames
<1>2. t \in Created(Chain[3]) /\ Definition(Chain[3], t) = CategoryTables[k][2]
  BY CategoryDefinitions
<1>3. QED
  BY <1>1, <1>2, CreatedForGood

LEMMA UnitsAtHead ==
  ASSUME Fresh(8).ok, NEW k \in 1..2
  PROVE  LET t == UnitTables[k][1]
         IN  /\ t \in DOMAIN Fresh(8).db.schema
             /\ Fresh(8).db.schema[t] = UnitTables[k][2]
<1> DEFINE t == UnitTables[k][1]
<1>1. DOMAIN UnitTables = 1..2 /\ UnitTables[1][1] = "units" /\ UnitTables[2][1] = "category_units"
  BY DEF UnitTables
<1>2. Chain[8].creates = UnitTables
  BY ChainIs, AddUnitsIs
<1>3. \A j \in 1..2 : UnitTables[j][1] = UnitTables[k][1] => j = k
  BY <1>1
<1>4. t \in Created(Chain[8]) /\ Definition(Chain[8], t) = UnitTables[k][2]
  BY <1>1, <1>2, <1>3, DefinitionByName
<1>5. t \notin {"users", "categories"}
  BY <1>1
<1>6. QED
  BY <1>4, <1>5, CreatedForGood

\* The two tables a later revision changes.
LEMMA UsersAtHead ==
  ASSUME Fresh(8).ok
  PROVE  /\ "users" \in DOMAIN Fresh(8).db.schema
         /\ Fresh(8).db.schema["users"] = WithRemoved(InitOwners[3][2], "users", {TierColumn})
<1>1. Fresh(1).ok /\ Fresh(2).ok /\ Fresh(3).ok
  BY FreshBelow
<1>2. /\ "users" \in DOMAIN Fresh(2).db.schema
      /\ Fresh(2).db.schema["users"] = InitOwners[3][2]
  BY <1>1, UsersAtFirst, UsersAtSecond, TablesAt
<1>3. Chain[3].adds = {} /\ Chain[3].removes = {TierColumn}
  BY ChainIs, AddCategoriesIs
<1> DEFINE now == WithRemoved(InitOwners[3][2], "users", {TierColumn})
<1>4. /\ "users" \in DOMAIN Fresh(3).db.schema
      /\ Fresh(3).db.schema["users"] = WithAdded(now, "users", {})
  <2>1. 3 \in 1..8 /\ 3 - 1 = 2
    OBVIOUS
  <2>2. "users" \in DOMAIN Fresh(3 - 1).db.schema =>
          /\ "users" \in DOMAIN Fresh(3).db.schema
          /\ Fresh(3).db.schema["users"] =
               WithAdded(WithRemoved(Fresh(3 - 1).db.schema["users"], "users", Chain[3].removes),
                         "users", Chain[3].adds)
    BY <1>1, <2>1, FreshTable
  <2>3. QED
    BY <1>2, <1>3, <2>1, <2>2
<1>5. WithAdded(now, "users", {}) = now
  <2>1. IsTable(InitOwners[3][2])
    BY EntityIsTable DEF InitOwners
  <2>2. QED
    BY <2>1, TableChanges
<1>6. \A k \in 4..8 : LeavesTable(k, "users")
  BY ChangedTables DEF LeavesTable
<1>7. QED
  BY <1>4, <1>5, <1>6, TableKept

LEMMA CategoryTableAtHead ==
  ASSUME Fresh(8).ok
  PROVE  /\ "categories" \in DOMAIN Fresh(8).db.schema
         /\ Fresh(8).db.schema["categories"] =
              WithAdded(CategoryTables[1][2], "categories", {ParentColumn})
<1>1. Fresh(3).ok /\ Fresh(5).ok /\ Fresh(6).ok
  BY FreshBelow
<1>2. /\ "categories" \in DOMAIN Fresh(3).db.schema
      /\ Fresh(3).db.schema["categories"] = CategoryTables[1][2]
  BY <1>1, CategoryDefinitions, CategoryNames, FreshTable
<1>3. \A k \in 4..5 : LeavesTable(k, "categories")
  BY ChangedTables DEF LeavesTable
<1>4. /\ "categories" \in DOMAIN Fresh(5).db.schema
      /\ Fresh(5).db.schema["categories"] = CategoryTables[1][2]
  BY <1>1, <1>2, <1>3, TableKept
<1>5. Chain[6].removes = {} /\ Chain[6].adds = {ParentColumn}
  BY ChainIs, AddParentIs
<1>6. WithRemoved(CategoryTables[1][2], "categories", {}) = CategoryTables[1][2]
  <2>1. IsTable(CategoryTables[1][2])
    BY EntityIsTable DEF CategoryTables
  <2>2. QED
    BY <2>1, TableChanges
<1>7. /\ "categories" \in DOMAIN Fresh(6).db.schema
      /\ Fresh(6).db.schema["categories"] =
           WithAdded(CategoryTables[1][2], "categories", {ParentColumn})
  <2>1. 6 \in 1..8 /\ 6 - 1 = 5
    OBVIOUS
  <2>2. "categories" \in DOMAIN Fresh(6 - 1).db.schema =>
          /\ "categories" \in DOMAIN Fresh(6).db.schema
          /\ Fresh(6).db.schema["categories"] =
               WithAdded(WithRemoved(Fresh(6 - 1).db.schema["categories"], "categories",
                                     Chain[6].removes), "categories", Chain[6].adds)
    BY <1>1, <2>1, FreshTable
  <2>3. QED
    BY <1>4, <1>5, <1>6, <2>1, <2>2
<1>8. \A k \in 7..8 : LeavesTable(k, "categories")
  BY ChangedTables DEF LeavesTable
<1>9. QED
  BY <1>7, <1>8, TableKept

LEMMA OneColumn ==
  ASSUME NEW c
  PROVE  ColumnsOf({c}, c.table) = {c.column} /\ RefsOf({c}, c.table) = c.refs
<1>1. {x \in {c} : x.table = c.table} = {c}
  OBVIOUS
<1>2. QED
  BY <1>1 DEF ColumnsOf, RefsOf

\* What a model maps is what the revisions leave.
Mapped(models, t) ==
  t \in DOMAIN Fresh(8).db.schema /\ Fresh(8).db.schema[t] = models[t]

LEMMA UserModelsMapped ==
  ASSUME Fresh(8).ok
  PROVE  \A t \in DOMAIN UserModels : Mapped(UserModels, t)
<1>1. DOMAIN UserModels = {"users", "user_equipment"}
  BY DEF UserModels
<1>2. WithRemoved(InitOwners[3][2], "users", {TierColumn}) = UserModels["users"]
  <2> DEFINE keep == {"id", "email", "hashed_password", "role", "is_active", "is_verified",
                      "created_at", "updated_at"}
             optional == {"full_name"}
             unique == {{"id"}} \cup {{k} : k \in {"email"}}
  <2>1. InitOwners[3][2] =
          [required |-> keep \cup {"subscription_tier"}, optional |-> optional,
           unique |-> unique, refs |-> {}]
    BY DEF InitOwners, Entity, Timestamps
  <2>2. UserModels["users"] =
          [required |-> keep, optional |-> optional, unique |-> unique, refs |-> {}]
    BY DEF UserModels, Entity, Timestamps
  <2>3. (keep \cup {"subscription_tier"}) \ {"subscription_tier"} = keep
    OBVIOUS
  <2>4. ColumnsOf({TierColumn}, "users") = {"subscription_tier"}
    <3>1. TierColumn.table = "users" /\ TierColumn.column = "subscription_tier"
      BY DEF TierColumn
    <3>2. QED
      BY <3>1, OneColumn
  <2> HIDE DEF keep, optional, unique
  <2>5. WithRemoved(InitOwners[3][2], "users", {TierColumn}) =
          [required |-> (keep \cup {"subscription_tier"}) \ {"subscription_tier"},
           optional |-> optional, unique |-> unique, refs |-> {}]
    BY <2>1, <2>4 DEF WithRemoved
  <2>6. QED
    BY <2>2, <2>3, <2>5
<1>3. InitTables[9][2] = UserModels["user_equipment"]
  <2>1. InitDetails[1][2] = UserModels["user_equipment"]
    BY DEF InitDetails, UserModels
  <2>2. QED
    BY <2>1, InitTablesAre
<1>4. Mapped(UserModels, "users")
  BY <1>2, UsersAtHead DEF Mapped
<1>5. Mapped(UserModels, "user_equipment")
  <2>1. 9 \in 1..12 /\ 9 # 3
    OBVIOUS
  <2>2. QED
    BY <1>3, <2>1, InitAtHead, InitNames DEF Mapped
<1>6. QED
  BY <1>1, <1>4, <1>5
LEMMA SubscriptionMapped ==
  ASSUME Fresh(8).ok
  PROVE  \A t \in DOMAIN SubscriptionModel : Mapped(SubscriptionModel, t)
<1>1. DOMAIN SubscriptionModel = {"subscriptions"}
  BY DEF SubscriptionModel
<1>2. Mapped(SubscriptionModel, "subscriptions")
  <2>1. InitOwners[8][2] = SubscriptionModel["subscriptions"]
    BY DEF InitOwners, SubscriptionModel
  <2>2. 8 \in 1..12 /\ 8 # 3
    OBVIOUS
  <2>3. QED
    BY <2>1, <2>2, InitAtHead, InitNames, InitTablesAre DEF Mapped
<1>3. QED
  BY <1>1, <1>2

LEMMA EquipmentMapped ==
  ASSUME Fresh(8).ok
  PROVE  \A t \in DOMAIN EquipmentModels : Mapped(EquipmentModels, t)
<1>1. DOMAIN EquipmentModels = {"equipment", "cuisine_categories"}
  BY DEF EquipmentModels
<1>2. Mapped(EquipmentModels, "equipment")
  <2>1. InitOwners[2][2] = EquipmentModels["equipment"]
    BY DEF InitOwners, EquipmentModels
  <2>2. 2 \in 1..12 /\ 2 # 3
    OBVIOUS
  <2>3. QED
    BY <2>1, <2>2, InitAtHead, InitNames, InitTablesAre DEF Mapped
<1>3. Mapped(EquipmentModels, "cuisine_categories")
  <2>1. InitOwners[1][2] = EquipmentModels["cuisine_categories"]
    BY DEF InitOwners, EquipmentModels
  <2>2. 1 \in 1..12 /\ 1 # 3
    OBVIOUS
  <2>3. QED
    BY <2>1, <2>2, InitAtHead, InitNames, InitTablesAre DEF Mapped
<1>4. QED
  BY <1>1, <1>2, <1>3

LEMMA InventoryMapped ==
  ASSUME Fresh(8).ok
  PROVE  \A t \in DOMAIN InventoryModels : Mapped(InventoryModels, t)
<1>1. DOMAIN InventoryModels = {"inventory_items", "expiry_tracking", "ai_scan_logs"}
  BY DEF InventoryModels
<1>2. Mapped(InventoryModels, "inventory_items")
  <2>1. InitOwners[5][2] = InventoryModels["inventory_items"]
    BY DEF InitOwners, InventoryModels
  <2>2. 5 \in 1..12 /\ 5 # 3
    OBVIOUS
  <2>3. QED
    BY <2>1, <2>2, InitAtHead, InitNames, InitTablesAre DEF Mapped
<1>3. Mapped(InventoryModels, "expiry_tracking")
  <2>1. InitDetails[2][2] = InventoryModels["expiry_tracking"]
    BY DEF InitDetails, InventoryModels
  <2>2. 10 \in 1..12 /\ 10 # 3
    OBVIOUS
  <2>3. QED
    BY <2>1, <2>2, InitAtHead, InitNames, InitTablesAre DEF Mapped
<1>4. Mapped(InventoryModels, "ai_scan_logs")
  <2>1. InitOwners[4][2] = InventoryModels["ai_scan_logs"]
    BY DEF InitOwners, InventoryModels
  <2>2. 4 \in 1..12 /\ 4 # 3
    OBVIOUS
  <2>3. QED
    BY <2>1, <2>2, InitAtHead, InitNames, InitTablesAre DEF Mapped
<1>5. QED
  BY <1>1, <1>2, <1>3, <1>4

LEMMA RecipesMapped ==
  ASSUME Fresh(8).ok
  PROVE  \A t \in DOMAIN RecipeModels : Mapped(RecipeModels, t)
<1>1. DOMAIN RecipeModels = {"recipes", "recipe_ingredients"}
  BY DEF RecipeModels
<1>2. Mapped(RecipeModels, "recipes")
  <2>1. InitOwners[6][2] = RecipeModels["recipes"]
    BY DEF InitOwners, RecipeModels
  <2>2. 6 \in 1..12 /\ 6 # 3
    OBVIOUS
  <2>3. QED
    BY <2>1, <2>2, InitAtHead, InitNames, InitTablesAre DEF Mapped
<1>3. Mapped(RecipeModels, "recipe_ingredients")
  <2>1. InitDetails[3][2] = RecipeModels["recipe_ingredients"]
    BY DEF InitDetails, RecipeModels
  <2>2. 11 \in 1..12 /\ 11 # 3
    OBVIOUS
  <2>3. QED
    BY <2>1, <2>2, InitAtHead, InitNames, InitTablesAre DEF Mapped
<1>4. QED
  BY <1>1, <1>2, <1>3

LEMMA ShoppingMapped ==
  ASSUME Fresh(8).ok
  PROVE  \A t \in DOMAIN ShoppingModels : Mapped(ShoppingModels, t)
<1>1. DOMAIN ShoppingModels = {"shopping_lists", "shopping_list_items"}
  BY DEF ShoppingModels
<1>2. Mapped(ShoppingModels, "shopping_lists")
  <2>1. InitOwners[7][2] = ShoppingModels["shopping_lists"]
    BY DEF InitOwners, ShoppingModels
  <2>2. 7 \in 1..12 /\ 7 # 3
    OBVIOUS
  <2>3. QED
    BY <2>1, <2>2, InitAtHead, InitNames, InitTablesAre DEF Mapped
<1>3. Mapped(ShoppingModels, "shopping_list_items")
  <2>1. InitDetails[4][2] = ShoppingModels["shopping_list_items"]
    BY DEF InitDetails, ShoppingModels
  <2>2. 12 \in 1..12 /\ 12 # 3
    OBVIOUS
  <2>3. QED
    BY <2>1, <2>2, InitAtHead, InitNames, InitTablesAre DEF Mapped
<1>4. QED
  BY <1>1, <1>2, <1>3

LEMMA TokensMapped ==
  ASSUME Fresh(8).ok
  PROVE  \A t \in DOMAIN TokenModels : Mapped(TokenModels, t)
<1>1. DOMAIN TokenModels =
        {"revoked_tokens", "email_verification_tokens", "password_reset_tokens"}
  BY DEF TokenModels
<1>2. /\ CategoryTables[2][2] = TokenModels["email_verification_tokens"]
      /\ CategoryTables[3][2] = TokenModels["password_reset_tokens"]
      /\ CategoryTables[4][2] = TokenModels["revoked_tokens"]
  BY DEF CategoryTables, TokenModels
<1>3. 2 \in 2..6 /\ 3 \in 2..6 /\ 4 \in 2..6
  OBVIOUS
<1>4. QED
  BY <1>1, <1>2, <1>3, CategoriesAtHead, CategoryNames DEF Mapped

LEMMA CategoriesMapped ==
  ASSUME Fresh(8).ok
  PROVE  \A t \in DOMAIN CategoryModels : Mapped(CategoryModels, t)
<1>1. DOMAIN CategoryModels = {"categories", "recipe_categories", "inventory_item_categories"}
  BY DEF CategoryModels
<1>2. /\ CategoryTables[5][2] = CategoryModels["inventory_item_categories"]
      /\ CategoryTables[6][2] = CategoryModels["recipe_categories"]
  BY DEF CategoryTables, CategoryModels
<1>3. WithAdded(CategoryTables[1][2], "categories", {ParentColumn}) =
        CategoryModels["categories"]
  <2> DEFINE required == {"id", "name", "is_active", "created_at", "updated_at"}
             unique == {{"id"}} \cup {{k} : k \in {"name"}}
             refs == {SetNull("parent_id", "categories")}
  <2>1. CategoryTables[1][2] =
          [required |-> required, optional |-> {"description"}, unique |-> unique, refs |-> {}]
    BY DEF CategoryTables, Entity, Timestamps
  <2>2. CategoryModels["categories"] =
          [required |-> required, optional |-> {"description", "parent_id"}, unique |-> unique,
           refs |-> refs]
    BY DEF CategoryModels, Entity, Timestamps
  <2>3. /\ ColumnsOf({ParentColumn}, "categories") = {"parent_id"}
        /\ RefsOf({ParentColumn}, "categories") = refs
    <3>1. /\ ParentColumn.table = "categories" /\ ParentColumn.column = "parent_id"
          /\ ParentColumn.refs = refs
      BY DEF ParentColumn
    <3> HIDE DEF refs
    <3>2. QED
      BY <3>1, OneColumn
  <2>4. {"description"} \cup {"parent_id"} = {"description", "parent_id"} /\ {} \cup refs = refs
    OBVIOUS
  <2> HIDE DEF required, unique, refs
  <2>5. WithAdded(CategoryTables[1][2], "categories", {ParentColumn}) =
          [required |-> required, optional |-> {"description"} \cup {"parent_id"},
           unique |-> unique, refs |-> {} \cup refs]
    <3>1. WithAdded([required |-> required, optional |-> {"description"}, unique |-> unique,
                     refs |-> {}], "categories", {ParentColumn}) =
            [required |-> required,
             optional |-> {"description"} \cup ColumnsOf({ParentColumn}, "categories"),
             unique |-> unique, refs |-> {} \cup RefsOf({ParentColumn}, "categories")]
      BY WithAddedFields
    <3>2. QED
      BY <2>1, <2>3, <3>1
  <2>6. QED
    BY <2>2, <2>4, <2>5
<1>4. Mapped(CategoryModels, "categories")
  BY <1>3, CategoryTableAtHead DEF Mapped
<1>5. 5 \in 2..6 /\ 6 \in 2..6
  OBVIOUS
<1>6. QED
  BY <1>1, <1>2, <1>4, <1>5, CategoriesAtHead, CategoryNames DEF Mapped

LEMMA UnitsMapped ==
  ASSUME Fresh(8).ok
  PROVE  \A t \in DOMAIN UnitModels : Mapped(UnitModels, t)
<1>1. DOMAIN UnitModels = {"units", "category_units"}
  BY DEF UnitModels
<1>2. /\ UnitTables[1][2] = UnitModels["units"]
      /\ UnitTables[2][2] = UnitModels["category_units"]
  BY DEF UnitTables, UnitModels
<1>3. UnitTables[1][1] = "units" /\ UnitTables[2][1] = "category_units"
  BY DEF UnitTables
<1>4. 1 \in 1..2 /\ 2 \in 1..2
  OBVIOUS
<1>5. QED
  BY <1>1, <1>2, <1>3, <1>4, UnitsAtHead DEF Mapped

LEMMA UsageModelUnmapped ==
  ASSUME Fresh(8).ok
  PROVE  /\ DOMAIN UsageModel = {"ai_usage_logs"}
         /\ "ai_usage_logs" \notin DOMAIN Fresh(8).db.schema
BY TablesAt DEF UsageModel

Mapping(models) == \A t \in DOMAIN models : Mapped(models, t)

\* Every model but AIUsageLog has its table.
LEMMA ModelsMapped ==
  ASSUME Fresh(8).ok, NEW models \in Metadata, NEW t \in DOMAIN models
  PROVE  /\ t \in DOMAIN Fresh(8).db.schema <=> t # "ai_usage_logs"
         /\ t # "ai_usage_logs" => Mapped(models, t)
<1>1. CASE models = UsageModel
  BY <1>1, UsageModelUnmapped
<1>2. CASE models # UsageModel
  <2>1. /\ Mapping(UserModels) /\ Mapping(SubscriptionModel) /\ Mapping(EquipmentModels)
        /\ Mapping(InventoryModels) /\ Mapping(RecipeModels) /\ Mapping(ShoppingModels)
        /\ Mapping(CategoryModels) /\ Mapping(UnitModels) /\ Mapping(TokenModels)
    BY UserModelsMapped, SubscriptionMapped, EquipmentMapped, InventoryMapped,
       RecipesMapped, ShoppingMapped, CategoriesMapped, UnitsMapped, TokensMapped
       DEF Mapping
  <2>2. Mapping(models)
    BY <1>2, <2>1 DEF Metadata
  <2>3. Mapped(models, t)
    BY <2>2 DEF Mapping
  <2>4. QED
    BY <2>3, UsageModelUnmapped DEF Mapped
<1>3. QED
  BY <1>1, <1>2
=============================================================================
