------------------------------ MODULE Seeding ------------------------------
(***************************************************************************)
(* The reference data every server process inserts when it starts: units,  *)
(* the tree of categories and the units each category allows, beside the   *)
(* admin panel, which edits the same categories.                           *)
(*                                                                         *)
(* One process seeds in one transaction, statement by statement.  A row    *)
(* carries who wrote it: until its transaction commits nobody else reads   *)
(* it, and an insert of the same key waits to see how it ends.  What a     *)
(* statement has selected may change before it inserts, so the two parts   *)
(* of INSERT ... SELECT are two steps.                                     *)
(***************************************************************************)
EXTENDS Integers, Sequences

CONSTANTS
  Servers,      \* server processes
  Ids,          \* the supply of categories.id
  MaxEdits,     \* bound on the panel's edits
  Extra,        \* names of categories that are not seeded
  UnitSeeds,    \* _DEFAULT_UNITS, a sequence of names
  ParentSeeds,  \* the keys of _CATEGORY_TREE, a sequence of names
  ChildSeeds,   \* its leaves in order, a sequence of <<child, parent>>
  LinkSeeds,    \* _CATEGORY_UNIT_MAP, a sequence of <<category, unit>>
  NoId, NoRow, Nobody

ElementsOf(seq) == {seq[k] : k \in DOMAIN seq}

UnitNames == ElementsOf(UnitSeeds)
SeedNames == ElementsOf(ParentSeeds) \cup {c[1] : c \in ElementsOf(ChildSeeds)}
Names == SeedNames \cup Extra

ASSUME SeedingAssumption ==
  /\ NoId \notin Ids /\ Nobody \notin Servers /\ MaxEdits \in Nat /\ UnitSeeds # <<>>
  /\ \A seeds \in {UnitSeeds, ParentSeeds, ChildSeeds, LinkSeeds} : seeds \in Seq(ElementsOf(seeds))
  /\ \A c \in ElementsOf(ChildSeeds) : c[2] \in ElementsOf(ParentSeeds)
  /\ \A l \in ElementsOf(LinkSeeds) : l[1] \in SeedNames /\ l[2] \in UnitNames

\* Every leaf is written under one parent of the tree, and is not a parent.
ASSUME TreeAssumption ==
  \A c, d \in ElementsOf(ChildSeeds) :
    c[1] \notin ElementsOf(ParentSeeds) /\ (c[1] = d[1] => c[2] = d[2])

VARIABLES
  units,     \* units: name -> who inserted it, or NoRow
  cats,      \* categories: id -> [name, parent, by], or NoRow
  links,     \* category_units: a set of [category, unit, by]
  at,        \* the statement of Script each process executes
  found,     \* the category its INSERT ... SELECT has selected
  edits      \* how many times the panel has changed a category

catalog == <<units, cats, links>>
seeding == <<catalog, at, found, edits>>

-----------------------------------------------------------------------------
(* The script                                                              *)

Statements(kind, seeds, Name(_), Of(_)) ==
  [k \in DOMAIN seeds |-> [kind |-> kind, name |-> Name(seeds[k]), of |-> Of(seeds[k])]]

Whole(seed) == seed
First(seed) == seed[1]
Second(seed) == seed[2]

UnitScript == Statements("unit", UnitSeeds, Whole, Whole)
CategoryScript ==
  Statements("parent", ParentSeeds, Whole, Whole) \o Statements("child", ChildSeeds, First, Second)
LinkScript == Statements("link", LinkSeeds, Second, First)

\* Faulty variant: the links before the categories they belong to.
ScriptMisordered(s) == UnitScript \o LinkScript \o CategoryScript

\* Faulty variant: the units are kept in a set, which every process walks in
\* an order of its own.
Backwards(seq) == [k \in DOMAIN seq |-> seq[Len(seq) + 1 - k]]
ScriptUnordered(s) ==
  (IF s = CHOOSE q \in Servers : TRUE THEN UnitScript ELSE Backwards(UnitScript))
    \o CategoryScript \o LinkScript

\* run_all_seeders: the same order in every process.
Script(s) == UnitScript \o CategoryScript \o LinkScript

Down == 0
CommitAt(s) == Len(Script(s)) + 1
Serving(s) == Len(Script(s)) + 2

SeedingNow(s) == at[s] \in 1..CommitAt(s)

\* The tables that s has locked against being dropped.
Touched(s) ==
  IF ~SeedingNow(s) THEN {}
  ELSE {CASE Script(s)[k].kind = "unit" -> "units"
          [] Script(s)[k].kind \in {"parent", "child"} -> "categories"
          [] OTHER -> "category_units" : k \in 1..(at[s] - 1)}
-----------------------------------------------------------------------------
(* Rows                                                                    *)

Rows == [name : Names, parent : Ids \cup {NoId}, by : Servers \cup {Nobody}]
ASSUME RowsAssumption == NoRow \notin Rows \cup Servers \cup {Nobody}

Stored == {i \in Ids : cats[i] # NoRow}
\* uuid4 gives an id that nobody has, or still remembers.  A row is inserted
\* only while the supply lasts.
Unseen == Ids \ (Stored \cup {found[s] : s \in Servers})
NewId == CHOOSE i \in Unseen : TRUE

Sees(s, by) == by \in {s, Nobody}

\* The category of that name which s can read.
Visible(s, name) == {i \in Stored : cats[i].name = name /\ Sees(s, cats[i].by)}

NameTaken(name) == \E i \in Stored : cats[i].name = name
NamePending(s, name) == \E i \in Stored : cats[i].name = name /\ ~Sees(s, cats[i].by)

\* A category that an uncommitted row refers to is locked against deletion
\* and against a new name.
Referred(i) ==
  \/ \E j \in Stored : cats[j].parent = i /\ cats[j].by # Nobody
  \/ \E l \in links : l.category = i /\ l.by # Nobody

SeedingInit ==
  /\ units = [u \in UnitNames |-> NoRow]
  /\ cats = [i \in Ids |-> NoRow]
  /\ links = {}
  /\ at = [s \in Servers |-> Down]
  /\ found = [s \in Servers |-> NoId]
  /\ edits = 0

-----------------------------------------------------------------------------
(* run_all_seeders                                                         *)

On(s, kinds) == at[s] \in 1..Len(Script(s)) /\ Script(s)[at[s]].kind \in kinds
This(s) == Script(s)[at[s]]

Advance(s) ==
  /\ at' = [at EXCEPT ![s] = @ + 1]
  /\ found' = [found EXCEPT ![s] = NoId]
  /\ UNCHANGED edits

Boot(s) ==
  /\ at[s] = Down
  /\ at' = [at EXCEPT ![s] = 1]
  /\ UNCHANGED <<catalog, found, edits>>

\* Every statement: ON CONFLICT ... DO NOTHING, once whoever inserts the same
\* key has ended.
SeedUnit(s) ==
  LET u == This(s).name IN
  /\ On(s, {"unit"})
  /\ units[u] = NoRow \/ Sees(s, units[u])
  /\ units' = IF units[u] = NoRow THEN [units EXCEPT ![u] = s] ELSE units
  /\ Advance(s)
  /\ UNCHANGED <<cats, links>>

\* Faulty variant: ON CONFLICT (name) DO UPDATE SET parent_id.
InsertCategoryUpsert(s, name, parent) ==
  cats' = IF NameTaken(name)
          THEN [i \in Ids |-> IF i \in Visible(s, name)
                              THEN [cats[i] EXCEPT !.parent = parent] ELSE cats[i]]
          ELSE [cats EXCEPT ![NewId] = [name |-> name, parent |-> parent, by |-> s]]

InsertCategory(s, name, parent) ==
  \/ NameTaken(name) /\ UNCHANGED cats
  \/ /\ ~NameTaken(name) /\ Unseen # {}
     /\ cats' = [cats EXCEPT ![NewId] = [name |-> name, parent |-> parent, by |-> s]]

SeedParent(s) ==
  LET name == This(s).name IN
  /\ On(s, {"parent"})
  /\ ~NamePending(s, name)
  /\ InsertCategory(s, name, NoId)
  /\ Advance(s)
  /\ UNCHANGED <<units, links>>

\* SELECT ... FROM categories c, and units u for a link, WHERE c.name = ...:
\* without such a category or unit the statement inserts nothing.
FindCategory(s) ==
  LET UnitSeen == units[This(s).name] # NoRow /\ Sees(s, units[This(s).name])
      ids == {i \in Visible(s, This(s).of) : On(s, {"link"}) => UnitSeen}
  IN
  /\ On(s, {"child", "link"}) /\ found[s] = NoId
  /\ IF ids = {} THEN Advance(s)
     ELSE /\ found' = [found EXCEPT ![s] = CHOOSE i \in ids : TRUE]
          /\ UNCHANGED <<at, edits>>
  /\ UNCHANGED catalog

\* The foreign key is checked last: the category may be gone by now.
SeedChild(s) ==
  LET name == This(s).name IN
  /\ On(s, {"child"}) /\ found[s] # NoId
  /\ ~NamePending(s, name)
  /\ NameTaken(name) \/ found[s] \in Stored
  /\ InsertCategory(s, name, found[s])
  /\ Advance(s)
  /\ UNCHANGED <<units, links>>

SeedLink(s) ==
  LET same == {l \in links : l.category = found[s] /\ l.unit = This(s).name} IN
  /\ On(s, {"link"}) /\ found[s] # NoId
  /\ \A l \in same : Sees(s, l.by)
  /\ same # {} \/ found[s] \in Stored
  /\ links' = IF same # {} THEN links
              ELSE links \cup {[category |-> found[s], unit |-> This(s).name, by |-> s]}
  /\ Advance(s)
  /\ UNCHANGED <<units, cats>>

Committed(s, by) == IF by = s THEN Nobody ELSE by

SeedCommit(s) ==
  /\ at[s] = CommitAt(s)
  /\ units' = [u \in UnitNames |-> Committed(s, units[u])]
  /\ cats' = [i \in Ids |-> IF cats[i] = NoRow THEN NoRow
                            ELSE [cats[i] EXCEPT !.by = Committed(s, @)]]
  /\ links' = {[l EXCEPT !.by = Committed(s, @)] : l \in links}
  /\ Advance(s)

Rollback(s) ==
  /\ units' = [u \in UnitNames |-> IF units[u] = s THEN NoRow ELSE units[u]]
  /\ cats' = [i \in Ids |-> IF cats[i] # NoRow /\ cats[i].by = s THEN NoRow ELSE cats[i]]
  /\ links' = {l \in links : l.by # s}

\* Faulty variant: the error is logged and not raised.
SeedFailsQuietly(s) ==
  /\ SeedingNow(s)
  /\ Rollback(s)
  /\ at' = [at EXCEPT ![s] = Serving(s)]
  /\ found' = [found EXCEPT ![s] = NoId]
  /\ UNCHANGED edits

\* Any statement may fail: run_all_seeders rolls back and raises, and the
\* process does not start.
SeedFails(s) ==
  /\ SeedingNow(s)
  /\ Rollback(s)
  /\ at' = [at EXCEPT ![s] = Down]
  /\ found' = [found EXCEPT ![s] = NoId]
  /\ UNCHANGED edits

\* The selected category has been deleted: the foreign key refuses the row.
Orphaned(s) ==
  /\ found[s] \notin Stored
  /\ \/ On(s, {"child"}) /\ found[s] # NoId /\ ~NameTaken(This(s).name)
     \/ On(s, {"link"}) /\ found[s] # NoId

\* A serving process is stopped, or killed, and may be started again.
Stop(s) ==
  /\ at[s] = Serving(s)
  /\ at' = [at EXCEPT ![s] = Down]
  /\ UNCHANGED <<catalog, found, edits>>

Statement(s) ==
  \/ SeedUnit(s) \/ SeedParent(s) \/ FindCategory(s) \/ SeedChild(s) \/ SeedLink(s)
  \/ SeedCommit(s)

-----------------------------------------------------------------------------
(* The admin panel's forms, each a transaction of one statement            *)

PanelEdits == edits < MaxEdits /\ edits' = edits + 1 /\ UNCHANGED <<units, at, found>>

PanelCreate(name, parent) ==
  /\ ~NameTaken(name) /\ Unseen # {}
  /\ cats' = [cats EXCEPT ![NewId] = [name |-> name, parent |-> parent, by |-> Nobody]]
  /\ UNCHANGED links
  /\ PanelEdits

PanelUpdate(i, name, parent) ==
  /\ <<name, parent>> # <<cats[i].name, cats[i].parent>>
  /\ name # cats[i].name => ~NameTaken(name) /\ ~Referred(i)
  /\ cats' = [cats EXCEPT ![i].name = name, ![i].parent = parent]
  /\ UNCHANGED links
  /\ PanelEdits

\* Faulty variant: the reference to the parent is only a column.
PanelDeleteDangling(i) ==
  /\ ~Referred(i)
  /\ cats' = [cats EXCEPT ![i] = NoRow]
  /\ links' = {l \in links : l.category # i}
  /\ PanelEdits

\* The foreign keys: children lose their parent, links go with the category.
PanelDelete(i) ==
  /\ ~Referred(i)
  /\ cats' = [j \in Ids |-> IF j = i \/ cats[j] = NoRow THEN NoRow
                            ELSE IF cats[j].parent = i THEN [cats[j] EXCEPT !.parent = NoId]
                            ELSE cats[j]]
  /\ links' = {l \in links : l.category # i}
  /\ PanelEdits

Panel ==
  LET known == {i \in Stored : cats[i].by = Nobody} IN
  \/ \E name \in Names, parent \in known \cup {NoId} : PanelCreate(name, parent)
  \/ \E i \in known, name \in Names, parent \in known \cup {NoId} : PanelUpdate(i, name, parent)
  \/ \E i \in known : PanelDelete(i)

=============================================================================
