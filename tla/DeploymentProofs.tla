-------------------------- MODULE DeploymentProofs --------------------------
(***************************************************************************)
(* What starting servers, the panel and the operator may do to each other, *)
(* for any seeds, any number of servers and any edits and migrations:      *)
(* starts only add (SInv), the schema is that of its revision (SchemaInv), *)
(* keys and references hold (RInv), and what a server's statements were    *)
(* for is there when it serves (DInv).                                     *)
(***************************************************************************)
EXTENDS Deployment, MigrationsProofs, TLAPS

LinkRows == [category : Ids, unit : UnitNames, by : Servers \cup {Nobody}]

CatalogOK ==
  /\ cats \in [Ids -> Rows \cup {NoRow}]
  /\ links \subseteq LinkRows
  /\ found \in [Servers -> Ids \cup {NoId}]

PendingIsSeeded == \A i \in Stored : cats[i].by # Nobody => cats[i].name \in SeedNames

SInv == CatalogOK /\ PendingIsSeeded

\* What one statement of a server does to rows that others can read.
OnlyAdds ==
  /\ \A i \in Ids : Settled(i) => cats'[i] = cats[i]
  /\ \A i \in Ids : Settled(i)' /\ ~Settled(i) => cats'[i].name \in SeedNames
  /\ {l \in links : l.by = Nobody} \subseteq links'

-----------------------------------------------------------------------------
(* The script                                                              *)

\* A statement names what the seeds of its kind hold.
Kinds ==
  [kind : {"parent", "child"}, name : SeedNames, of : SeedNames]
    \cup [kind : {"link"}, name : UnitNames, of : SeedNames]
    \cup [kind : {"unit"}, name : UnitNames, of : UnitNames]

LEMMA UnitScriptType == UnitScript \in Seq(Kinds)
<1>1. UnitSeeds \in Seq(UnitNames)
  BY SeedingAssumption DEF UnitNames
<1>2. UnitScript = [k \in 1..Len(UnitSeeds) |->
                     [kind |-> "unit", name |-> UnitSeeds[k], of |-> UnitSeeds[k]]]
  BY <1>1 DEF UnitScript, Statements, Whole
<1>3. \A k \in 1..Len(UnitSeeds) : UnitScript[k] \in Kinds
  BY <1>1, <1>2 DEF Kinds
<1>4. QED
  BY <1>1, <1>2, <1>3

LEMMA ParentScriptType ==
  Statements("parent", ParentSeeds, Whole, Whole) \in Seq(Kinds)
<1> DEFINE part == Statements("parent", ParentSeeds, Whole, Whole)
<1>1. ParentSeeds \in Seq(ElementsOf(ParentSeeds)) /\ ElementsOf(ParentSeeds) \subseteq SeedNames
  BY SeedingAssumption DEF SeedNames
<1>2. part = [k \in 1..Len(ParentSeeds) |->
               [kind |-> "parent", name |-> ParentSeeds[k], of |-> ParentSeeds[k]]]
  BY <1>1 DEF Statements, Whole
<1>3. \A k \in 1..Len(ParentSeeds) : part[k] \in Kinds
  BY <1>1, <1>2 DEF Kinds
<1>4. QED
  BY <1>1, <1>2, <1>3

LEMMA ChildScriptType ==
  Statements("child", ChildSeeds, First, Second) \in Seq(Kinds)
<1> DEFINE part == Statements("child", ChildSeeds, First, Second)
<1>1. ChildSeeds \in Seq(ElementsOf(ChildSeeds))
  BY SeedingAssumption
<1>2. \A c \in ElementsOf(ChildSeeds) : c[1] \in SeedNames /\ c[2] \in SeedNames
  BY SeedingAssumption DEF SeedNames
<1>3. part = [k \in 1..Len(ChildSeeds) |->
               [kind |-> "child", name |-> ChildSeeds[k][1], of |-> ChildSeeds[k][2]]]
  BY <1>1 DEF Statements, First, Second
<1>4. \A k \in 1..Len(ChildSeeds) : part[k] \in Kinds
  BY <1>1, <1>2, <1>3 DEF Kinds
<1>5. QED
  BY <1>1, <1>3, <1>4

LEMMA LinkScriptType == LinkScript \in Seq(Kinds)
<1>1. LinkSeeds \in Seq(ElementsOf(LinkSeeds))
  BY SeedingAssumption
<1>2. \A l \in ElementsOf(LinkSeeds) : l[1] \in SeedNames /\ l[2] \in UnitNames
  BY SeedingAssumption
<1>3. LinkScript = [k \in 1..Len(LinkSeeds) |->
                     [kind |-> "link", name |-> LinkSeeds[k][2], of |-> LinkSeeds[k][1]]]
  BY <1>1 DEF LinkScript, Statements, First, Second
<1>4. \A k \in 1..Len(LinkSeeds) : LinkScript[k] \in Kinds
  BY <1>1, <1>2, <1>3 DEF Kinds
<1>5. QED
  BY <1>1, <1>3, <1>4

LEMMA ScriptType == \A s : Script(s) \in Seq(Kinds)
BY UnitScriptType, ParentScriptType, ChildScriptType, LinkScriptType
   DEF Script, CategoryScript

LEMMA StatementNames ==
  ASSUME NEW s \in Servers
  PROVE  /\ On(s, {"parent"}) \/ On(s, {"child"}) => This(s).name \in SeedNames
         /\ On(s, {"link"}) => This(s).name \in UnitNames
<1>1. at[s] \in 1..Len(Script(s)) => This(s) \in Kinds
  BY ScriptType DEF This
<1>2. QED
  BY <1>1 DEF On, This, Kinds

-----------------------------------------------------------------------------
(* Rows                                                                    *)

LEMMA NewIdIsNew ==
  ASSUME Unseen # {}
  PROVE  NewId \in Ids /\ NewId \notin Stored
BY DEF Unseen, NewId

\* Inserting a category of a seeded name.
LEMMA InsertCategoryAdds ==
  ASSUME SInv, NEW s \in Servers, NEW name \in SeedNames, NEW parent \in Ids \cup {NoId},
         InsertCategory(s, name, parent)
  PROVE  /\ cats' \in [Ids -> Rows \cup {NoRow}]
         /\ PendingIsSeeded'
         /\ \A i \in Ids : Settled(i) => cats'[i] = cats[i]
         /\ \A i \in Ids : Settled(i)' /\ ~Settled(i) => cats'[i].name \in SeedNames
<1>1. CASE cats' = cats
  BY <1>1 DEF SInv, CatalogOK, PendingIsSeeded, Stored, Settled
<1>2. CASE /\ Unseen # {}
           /\ cats' = [cats EXCEPT ![NewId] = [name |-> name, parent |-> parent, by |-> s]]
  <2> DEFINE row == [name |-> name, parent |-> parent, by |-> s]
  <2>1. row \in Rows /\ row.name = name /\ row.by = s
    BY DEF Rows, Names
  <2>2. cats' \in [Ids -> Rows \cup {NoRow}]
    BY <1>2, <2>1 DEF SInv, CatalogOK
  <2>3. \A i \in Ids : cats'[i] = IF i = NewId THEN row ELSE cats[i]
    BY <1>2 DEF SInv, CatalogOK
  <2>4. NewId \notin Stored
    BY <1>2, NewIdIsNew
  <2> HIDE DEF row
  <2>5. PendingIsSeeded'
    BY <2>1, <2>3 DEF SInv, PendingIsSeeded, Stored
  <2>6. \A i \in Ids : Settled(i) => cats'[i] = cats[i]
    BY <2>3, <2>4 DEF Settled
  <2>7. \A i \in Ids : Settled(i)' /\ ~Settled(i) => cats'[i].name \in SeedNames
    BY <2>1, <2>3 DEF Settled, Stored
  <2>8. QED
    BY <2>2, <2>5, <2>6, <2>7
<1>3. QED
  BY <1>1, <1>2 DEF InsertCategory

LEMMA CommitAdds ==
  ASSUME SInv, NEW s \in Servers, SeedCommit(s)
  PROVE  SInv' /\ OnlyAdds
<1>1. \A i \in Ids : cats'[i] = IF cats[i] = NoRow THEN NoRow
                                ELSE [cats[i] EXCEPT !.by = Committed(s, @)]
  BY DEF SeedCommit
<1>2. \A i \in Stored :
        /\ cats[i] \in Rows /\ cats'[i] \in Rows
        /\ cats'[i].name = cats[i].name
        /\ cats[i].by = Nobody => cats'[i] = cats[i]
        /\ cats'[i].by # Nobody => cats[i].by # Nobody
  <2> TAKE i \in Stored
  <2>1. PICK n \in Names, p \in Ids \cup {NoId}, b \in Servers \cup {Nobody} :
          cats[i] = [name |-> n, parent |-> p, by |-> b]
    BY DEF SInv, CatalogOK, Stored, Rows
  <2>2. cats'[i] = [name |-> n, parent |-> p, by |-> Committed(s, b)]
    BY <1>1, <2>1 DEF Stored
  <2>3. /\ Committed(s, b) \in Servers \cup {Nobody}
        /\ b = Nobody => Committed(s, b) = b
    BY DEF Committed
  <2>4. QED
    BY <2>1, <2>2, <2>3 DEF Rows
<1>3. \A i \in Ids : i \notin Stored => cats'[i] = NoRow
  BY <1>1 DEF Stored
<1>4. cats' \in [Ids -> Rows \cup {NoRow}]
  <2>1. \A i \in Ids : cats'[i] \in Rows \cup {NoRow}
    BY <1>2, <1>3
  <2>2. QED
    BY <2>1 DEF SeedCommit
<1>5. PendingIsSeeded'
  BY <1>2, <1>3 DEF SInv, PendingIsSeeded, Stored
<1>6. \A i \in Ids : Settled(i) => cats'[i] = cats[i]
  BY <1>2 DEF Settled
<1>7. \A i \in Ids : Settled(i)' /\ ~Settled(i) => cats'[i].name \in SeedNames
  BY <1>2, <1>3 DEF SInv, PendingIsSeeded, Settled, Stored
<1>8. links' = {[l EXCEPT !.by = Committed(s, @)] : l \in links}
  BY DEF SeedCommit
<1>9. \A l \in links : /\ [l EXCEPT !.by = Committed(s, @)] \in LinkRows
                       /\ l.by = Nobody => [l EXCEPT !.by = Committed(s, @)] = l
  <2> TAKE l \in links
  <2>1. PICK c \in Ids, u \in UnitNames, b \in Servers \cup {Nobody} :
          l = [category |-> c, unit |-> u, by |-> b]
    BY DEF SInv, CatalogOK, LinkRows
  <2>2. [l EXCEPT !.by = Committed(s, @)] = [category |-> c, unit |-> u, by |-> Committed(s, b)]
    BY <2>1
  <2>3. Committed(s, b) \in Servers \cup {Nobody} /\ (b = Nobody => Committed(s, b) = b)
    BY DEF Committed
  <2>4. QED
    BY <2>1, <2>2, <2>3 DEF LinkRows
<1>10. links' \subseteq LinkRows /\ {l \in links : l.by = Nobody} \subseteq links'
  BY <1>8, <1>9
<1>11. found' \in [Servers -> Ids \cup {NoId}]
  BY DEF SeedCommit, Advance, SInv, CatalogOK
<1>12. QED
  BY <1>4, <1>5, <1>6, <1>7, <1>10, <1>11 DEF SInv, CatalogOK, OnlyAdds

LEMMA RollbackAdds ==
  ASSUME SInv, NEW s \in Servers, SeedFails(s)
  PROVE  SInv' /\ OnlyAdds
<1>1. \A i \in Ids : cats'[i] = IF cats[i] # NoRow /\ cats[i].by = s THEN NoRow ELSE cats[i]
  BY DEF SeedFails, Rollback
<1>2. \A i \in Ids : cats'[i] \in {cats[i], NoRow} /\ cats[i] \in Rows \cup {NoRow}
  BY <1>1 DEF SInv, CatalogOK
<1>3. cats' \in [Ids -> Rows \cup {NoRow}]
  <2>1. \A i \in Ids : cats'[i] \in Rows \cup {NoRow}
    BY <1>2
  <2>2. QED
    BY <2>1 DEF SeedFails, Rollback
<1>4. PendingIsSeeded'
  BY <1>2 DEF SInv, PendingIsSeeded, Stored
<1>5. \A i \in Ids : Settled(i) => cats'[i] = cats[i]
  BY <1>1, SeedingAssumption DEF Settled
<1>6. \A i \in Ids : Settled(i)' => Settled(i)
  BY <1>2 DEF Settled, Stored
<1>7. links' = {l \in links : l.by # s}
  BY DEF SeedFails, Rollback
<1>8. links' \subseteq LinkRows /\ {l \in links : l.by = Nobody} \subseteq links'
  BY <1>7, SeedingAssumption DEF SInv, CatalogOK
<1>9. found' \in [Servers -> Ids \cup {NoId}]
  BY DEF SeedFails, SInv, CatalogOK
<1>10. QED
  BY <1>3, <1>4, <1>5, <1>6, <1>8, <1>9 DEF SInv, CatalogOK, OnlyAdds

\* A step of a server that touches neither categories nor links.
LEMMA NoRowsAdds ==
  ASSUME SInv, UNCHANGED <<cats, links>>, found' \in [Servers -> Ids \cup {NoId}]
  PROVE  SInv' /\ OnlyAdds
BY DEF SInv, CatalogOK, PendingIsSeeded, Stored, Settled, OnlyAdds

LEMMA AdvanceFound ==
  ASSUME SInv, NEW s \in Servers, Advance(s)
  PROVE  found' \in [Servers -> Ids \cup {NoId}]
BY DEF Advance, SInv, CatalogOK

LEMMA StatementAdds ==
  ASSUME SInv, NEW s \in Servers, Statement(s)
  PROVE  SInv' /\ OnlyAdds
<1>1. CASE SeedUnit(s)
  BY <1>1, NoRowsAdds, AdvanceFound DEF SeedUnit
<1>2. CASE SeedParent(s)
  <2>1. InsertCategory(s, This(s).name, NoId) /\ This(s).name \in SeedNames
    BY <1>2, StatementNames DEF SeedParent
  <2>2. links' = links
    BY <1>2 DEF SeedParent
  <2>3. found' \in [Servers -> Ids \cup {NoId}]
    BY <1>2, AdvanceFound DEF SeedParent
  <2>4. QED
    BY <2>1, <2>2, <2>3, InsertCategoryAdds DEF SInv, CatalogOK, OnlyAdds
<1>3. CASE FindCategory(s)
  <2>1. UNCHANGED <<cats, links>>
    BY <1>3 DEF FindCategory, catalog
  <2>2. found' \in [Servers -> Ids \cup {NoId}]
    <3> DEFINE UnitSeen == units[This(s).name] # NoRow /\ Sees(s, units[This(s).name])
               ids == {i \in Visible(s, This(s).of) : On(s, {"link"}) => UnitSeen}
    <3>1. \/ Advance(s)
          \/ ids # {} /\ found' = [found EXCEPT ![s] = CHOOSE i \in ids : TRUE]
      BY <1>3 DEF FindCategory
    <3>2. ids # {} => (CHOOSE i \in ids : TRUE) \in Ids
      BY DEF Visible, Stored
    <3> HIDE DEF ids
    <3>3. QED
      BY <3>1, <3>2, AdvanceFound DEF SInv, CatalogOK
  <2>3. QED
    BY <2>1, <2>2, NoRowsAdds
<1>4. CASE SeedChild(s)
  <2>1. InsertCategory(s, This(s).name, found[s]) /\ This(s).name \in SeedNames
    BY <1>4, StatementNames DEF SeedChild
  <2>2. found[s] \in Ids \cup {NoId}
    BY DEF SInv, CatalogOK
  <2>3. links' = links
    BY <1>4 DEF SeedChild
  <2>4. found' \in [Servers -> Ids \cup {NoId}]
    BY <1>4, AdvanceFound DEF SeedChild
  <2>5. QED
    BY <2>1, <2>2, <2>3, <2>4, InsertCategoryAdds DEF SInv, CatalogOK, OnlyAdds
<1>5. CASE SeedLink(s)
  <2>1. /\ links \subseteq links'
        /\ links' \subseteq links \cup {[category |-> found[s], unit |-> This(s).name, by |-> s]}
        /\ cats' = cats
    BY <1>5 DEF SeedLink
  <2>2. [category |-> found[s], unit |-> This(s).name, by |-> s] \in LinkRows
    BY <1>5, StatementNames DEF SeedLink, SInv, CatalogOK, LinkRows
  <2>3. found' \in [Servers -> Ids \cup {NoId}]
    BY <1>5, AdvanceFound DEF SeedLink
  <2>4. QED
    BY <2>1, <2>2, <2>3 DEF SInv, CatalogOK, PendingIsSeeded, Stored, Settled, OnlyAdds
<1>6. CASE SeedCommit(s)
  BY <1>6, CommitAdds
<1>7. QED
  BY <1>1, <1>2, <1>3, <1>4, <1>5, <1>6 DEF Statement

-----------------------------------------------------------------------------
(* The panel and the operator                                              *)

LEMMA PanelEditInv ==
  ASSUME SInv, Panel
  PROVE  SInv'
<1> DEFINE known == {i \in Stored : cats[i].by = Nobody}
<1>1. found' = found
  BY DEF Panel, PanelCreate, PanelUpdate, PanelDelete, PanelEdits
<1>2. ASSUME NEW name \in Names, NEW parent \in known \cup {NoId}, PanelCreate(name, parent)
      PROVE  SInv'
  <2> DEFINE row == [name |-> name, parent |-> parent, by |-> Nobody]
  <2>1. row \in Rows /\ row.by = Nobody
    BY DEF Rows, Stored
  <2>2. cats' = [cats EXCEPT ![NewId] = row] /\ links' = links
    BY <1>2 DEF PanelCreate
  <2> HIDE DEF row
  <2>3. \A i \in Ids : cats'[i] = IF i = NewId THEN row ELSE cats[i]
    BY <2>2 DEF SInv, CatalogOK
  <2>4. QED
    BY <1>1, <2>1, <2>2, <2>3 DEF SInv, CatalogOK, PendingIsSeeded, Stored
<1>3. ASSUME NEW i \in known, NEW name \in Names, NEW parent \in known \cup {NoId},
             PanelUpdate(i, name, parent)
      PROVE  SInv'
  <2>1. cats' = [cats EXCEPT ![i].name = name, ![i].parent = parent] /\ links' = links
    BY <1>3 DEF PanelUpdate
  <2>2. i \in Ids /\ cats[i] \in Rows /\ cats[i].by = Nobody
    BY DEF SInv, CatalogOK, Stored
  <2>3. parent \in Ids \cup {NoId}
    BY DEF Stored
  <2>4. cats'[i] = [name |-> name, parent |-> parent, by |-> Nobody]
    BY <2>1, <2>2 DEF SInv, CatalogOK, Rows
  <2>5. cats'[i] \in Rows /\ cats'[i].by = Nobody
    BY <2>3, <2>4 DEF Rows
  <2>6. \A j \in Ids \ {i} : cats'[j] = cats[j]
    BY <2>1 DEF SInv, CatalogOK
  <2>7. cats' \in [Ids -> Rows \cup {NoRow}]
    <3>1. \A j \in Ids : cats'[j] \in Rows \cup {NoRow}
      BY <2>5, <2>6 DEF SInv, CatalogOK
    <3>2. cats' = [j \in Ids |-> cats'[j]]
      BY <2>1 DEF SInv, CatalogOK
    <3>3. QED
      BY <3>1, <3>2
  <2>8. PendingIsSeeded'
    BY <2>5, <2>6 DEF SInv, PendingIsSeeded, Stored
  <2>9. QED
    BY <1>1, <2>1, <2>7, <2>8 DEF SInv, CatalogOK
<1>4. ASSUME NEW i \in known, PanelDelete(i)
      PROVE  SInv'
  <2>1. /\ cats' = [j \in Ids |-> IF j = i \/ cats[j] = NoRow THEN NoRow
                                  ELSE IF cats[j].parent = i THEN [cats[j] EXCEPT !.parent = NoId]
                                  ELSE cats[j]]
        /\ links' \subseteq links
    BY <1>4 DEF PanelDelete
  <2>2. ASSUME NEW j \in Ids
        PROVE  \/ cats'[j] = NoRow
               \/ /\ cats[j] # NoRow /\ cats'[j] \in Rows
                  /\ cats'[j].name = cats[j].name /\ cats'[j].by = cats[j].by
    <3>1. CASE cats'[j] # NoRow
      <4>1. PICK n \in Names, p \in Ids \cup {NoId}, b \in Servers \cup {Nobody} :
              cats[j] = [name |-> n, parent |-> p, by |-> b]
        BY <2>1, <3>1 DEF SInv, CatalogOK, Rows
      <4>2. cats'[j] \in {cats[j], [name |-> n, parent |-> NoId, by |-> b]}
        BY <2>1, <3>1, <4>1
      <4>3. QED
        BY <2>1, <3>1, <4>1, <4>2 DEF Rows
    <3>2. QED
      BY <3>1
  <2>3. cats' \in [Ids -> Rows \cup {NoRow}]
    <3>1. \A j \in Ids : cats'[j] \in Rows \cup {NoRow}
      BY <2>2
    <3>2. QED
      BY <2>1, <3>1
  <2>4. PendingIsSeeded'
    BY <2>2 DEF SInv, PendingIsSeeded, Stored
  <2>5. QED
    BY <1>1, <2>1, <2>3, <2>4 DEF SInv, CatalogOK
<1>5. QED
  BY <1>2, <1>3, <1>4 DEF Panel

\* A downgrade keeps the rows of a table or drops them all.
LEMMA MigrationInv ==
  ASSUME SInv, NEW to, Upgrade(to) \/ Downgrade(to)
  PROVE  SInv' /\ at' = at
<1>1. CASE Upgrade(to)
  BY <1>1 DEF Upgrade, seeding, catalog, SInv, CatalogOK, PendingIsSeeded, Stored
<1>2. CASE Downgrade(to)
  <2>1. cats' \in {cats, [i \in Ids |-> NoRow]} /\ links' \in {links, {}}
        /\ found' = found /\ at' = at
    BY <1>2 DEF Downgrade
  <2>2. QED
    BY <2>1 DEF SInv, CatalogOK, PendingIsSeeded, Stored
<1>3. QED
  BY <1>1, <1>2

-----------------------------------------------------------------------------
(* Theorems                                                                *)

LEMMA ServerAdds ==
  ASSUME SInv, NEW s \in Servers, Starts(s) \/ Seed(s) \/ Refused(s) \/ Fails(s) \/ Stops(s)
  PROVE  SInv' /\ OnlyAdds
<1>1. CASE Starts(s) \/ Stops(s)
  BY <1>1, NoRowsAdds DEF Starts, Stops, Boot, Stop, catalog, SInv, CatalogOK
<1>2. CASE Seed(s)
  BY <1>2, StatementAdds DEF Seed
<1>3. CASE Refused(s) \/ Fails(s)
  BY <1>3, RollbackAdds DEF Refused, Fails
<1>4. QED
  BY <1>1, <1>2, <1>3

LEMMA NextAdds ==
  ASSUME SInv, [Next]_vars
  PROVE  SInv' /\ (at' = at \/ OnlyAdds)
<1>1. ASSUME NEW s \in Servers, Starts(s) \/ Seed(s) \/ Refused(s) \/ Fails(s) \/ Stops(s)
      PROVE  SInv' /\ OnlyAdds
  BY <1>1, ServerAdds
<1>2. ASSUME NEW to, Upgrade(to) \/ Downgrade(to)
      PROVE  SInv' /\ at' = at
  BY <1>2, MigrationInv
<1>3. ASSUME NEW email \in Admins, SeedAdmin(email)
      PROVE  SInv' /\ at' = at
  BY <1>3 DEF SeedAdmin, seeding, catalog, SInv, CatalogOK, PendingIsSeeded, Stored
<1>4. CASE PanelEdit
  <2>1. at' = at
    BY <1>4 DEF PanelEdit, Panel, PanelCreate, PanelUpdate, PanelDelete, PanelEdits
  <2>2. QED
    BY <1>4, <2>1, PanelEditInv DEF PanelEdit
<1>5. CASE UNCHANGED vars
  BY <1>5 DEF vars, seeding, catalog, SInv, CatalogOK, PendingIsSeeded, Stored
<1>6. QED
  BY <1>1, <1>2, <1>3, <1>4, <1>5 DEF Next

LEMMA InitCatalog == Init => SInv
BY DEF Init, SeedingInit, SInv, CatalogOK, PendingIsSeeded, Stored

\* Whatever servers, panel and operator do, the rows of categories and
\* category_units are well formed, and only seeded names are ever pending.
THEOREM CatalogInvariance == Spec => []SInv
<1>1. SInv /\ [Next]_vars => SInv'
  BY NextAdds
<1>2. QED
  BY <1>1, InitCatalog, PTL DEF Spec

\* Starting a server is idempotent for what is there: it renames, moves and
\* removes nothing, and what it adds has a seeded name.
THEOREM StartsOnlyAdd == Spec => SeedersOnlyAdd
<1> DEFINE Adds(s) ==
      at'[s] # at[s] =>
        /\ \A i \in Ids : Settled(i) => cats'[i] = cats[i]
        /\ \A i \in Ids : Settled(i)' /\ ~Settled(i) => cats'[i].name \in SeedNames
        /\ {l \in links : l.by = Nobody} \subseteq links'
<1>1. SInv /\ [Next]_vars => [\A s \in Servers : Adds(s)]_vars
  BY NextAdds DEF OnlyAdds
<1>2. QED
  BY <1>1, CatalogInvariance, PTL DEF Spec, SeedersOnlyAdd

-----------------------------------------------------------------------------
(* The schema                                                              *)

\* The schema is that of the revision reached from nothing; the types of that
\* revision are there, and perhaps others; an account is there only from the
\* revision on that the admin seeder can insert at; and the type the last
\* revision creates is never dropped.
SchemaInv ==
  /\ revision \in 0..8
  /\ Agrees(revision, Database)
  /\ users \subseteq Admins /\ beenAtHead \in BOOLEAN
  /\ users # {} => revision >= 3
  /\ beenAtHead => "unit_type" \in types

LEMMA UnitTypeAtHead ==
  ASSUME Fresh(8).ok
  PROVE  "unit_type" \in Fresh(8).db.types
<1>1. Fresh(8).db = Upgraded(Chain[8], Fresh(7).db)
  BY FreshTables
<1>2. QED
  BY <1>1, ChainIs, AddUnitsIs DEF Upgraded

LEMMA UpgradeSchema ==
  ASSUME SchemaInv, NEW to \in 0..8, Upgrade(to)
  PROVE  /\ SchemaInv' /\ users' = users
         /\ beenAtHead /\ revision < 8 => revision' < 8
<1> DEFINE result == Upgrading(Database, revision, to)
<1>1. /\ revision \in 0..8 /\ to \in revision..8 /\ revision < to /\ result.ok /\ revision' = to
      /\ schema' = result.db.schema /\ types' = result.db.types
      /\ Agrees(revision, Database)
  BY DEF SchemaInv, Upgrade, UpgradeTo, Becomes
<1>2. /\ Agrees(to, result.db) /\ types \subseteq result.db.types
      /\ to = 8 => "unit_type" \notin types
  BY <1>1, UpgradingAgrees DEF Database
<1> HIDE DEF result
<1>3. Agrees(to, result.db) <=> Agrees(to, [schema |-> schema', types |-> types'])
  BY <1>1 DEF Agrees
<1>4. Agrees(revision, Database)'
  BY <1>1, <1>2, <1>3 DEF Database, Agrees
<1>5. beenAtHead' = (beenAtHead \/ to = 8) /\ users' = users
  BY ChainLength DEF Upgrade
<1>6. to = 8 => "unit_type" \in types'
  BY <1>1, <1>2, UnitTypeAtHead DEF Agrees
<1>7. QED
  BY <1>1, <1>2, <1>4, <1>5, <1>6 DEF SchemaInv

LEMMA DowngradeSchema ==
  ASSUME SchemaInv, NEW to \in 0..8, Downgrade(to)
  PROVE  SchemaInv' /\ users \subseteq users' /\ revision' < 8
<1> DEFINE result == Downgrading(Database, revision, to, Populated)
<1>1. /\ revision \in 0..8 /\ to \in 0..revision /\ to < revision /\ result.ok /\ revision' = to
      /\ schema' = result.db.schema /\ types' = result.db.types
      /\ Agrees(revision, Database)
  BY DEF SchemaInv, Downgrade, DowngradeTo, Becomes
<1>2. /\ Agrees(to, result.db) /\ types = result.db.types
      /\ revision >= 3 /\ "users" \in Populated => to >= 3
  BY <1>1, DowngradingAgrees DEF Database
<1> HIDE DEF result
<1>3. Agrees(revision, Database)'
  BY <1>1, <1>2 DEF Database, Agrees
<1>4. users # {} => to >= 3
  BY <1>2 DEF SchemaInv, Populated
<1>5. "users" \in DOMAIN schema' <=> to >= 1
  BY <1>1, <1>2, TablesAt DEF Agrees
<1>6. users' = IF "users" \in DOMAIN schema' THEN users ELSE {}
  BY DEF Downgrade
<1>7. users' = users
  BY <1>1, <1>4, <1>5, <1>6
<1>8. QED
  BY <1>1, <1>2, <1>3, <1>4, <1>7 DEF SchemaInv, Downgrade

LEMMA SeedAdminSchema ==
  ASSUME SchemaInv, NEW email \in Admins, SeedAdmin(email)
  PROVE  SchemaInv' /\ users \subseteq users' /\ revision' = revision
<1>1. Fresh(revision).ok /\ schema = Fresh(revision).db.schema /\ revision \in 0..8
  BY DEF SchemaInv, Agrees, Database
<1>2. "users" \in DOMAIN schema /\ schema["users"].required \subseteq UserModels["users"].required
  BY DEF SeedAdmin, HasTables
<1>3. revision >= 1
  BY <1>1, <1>2, TablesAt
<1>4. revision \notin {1, 2}
  BY <1>1, <1>2, TierAtFirst
<1>5. UNCHANGED <<revision, schema, types, beenAtHead>> /\ users' = users \cup {email}
  BY DEF SeedAdmin, migrations
<1>6. revision >= 3
  BY <1>1, <1>3, <1>4
<1>7. QED
  BY <1>5, <1>6 DEF SchemaInv, Agrees, Database

LEMMA NextSchema ==
  ASSUME SchemaInv, [Next]_vars
  PROVE  /\ SchemaInv' /\ users \subseteq users'
         /\ beenAtHead /\ revision < 8 => revision' < 8
<1>1. ASSUME NEW to \in BaseRevision..HeadRevision, Upgrade(to) \/ Downgrade(to)
      PROVE  /\ SchemaInv' /\ users \subseteq users'
             /\ beenAtHead /\ revision < 8 => revision' < 8
  BY <1>1, ChainLength, UpgradeSchema, DowngradeSchema
<1>2. ASSUME NEW email \in Admins, SeedAdmin(email)
      PROVE  /\ SchemaInv' /\ users \subseteq users'
             /\ beenAtHead /\ revision < 8 => revision' < 8
  BY <1>2, SeedAdminSchema
<1>3. CASE UNCHANGED <<migrations, users, beenAtHead>>
  BY <1>3 DEF migrations, SchemaInv, Agrees, Database
<1>4. ASSUME NEW s \in Servers, Starts(s) \/ Seed(s) \/ Refused(s) \/ Fails(s) \/ Stops(s)
      PROVE  UNCHANGED <<migrations, users, beenAtHead>>
  BY <1>4 DEF Starts, Seed, Refused, Fails, Stops
<1>5. CASE PanelEdit
  BY <1>3, <1>5 DEF PanelEdit
<1>6. CASE UNCHANGED vars
  BY <1>3, <1>6 DEF vars
<1>7. QED
  BY <1>1, <1>2, <1>3, <1>4, <1>5, <1>6 DEF Next

LEMMA InitSchema == Init => SchemaInv
<1> SUFFICES ASSUME Init PROVE SchemaInv
  OBVIOUS
<1>1. revision = 0 /\ schema = <<>> /\ types = {} /\ users = {} /\ beenAtHead = FALSE
  BY ChainLength DEF Init, MigrationsInit
<1>2. Fresh(0).ok /\ Fresh(0).db = Empty
  BY FreshSteps DEF Done
<1>3. Agrees(revision, Database)
  <2>1. Database = Empty
    BY <1>1 DEF Database, Empty
  <2>2. QED
    BY <1>1, <1>2, <2>1 DEF Agrees
<1>4. revision \in 0..8 /\ users \subseteq Admins
  BY <1>1
<1>5. beenAtHead \in BOOLEAN /\ (beenAtHead => "unit_type" \in types) /\ users = {}
  BY <1>1, Zenon
<1>6. QED
  BY <1>3, <1>4, <1>5 DEF SchemaInv

LEMMA SchemaInvariance == Spec => []SchemaInv
<1>1. SchemaInv /\ [Next]_vars => SchemaInv'
  BY NextSchema
<1>2. QED
  BY <1>1, InitSchema, PTL DEF Spec

\* Every sequence of upgrades and downgrades that succeed leaves exactly the
\* tables of its last revision, with the columns and keys they have when the
\* chain is run once on an empty database.
THEOREM SchemaIsOfRevision == Spec => []SchemaFollowsRevision
<1>1. SchemaInv => SchemaFollowsRevision
  <2>1. FreshSchema = [r \in 0..8 |-> Fresh(r).db.schema]
    BY ChainLength DEF FreshSchema, Fresh, Empty
  <2>2. QED
    BY <2>1 DEF SchemaInv, SchemaFollowsRevision, Agrees, Database
<1>2. QED
  BY <1>1, SchemaInvariance, PTL

\* However the head is reached, the tables there fit the models, column by
\* column and key by key, with one exception that no revision of the chain
\* repairs: there is no table for AIUsageLog.
THEOREM ModelsFitHead == Spec => []HeadLacksUsageLogsOnly
<1>1. SchemaInv => HeadLacksUsageLogsOnly
  <2>1. SUFFICES ASSUME SchemaInv, revision = HeadRevision,
                        NEW models \in Metadata, NEW t \in DOMAIN models
                 PROVE  /\ t \in DOMAIN schema <=> t # "ai_usage_logs"
                        /\ t \in DOMAIN schema => schema[t] = models[t]
    BY DEF HeadLacksUsageLogsOnly
  <2>2. Fresh(8).ok /\ schema = Fresh(8).db.schema
    BY <2>1, ChainLength DEF SchemaInv, Agrees, Database
  <2>3. QED
    BY <2>1, <2>2, ModelsMapped DEF Mapped
<1>2. QED
  BY <1>1, SchemaInvariance, PTL

\* No account is lost to a migration: with a row in users the way down is
\* barred before the table is reached.
THEOREM AccountsSurvive == Spec => AccountsAreKept
<1>1. SchemaInv /\ [Next]_vars => [users \subseteq users']_vars
  BY NextSchema
<1>2. QED
  BY <1>1, SchemaInvariance, PTL DEF Spec, AccountsAreKept

\* Leaving the head is final: the type unit_type outlives every downgrade, and
\* the last upgrade refuses a database that has it.
THEOREM HeadIsLeftOnce == Spec => HeadIsLeftForGood
<1>1. SchemaInv /\ [Next]_vars =>
        [beenAtHead /\ revision < HeadRevision => revision' < HeadRevision]_vars
  BY NextSchema, ChainLength
<1>2. QED
  BY <1>1, SchemaInvariance, PTL DEF Spec, HeadIsLeftForGood

-----------------------------------------------------------------------------
(* Rows that refer to each other                                           *)

Size == Len(UnitScript \o CategoryScript \o LinkScript)

\* A server past its first statement has inserted units, and keeps them.
Begun(s) == at[s] \in 2..CommitAt(s)

ServersOK ==
  /\ at \in [Servers -> 0..(Size + 2)] /\ edits \in 0..MaxEdits
  /\ units \in [UnitNames -> Servers \cup {NoRow, Nobody}]

KeyUnique == \A i, j \in Stored : cats[i].name = cats[j].name => i = j

\* What a row refers to is there, and has been committed or is pending with it.
ParentsThere ==
  \A j \in Stored : cats[j].parent # NoId =>
    cats[j].parent \in Stored /\ cats[cats[j].parent].by \in {Nobody, cats[j].by}

LinksThere ==
  \A l \in links :
    /\ l.category \in Stored /\ cats[l.category].by \in {Nobody, l.by}
    /\ units[l.unit] \in {Nobody, l.by}

\* A category a statement has selected is one its server reads, until the
\* panel deletes it; and so is the unit of a link.
FoundSeen ==
  \A s \in Servers : found[s] # NoId =>
    /\ On(s, {"child", "link"})
    /\ found[s] \in Stored => Sees(s, cats[found[s]].by)
    /\ On(s, {"link"}) => Sees(s, units[This(s).name])

BegunAtHead == \A s \in Servers : Begun(s) => revision = 8

RowsOK == KeyUnique /\ ParentsThere /\ LinksThere /\ FoundSeen

RInv == SInv /\ SchemaInv /\ ServersOK /\ RowsOK /\ BegunAtHead

LEMMA ScriptIs ==
  ASSUME NEW s
  PROVE  /\ Len(Script(s)) = Size /\ Size \in Nat \ {0}
         /\ Script(s)[1].kind = "unit"
         /\ CommitAt(s) = Size + 1 /\ Serving(s) = Size + 2
<1>1. /\ UnitScript \in Seq(Kinds) /\ CategoryScript \in Seq(Kinds) /\ LinkScript \in Seq(Kinds)
  BY UnitScriptType, ParentScriptType, ChildScriptType, LinkScriptType DEF CategoryScript
<1>2. Len(UnitScript) = Len(UnitSeeds) /\ Len(UnitSeeds) \in Nat \ {0}
      /\ UnitScript[1].kind = "unit"
  <2>1. UnitSeeds \in Seq(UnitNames) /\ UnitSeeds # <<>>
    BY SeedingAssumption DEF UnitNames
  <2>2. UnitScript = [k \in 1..Len(UnitSeeds) |->
                       [kind |-> "unit", name |-> UnitSeeds[k], of |-> UnitSeeds[k]]]
    BY <2>1 DEF UnitScript, Statements, Whole
  <2>3. Len(UnitSeeds) \in Nat \ {0}
    BY <2>1
  <2>4. QED
    BY <1>1, <2>2, <2>3
<1> DEFINE rest == UnitScript \o CategoryScript
<1>3. rest \in Seq(Kinds) /\ Len(rest) = Len(UnitScript) + Len(CategoryScript)
      /\ rest[1] = UnitScript[1]
  BY <1>1, <1>2
<1> HIDE DEF rest
<1>4. /\ rest \o LinkScript \in Seq(Kinds)
      /\ Len(rest \o LinkScript) = Len(rest) + Len(LinkScript)
      /\ (rest \o LinkScript)[1] = rest[1]
  <2>1. Len(rest) \in Nat /\ Len(rest) >= 1 /\ Len(LinkScript) \in Nat
    BY <1>1, <1>2, <1>3
  <2>2. /\ rest \o LinkScript \in Seq(Kinds)
        /\ Len(rest \o LinkScript) = Len(rest) + Len(LinkScript)
    BY <1>1, <1>3
  <2>3. (rest \o LinkScript)[1] = rest[1]
    <3>1. rest \in Seq(Kinds) /\ LinkScript \in Seq(Kinds)
      BY <1>1, <1>3
    <3>2. \A k \in 1..Len(rest) : (rest \o LinkScript)[k] = rest[k]
      BY <2>1, <3>1
    <3>3. QED
      BY <2>1, <3>2
  <2>4. QED
    BY <2>2, <2>3
<1>5. Len(rest) \in Nat /\ Len(rest) >= 1 /\ Len(LinkScript) \in Nat
  BY <1>1, <1>2, <1>3
<1>6. Script(s) = rest \o LinkScript /\ Size = Len(rest \o LinkScript)
  BY DEF Script, Size, rest
<1>7. Len(Script(s)) = Size /\ Size \in Nat \ {0} /\ Script(s)[1].kind = "unit"
  BY <1>2, <1>3, <1>4, <1>5, <1>6
<1>8. QED
  BY <1>7 DEF CommitAt, Serving

\* Its first statement has locked units.
LEMMA BegunTouches ==
  ASSUME NEW s \in Servers, Begun(s)
  PROVE  "units" \in Touched(s)
<1>1. SeedingNow(s) /\ 1 \in 1..(at[s] - 1)
  BY ScriptIs DEF Begun, SeedingNow
<1>2. Script(s)[1].kind = "unit"
  BY ScriptIs
<1>3. QED
  BY <1>1, <1>2 DEF Touched

\* A new category with a name that is not taken, whose parent its writer reads.
LEMMA NewRow ==
  ASSUME RInv, NEW row \in Rows, Unseen # {}, cats' = [cats EXCEPT ![NewId] = row],
         ~NameTaken(row.name),
         row.parent # NoId => row.parent \in Stored /\ cats[row.parent].by \in {Nobody, row.by}
  PROVE  /\ KeyUnique' /\ ParentsThere'
         /\ \A i \in Stored : i \in Stored' /\ cats'[i] = cats[i]
         /\ \A s \in Servers : found[s] \in Stored' => found[s] \in Stored
<1>1. NewId \in Ids /\ NewId \notin Stored
  BY NewIdIsNew
<1>2. \A i \in Ids : cats'[i] = IF i = NewId THEN row ELSE cats[i]
  BY DEF RInv, SInv, CatalogOK
<1>3. Stored' = Stored \cup {NewId}
  BY <1>1, <1>2, RowsAssumption DEF Stored
<1>4. \A i \in Stored : i # NewId /\ cats'[i] = cats[i] /\ i \in Ids
  BY <1>1, <1>2 DEF Stored
<1>5. cats'[NewId] = row
  BY <1>1, <1>2
<1>6. KeyUnique'
  BY <1>3, <1>4, <1>5 DEF RInv, RowsOK, KeyUnique, NameTaken
<1>7. ParentsThere'
  BY <1>3, <1>4, <1>5 DEF RInv, RowsOK, ParentsThere
<1>8. \A s \in Servers : found[s] # NewId
  BY DEF Unseen, NewId
<1>9. QED
  BY <1>3, <1>4, <1>6, <1>7, <1>8

\* Servers whose statement goes on where it was find what they have selected.
LEMMA FoundKept ==
  ASSUME RInv,
         \A i \in Stored' : i \in {found[s] : s \in Servers} =>
           i \in Stored /\ cats'[i].by \in {cats[i].by, Nobody},
         \A s \in Servers : found'[s] # NoId =>
           /\ found'[s] = found[s] /\ at'[s] = at[s]
           /\ \A u \in UnitNames : Sees(s, units[u]) => Sees(s, units'[u])
  PROVE  FoundSeen'
<1> SUFFICES ASSUME NEW s \in Servers, found'[s] # NoId
             PROVE  /\ On(s, {"child", "link"})'
                    /\ found'[s] \in Stored' => Sees(s, cats'[found'[s]].by)
                    /\ On(s, {"link"})' => Sees(s, units'[This(s).name'])
  BY DEF FoundSeen, Sees
<1>1. found'[s] = found[s] /\ at'[s] = at[s] /\ found[s] # NoId
  OBVIOUS
<1>2. On(s, {"child", "link"})' /\ (On(s, {"link"})' <=> On(s, {"link"}))
      /\ This(s)' = This(s)
  BY <1>1 DEF On, This, RInv, RowsOK, FoundSeen, Script
<1>3. found'[s] \in Stored' => Sees(s, cats'[found'[s]].by)
  BY <1>1 DEF RInv, RowsOK, FoundSeen, Sees
<1>4. On(s, {"link"}) => This(s).name \in UnitNames
  BY StatementNames
<1>5. On(s, {"link"}) => Sees(s, units'[This(s).name])
  BY <1>1, <1>4 DEF RInv, RowsOK, FoundSeen
<1>6. QED
  BY <1>2, <1>3, <1>5

-----------------------------------------------------------------------------
(* One statement                                                           *)

LEMMA UnitStatement ==
  ASSUME NEW s \in Servers, On(s, {"unit"})
  PROVE  This(s).name \in UnitNames
<1>1. at[s] \in 1..Len(Script(s)) => This(s) \in Kinds
  BY ScriptType DEF This
<1>2. QED
  BY <1>1 DEF On, This, Kinds

LEMMA Advances ==
  ASSUME RInv, NEW s \in Servers, Advance(s), at[s] \in 1..CommitAt(s)
  PROVE  /\ at' \in [Servers -> 0..(Size + 2)] /\ edits' = edits
         /\ at'[s] = at[s] + 1 /\ found'[s] = NoId
         /\ \A q \in Servers \ {s} : at'[q] = at[q] /\ found'[q] = found[q]
<1>1. at \in [Servers -> 0..(Size + 2)] /\ found \in [Servers -> Ids \cup {NoId}]
  BY DEF RInv, ServersOK, SInv, CatalogOK
<1>2. at[s] + 1 \in 0..(Size + 2)
  BY ScriptIs
<1>3. QED
  BY <1>1, <1>2 DEF Advance

\* One that reads a unit reads it after another has inserted one.
LEMMA NoRowUnseen ==
  ASSUME NEW s \in Servers
  PROVE  ~Sees(s, NoRow)
BY RowsAssumption DEF Sees

LEMMA UnitRows ==
  ASSUME RInv, NEW s \in Servers, SeedUnit(s)
  PROVE  ServersOK' /\ RowsOK'
<1> DEFINE u == This(s).name
<1>1. /\ u \in UnitNames /\ at[s] \in 1..CommitAt(s)
      /\ cats' = cats /\ links' = links /\ Advance(s)
      /\ units' = IF units[u] = NoRow THEN [units EXCEPT ![u] = s] ELSE units
  BY UnitStatement, ScriptIs DEF SeedUnit, On
<1>2. units \in [UnitNames -> Servers \cup {NoRow, Nobody}]
  BY DEF RInv, ServersOK
<1> HIDE DEF u
<1>3. units' \in [UnitNames -> Servers \cup {NoRow, Nobody}]
  BY <1>1, <1>2
<1>4. \A v \in UnitNames : units[v] # NoRow => units'[v] = units[v]
  BY <1>1, <1>2
<1>5. ServersOK'
  BY <1>1, <1>3, Advances DEF RInv, ServersOK
<1>6. KeyUnique' /\ ParentsThere'
  BY <1>1 DEF RInv, RowsOK, KeyUnique, ParentsThere, Stored
<1>7. LinksThere'
  <2>1. \A l \in links : units'[l.unit] = units[l.unit]
    BY <1>4, RowsAssumption DEF RInv, SInv, CatalogOK, LinkRows, RowsOK, LinksThere
  <2>2. QED
    BY <1>1, <2>1 DEF RInv, RowsOK, LinksThere, Stored
<1>8. FoundSeen'
  <2>1. \A q \in Servers : found'[q] # NoId =>
          /\ found'[q] = found[q] /\ at'[q] = at[q]
          /\ \A v \in UnitNames : Sees(q, units[v]) => Sees(q, units'[v])
    BY <1>1, <1>4, Advances, NoRowUnseen
  <2>2. \A i \in Stored' : i \in Stored /\ cats'[i].by \in {cats[i].by, Nobody}
    BY <1>1 DEF Stored
  <2>3. QED
    BY <2>1, <2>2, FoundKept
<1>9. QED
  BY <1>5, <1>6, <1>7, <1>8 DEF RowsOK

\* An insert of a category, with no parent or one the server reads.
LEMMA InsertRows ==
  ASSUME RInv, NEW s \in Servers, NEW name \in SeedNames, NEW parent \in Ids \cup {NoId},
         InsertCategory(s, name, parent),
         parent # NoId => NameTaken(name) \/ (parent \in Stored /\ Sees(s, cats[parent].by)),
         Advance(s), at[s] \in 1..CommitAt(s), UNCHANGED <<units, links>>
  PROVE  ServersOK' /\ RowsOK'
<1>1. /\ KeyUnique' /\ ParentsThere'
      /\ \A i \in Stored : i \in Stored' /\ cats'[i] = cats[i]
      /\ \A q \in Servers : found[q] \in Stored' => found[q] \in Stored
  <2>1. CASE NameTaken(name) /\ UNCHANGED cats
    BY <2>1 DEF RInv, RowsOK, KeyUnique, ParentsThere, Stored
  <2>2. CASE /\ ~NameTaken(name) /\ Unseen # {}
             /\ cats' = [cats EXCEPT ![NewId] = [name |-> name, parent |-> parent, by |-> s]]
    <3> DEFINE row == [name |-> name, parent |-> parent, by |-> s]
    <3>1. row \in Rows /\ row.name = name /\ row.parent = parent /\ row.by = s
      BY DEF Rows, Names
    <3>2. parent # NoId => parent \in Stored /\ cats[parent].by \in {Nobody, s}
      BY <2>2 DEF Sees
    <3> HIDE DEF row
    <3>3. cats' = [cats EXCEPT ![NewId] = row]
      BY <2>2 DEF row
    <3>4. QED
      BY <2>2, <3>1, <3>2, <3>3, NewRow
  <2>3. QED
    BY <2>1, <2>2 DEF InsertCategory
<1>2. ServersOK'
  BY Advances DEF RInv, ServersOK
<1>3. LinksThere'
  BY <1>1 DEF RInv, RowsOK, LinksThere
<1>4. FoundSeen'
  <2>1. \A q \in Servers : found'[q] # NoId =>
          /\ found'[q] = found[q] /\ at'[q] = at[q]
          /\ \A v \in UnitNames : Sees(q, units[v]) => Sees(q, units'[v])
    BY Advances
  <2>2. \A i \in Stored' : i \in {found[q] : q \in Servers} =>
          i \in Stored /\ cats'[i].by \in {cats[i].by, Nobody}
    BY <1>1
  <2>3. QED
    BY <2>1, <2>2, FoundKept
<1>5. QED
  BY <1>1, <1>2, <1>3, <1>4 DEF RowsOK

LEMMA ParentRows ==
  ASSUME RInv, NEW s \in Servers, SeedParent(s)
  PROVE  ServersOK' /\ RowsOK'
<1>1. This(s).name \in SeedNames /\ InsertCategory(s, This(s).name, NoId) /\ Advance(s)
      /\ at[s] \in 1..CommitAt(s) /\ UNCHANGED <<units, links>>
  BY StatementNames, ScriptIs DEF SeedParent, On
<1>2. QED
  BY <1>1, InsertRows

LEMMA ChildRows ==
  ASSUME RInv, NEW s \in Servers, SeedChild(s)
  PROVE  ServersOK' /\ RowsOK'
<1>1. This(s).name \in SeedNames /\ InsertCategory(s, This(s).name, found[s]) /\ Advance(s)
      /\ at[s] \in 1..CommitAt(s) /\ UNCHANGED <<units, links>>
  BY StatementNames, ScriptIs DEF SeedChild, On
<1>2. found[s] \in Ids /\ found[s] # NoId
  BY DEF SeedChild, RInv, SInv, CatalogOK
<1>3. NameTaken(This(s).name) \/ (found[s] \in Stored /\ Sees(s, cats[found[s]].by))
  BY <1>2 DEF SeedChild, RInv, RowsOK, FoundSeen
<1>4. QED
  BY <1>1, <1>2, <1>3, InsertRows

LEMMA FindRows ==
  ASSUME RInv, NEW s \in Servers, FindCategory(s)
  PROVE  ServersOK' /\ RowsOK'
<1> DEFINE UnitSeen == units[This(s).name] # NoRow /\ Sees(s, units[This(s).name])
           ids == {i \in Visible(s, This(s).of) : On(s, {"link"}) => UnitSeen}
<1>1. UNCHANGED <<units, cats, links>> /\ On(s, {"child", "link"}) /\ at[s] \in 1..CommitAt(s)
  BY ScriptIs DEF FindCategory, catalog, On
<1>2. KeyUnique' /\ ParentsThere' /\ LinksThere'
  BY <1>1 DEF RInv, RowsOK, KeyUnique, ParentsThere, LinksThere, Stored
<1>3. Stored' = Stored
  BY <1>1 DEF Stored
<1>4. CASE Advance(s)
  <2>1. ServersOK'
    BY <1>1, <1>4, Advances DEF RInv, ServersOK
  <2>2. \A q \in Servers : found'[q] # NoId =>
          /\ found'[q] = found[q] /\ at'[q] = at[q]
          /\ \A v \in UnitNames : Sees(q, units[v]) => Sees(q, units'[v])
    BY <1>1, <1>4, Advances
  <2>3. FoundSeen'
    BY <1>1, <1>3, <2>2, FoundKept
  <2>4. QED
    BY <1>2, <2>1, <2>3 DEF RowsOK
<1>5. CASE /\ ids # {} /\ found' = [found EXCEPT ![s] = CHOOSE i \in ids : TRUE]
           /\ UNCHANGED <<at, edits>>
  <2>1. ServersOK'
    BY <1>1, <1>5 DEF RInv, ServersOK
  <2> DEFINE i == CHOOSE j \in ids : TRUE
  <2>2. i \in ids
    BY <1>5
  <2> HIDE DEF i
  <2>3. i \in Stored /\ Sees(s, cats[i].by) /\ (On(s, {"link"}) => Sees(s, units[This(s).name]))
    BY <2>2 DEF Visible
  <2>4. found' = [found EXCEPT ![s] = i]
    BY <1>5 DEF i
  <2>5. found'[s] = i /\ \A q \in Servers \ {s} : found'[q] = found[q]
    BY <2>4 DEF RInv, SInv, CatalogOK
  <2>6. ASSUME NEW q \in Servers, found'[q] # NoId
        PROVE  /\ On(q, {"child", "link"})
               /\ found'[q] \in Stored => Sees(q, cats[found'[q]].by)
               /\ On(q, {"link"}) => Sees(q, units[This(q).name])
    BY <1>1, <2>3, <2>5, <2>6 DEF RInv, RowsOK, FoundSeen
  <2>7. FoundSeen'
    BY <1>1, <1>3, <1>5, <2>6 DEF FoundSeen, On, This, Sees, Script
  <2>8. QED
    BY <1>2, <2>1, <2>7 DEF RowsOK
<1>6. QED
  BY <1>4, <1>5 DEF FindCategory

LEMMA LinkRowsKept ==
  ASSUME RInv, NEW s \in Servers, SeedLink(s)
  PROVE  ServersOK' /\ RowsOK'
<1> DEFINE u == This(s).name
           l0 == [category |-> found[s], unit |-> u, by |-> s]
<1>1. /\ u \in UnitNames /\ On(s, {"link"}) /\ found[s] # NoId /\ Advance(s)
      /\ at[s] \in 1..CommitAt(s) /\ UNCHANGED <<units, cats>>
  BY StatementNames, ScriptIs DEF SeedLink, On
<1>2. /\ Sees(s, units[u]) /\ units[u] # NoRow
      /\ found[s] \in Stored => Sees(s, cats[found[s]].by)
  BY <1>1, NoRowUnseen DEF RInv, RowsOK, FoundSeen
<1>3. \/ links' = links
      \/ links' = links \cup {l0} /\ found[s] \in Stored
  BY DEF SeedLink
<1>4. Stored' = Stored /\ KeyUnique' /\ ParentsThere'
  BY <1>1 DEF RInv, RowsOK, KeyUnique, ParentsThere, Stored
<1>5. LinksThere'
  <2>1. ASSUME NEW l \in links
        PROVE  /\ l.category \in Stored /\ cats[l.category].by \in {Nobody, l.by}
               /\ units[l.unit] \in {Nobody, l.by}
    BY DEF RInv, RowsOK, LinksThere
  <2>2. found[s] \in Stored =>
          /\ l0.category \in Stored /\ cats[l0.category].by \in {Nobody, l0.by}
          /\ units[l0.unit] \in {Nobody, l0.by}
    BY <1>2 DEF Sees
  <2> HIDE DEF l0, u
  <2>3. QED
    BY <1>1, <1>3, <1>4, <2>1, <2>2 DEF LinksThere
<1>6. ServersOK'
  BY <1>1, Advances DEF RInv, ServersOK
<1>7. FoundSeen'
  <2>1. \A q \in Servers : found'[q] # NoId =>
          /\ found'[q] = found[q] /\ at'[q] = at[q]
          /\ \A v \in UnitNames : Sees(q, units[v]) => Sees(q, units'[v])
    BY <1>1, Advances
  <2>2. \A i \in Stored' : i \in Stored /\ cats'[i].by \in {cats[i].by, Nobody}
    BY <1>1, <1>4
  <2>3. QED
    BY <2>1, <2>2, FoundKept
<1>8. QED
  BY <1>4, <1>5, <1>6, <1>7 DEF RowsOK

\* A commit turns the rows of s into rows of nobody, and keeps what they say.
LEMMA CommitRows ==
  ASSUME RInv, NEW s \in Servers, SeedCommit(s)
  PROVE  ServersOK' /\ RowsOK'
<1>1. Advance(s) /\ at[s] \in 1..CommitAt(s)
  BY ScriptIs DEF SeedCommit
<1>2. units \in [UnitNames -> Servers \cup {NoRow, Nobody}]
  BY DEF RInv, ServersOK
<1>3. /\ units' \in [UnitNames -> Servers \cup {NoRow, Nobody}]
      /\ \A u \in UnitNames : units'[u] \in {units[u], Nobody}
      /\ \A u \in UnitNames : units'[u] = Committed(s, units[u])
  BY <1>2 DEF SeedCommit, Committed
<1>4. Stored' = Stored
  <2>1. \A i \in Ids : cats'[i] = NoRow <=> cats[i] = NoRow
    <3> TAKE i \in Ids
    <3>1. CASE cats[i] = NoRow
      BY <3>1 DEF SeedCommit
    <3>2. CASE cats[i] # NoRow
      <4>1. PICK n \in Names, p \in Ids \cup {NoId}, b \in Servers \cup {Nobody} :
              cats[i] = [name |-> n, parent |-> p, by |-> b]
        BY <3>2 DEF RInv, SInv, CatalogOK, Rows
      <4>2. cats'[i] = [name |-> n, parent |-> p, by |-> Committed(s, b)]
        BY <3>2, <4>1 DEF SeedCommit
      <4>3. cats'[i] \in Rows
        BY <4>2 DEF Rows, Committed
      <4>4. QED
        BY <3>2, <4>3, RowsAssumption
    <3>3. QED
      BY <3>1, <3>2
  <2>2. QED
    BY <2>1 DEF Stored
<1>5. \A i \in Stored : /\ cats'[i].name = cats[i].name /\ cats'[i].parent = cats[i].parent
                        /\ cats'[i].by = Committed(s, cats[i].by)
  <2> TAKE i \in Stored
  <2>1. PICK n \in Names, p \in Ids \cup {NoId}, b \in Servers \cup {Nobody} :
          cats[i] = [name |-> n, parent |-> p, by |-> b]
    BY DEF RInv, SInv, CatalogOK, Stored, Rows
  <2>2. cats'[i] = [name |-> n, parent |-> p, by |-> Committed(s, b)]
    BY <2>1 DEF SeedCommit, Stored
  <2>3. QED
    BY <2>1, <2>2
<1>6. \A l \in links' : \E m \in links :
        l.category = m.category /\ l.unit = m.unit /\ l.by = Committed(s, m.by)
  <2> TAKE l \in links'
  <2>1. PICK m \in links : l = [m EXCEPT !.by = Committed(s, @)]
    BY DEF SeedCommit
  <2>2. PICK c \in Ids, u \in UnitNames, b \in Servers \cup {Nobody} :
          m = [category |-> c, unit |-> u, by |-> b]
    BY DEF RInv, SInv, CatalogOK, LinkRows
  <2>3. l = [category |-> c, unit |-> u, by |-> Committed(s, b)]
    BY <2>1, <2>2
  <2>4. QED
    BY <2>2, <2>3
<1>7. KeyUnique'
  BY <1>4, <1>5 DEF RInv, RowsOK, KeyUnique
<1>8. ParentsThere'
  BY <1>4, <1>5 DEF RInv, RowsOK, ParentsThere, Committed
<1>9. LinksThere'
  <2> SUFFICES ASSUME NEW l \in links'
               PROVE  /\ l.category \in Stored' /\ cats'[l.category].by \in {Nobody, l.by}
                      /\ units'[l.unit] \in {Nobody, l.by}
    BY DEF LinksThere
  <2>1. PICK m \in links :
          l.category = m.category /\ l.unit = m.unit /\ l.by = Committed(s, m.by)
    BY <1>6
  <2>2. /\ m.category \in Stored /\ cats[m.category].by \in {Nobody, m.by}
        /\ units[m.unit] \in {Nobody, m.by} /\ m.unit \in UnitNames
    BY DEF RInv, RowsOK, LinksThere, SInv, CatalogOK, LinkRows
  <2>3. QED
    BY <1>3, <1>4, <1>5, <2>1, <2>2 DEF Committed
<1>10. ServersOK'
  BY <1>1, <1>3, Advances DEF RInv, ServersOK
<1>11. FoundSeen'
  <2>1. \A q \in Servers : found'[q] # NoId =>
          /\ found'[q] = found[q] /\ at'[q] = at[q]
          /\ \A v \in UnitNames : Sees(q, units[v]) => Sees(q, units'[v])
    BY <1>1, <1>3, Advances DEF Sees
  <2>2. \A i \in Stored' : i \in Stored /\ cats'[i].by \in {cats[i].by, Nobody}
    BY <1>4, <1>5 DEF Committed
  <2>3. QED
    BY <2>1, <2>2, FoundKept
<1>12. QED
  BY <1>7, <1>8, <1>9, <1>10, <1>11 DEF RowsOK

\* A rollback takes the rows of s away, and nothing that others have refers to
\* one of them.
LEMMA FailRows ==
  ASSUME RInv, NEW s \in Servers, SeedFails(s)
  PROVE  ServersOK' /\ RowsOK'
<1>1. /\ units' = [u \in UnitNames |-> IF units[u] = s THEN NoRow ELSE units[u]]
      /\ \A i \in Ids : cats'[i] = IF cats[i] # NoRow /\ cats[i].by = s THEN NoRow ELSE cats[i]
      /\ links' = {l \in links : l.by # s}
      /\ at' = [at EXCEPT ![s] = 0] /\ found' = [found EXCEPT ![s] = NoId] /\ edits' = edits
  BY DEF SeedFails, Rollback, Down
<1>2. \A i \in Ids : i \in Stored' <=> i \in Stored /\ cats[i].by # s
  BY <1>1 DEF Stored
<1>3. \A i \in Stored' : i \in Stored /\ cats'[i] = cats[i] /\ cats[i].by # s
  <2>1. \A i \in Stored' : i \in Ids
    BY DEF Stored
  <2>2. QED
    BY <1>1, <1>2, <2>1
<1>4. \A i \in Stored : i \in Ids /\ (cats[i].by # s => i \in Stored')
  BY <1>2 DEF Stored
<1>5. s # Nobody /\ NoRow # s
  BY SeedingAssumption, RowsAssumption
<1>6. KeyUnique'
  BY <1>3 DEF RInv, RowsOK, KeyUnique
<1>7. ParentsThere'
  BY <1>3, <1>4, <1>5 DEF RInv, RowsOK, ParentsThere
<1>8. \A u \in UnitNames : units[u] # s => units'[u] = units[u]
  BY <1>1
<1>9. LinksThere'
  <2> SUFFICES ASSUME NEW l \in links'
               PROVE  /\ l.category \in Stored' /\ cats'[l.category].by \in {Nobody, l.by}
                      /\ units'[l.unit] \in {Nobody, l.by}
    BY DEF LinksThere
  <2>1. l \in links /\ l.by # s
    BY <1>1
  <2>2. /\ l.category \in Stored /\ cats[l.category].by \in {Nobody, l.by}
        /\ units[l.unit] \in {Nobody, l.by} /\ l.unit \in UnitNames
    BY <2>1 DEF RInv, RowsOK, LinksThere, SInv, CatalogOK, LinkRows
  <2>3. QED
    BY <1>3, <1>4, <1>5, <1>8, <2>1, <2>2
<1>10. ServersOK'
  <2>1. at' \in [Servers -> 0..(Size + 2)]
    BY <1>1, ScriptIs DEF RInv, ServersOK
  <2>2. units' \in [UnitNames -> Servers \cup {NoRow, Nobody}]
    BY <1>1 DEF RInv, ServersOK
  <2>3. QED
    BY <1>1, <2>1, <2>2 DEF RInv, ServersOK
<1>11. FoundSeen'
  <2>1. ASSUME NEW q \in Servers, found'[q] # NoId
        PROVE  /\ found'[q] = found[q] /\ at'[q] = at[q]
               /\ \A v \in UnitNames : Sees(q, units[v]) => Sees(q, units'[v])
    <3>1. q # s /\ found'[q] = found[q] /\ at'[q] = at[q]
      BY <1>1, <2>1 DEF RInv, SInv, CatalogOK, ServersOK
    <3>2. QED
      BY <1>5, <1>8, <3>1 DEF Sees
  <2>2. \A i \in Stored' : i \in Stored /\ cats'[i].by \in {cats[i].by, Nobody}
    BY <1>3
  <2>3. QED
    BY <2>1, <2>2, FoundKept
<1>12. QED
  BY <1>6, <1>7, <1>9, <1>10, <1>11 DEF RowsOK

\* A process that starts or stops has selected nothing.
LEMMA StartStopRows ==
  ASSUME RInv, NEW s \in Servers, Boot(s) \/ Stop(s)
  PROVE  ServersOK' /\ RowsOK'
<1>1. /\ UNCHANGED <<units, cats, links, found, edits>>
      /\ at' = [at EXCEPT ![s] = 1] \/ at' = [at EXCEPT ![s] = 0]
      /\ at[s] = 0 \/ at[s] = Size + 2
  BY ScriptIs DEF Boot, Stop, catalog, Down
<1>2. found[s] = NoId
  BY <1>1, ScriptIs DEF RInv, RowsOK, FoundSeen, On
<1>3. ServersOK'
  BY <1>1, ScriptIs DEF RInv, ServersOK
<1>4. KeyUnique' /\ ParentsThere' /\ LinksThere' /\ Stored' = Stored
  BY <1>1 DEF RInv, RowsOK, KeyUnique, ParentsThere, LinksThere, Stored
<1>5. FoundSeen'
  <2>1. \A q \in Servers : found'[q] # NoId =>
          /\ found'[q] = found[q] /\ at'[q] = at[q]
          /\ \A v \in UnitNames : Sees(q, units[v]) => Sees(q, units'[v])
    BY <1>1, <1>2 DEF RInv, ServersOK
  <2>2. QED
    BY <1>1, <1>4, <2>1, FoundKept
<1>6. QED
  BY <1>3, <1>4, <1>5 DEF RowsOK

-----------------------------------------------------------------------------
(* One form, one command                                                   *)

LEMMA CreateRows ==
  ASSUME RInv, NEW name \in Names, NEW parent \in Stored \cup {NoId},
         parent # NoId => cats[parent].by = Nobody, PanelCreate(name, parent)
  PROVE  ServersOK' /\ RowsOK'
<1> DEFINE row == [name |-> name, parent |-> parent, by |-> Nobody]
<1>1. /\ ~NameTaken(name) /\ Unseen # {} /\ cats' = [cats EXCEPT ![NewId] = row]
      /\ UNCHANGED <<units, links, at, found>> /\ edits < MaxEdits /\ edits' = edits + 1
  BY DEF PanelCreate, PanelEdits
<1>2. row \in Rows /\ row.name = name /\ row.parent = parent /\ row.by = Nobody
  BY DEF Rows, Stored
<1> HIDE DEF row
<1>3. parent # NoId => parent \in Stored
  OBVIOUS
<1>4. /\ KeyUnique' /\ ParentsThere'
      /\ \A i \in Stored : i \in Stored' /\ cats'[i] = cats[i]
      /\ \A s \in Servers : found[s] \in Stored' => found[s] \in Stored
  BY <1>1, <1>2, <1>3, NewRow
<1>5. LinksThere'
  BY <1>1, <1>4 DEF RInv, RowsOK, LinksThere
<1>6. ServersOK'
  BY <1>1, SeedingAssumption DEF RInv, ServersOK
<1>7. FoundSeen'
  <2>1. \A i \in Stored' : i \in {found[q] : q \in Servers} =>
          i \in Stored /\ cats'[i].by \in {cats[i].by, Nobody}
    BY <1>4
  <2>2. QED
    BY <1>1, <2>1, FoundKept
<1>8. QED
  BY <1>4, <1>5, <1>6, <1>7 DEF RowsOK

LEMMA UpdateRows ==
  ASSUME RInv, NEW i \in Stored, cats[i].by = Nobody, NEW name \in Names,
         NEW parent \in Stored \cup {NoId}, parent # NoId => cats[parent].by = Nobody,
         PanelUpdate(i, name, parent)
  PROVE  ServersOK' /\ RowsOK'
<1>1. /\ cats' = [cats EXCEPT ![i].name = name, ![i].parent = parent]
      /\ name # cats[i].name => ~NameTaken(name)
      /\ UNCHANGED <<units, links, at, found>> /\ edits < MaxEdits /\ edits' = edits + 1
  BY DEF PanelUpdate, PanelEdits
<1>2. i \in Ids /\ cats[i] \in Rows
  BY DEF RInv, SInv, CatalogOK, Stored
<1>3. cats'[i] = [name |-> name, parent |-> parent, by |-> Nobody]
  BY <1>1, <1>2 DEF RInv, SInv, CatalogOK, Rows
<1>4. parent \in Ids \cup {NoId}
  BY DEF Stored
<1>5. cats'[i] \in Rows
  BY <1>3, <1>4 DEF Rows
<1>6. /\ cats'[i] # NoRow /\ cats'[i].name = name /\ cats'[i].parent = parent
      /\ cats'[i].by = Nobody
  BY <1>3, <1>5, RowsAssumption
<1>7. \A j \in Ids \ {i} : cats'[j] = cats[j]
  BY <1>1 DEF RInv, SInv, CatalogOK
<1>8. Stored' = Stored
  BY <1>2, <1>6, <1>7 DEF Stored
<1>9. \A j \in Stored : j # i => cats'[j] = cats[j]
  BY <1>7 DEF Stored
<1>10. KeyUnique'
  <2>1. \A j, k \in Stored : cats[j].name = cats[k].name => j = k
    BY DEF RInv, RowsOK, KeyUnique
  <2>2. ASSUME NEW j \in Stored, j # i PROVE cats[j].name # name
    <3>1. CASE name = cats[i].name
      BY <2>1, <2>2, <3>1
    <3>2. CASE name # cats[i].name
      BY <1>1, <3>2 DEF NameTaken
    <3>3. QED
      BY <3>1, <3>2
  <2>3. QED
    BY <1>6, <1>8, <1>9, <2>1, <2>2 DEF KeyUnique
<1>11. \A j \in Stored : cats'[j].by = cats[j].by
  BY <1>6, <1>9
<1>12. ParentsThere'
  <2> SUFFICES ASSUME NEW j \in Stored', cats'[j].parent # NoId
               PROVE  /\ cats'[j].parent \in Stored'
                      /\ cats'[cats'[j].parent].by \in {Nobody, cats'[j].by}
    BY DEF ParentsThere
  <2>1. CASE j = i
    BY <1>6, <1>8, <1>11, <2>1
  <2>2. CASE j # i
    BY <1>8, <1>9, <1>11, <2>2 DEF RInv, RowsOK, ParentsThere
  <2>3. QED
    BY <2>1, <2>2
<1>13. LinksThere'
  BY <1>1, <1>8, <1>11 DEF RInv, RowsOK, LinksThere
<1>14. ServersOK'
  BY <1>1, SeedingAssumption DEF RInv, ServersOK
<1>15. FoundSeen'
  BY <1>1, <1>8, <1>11, FoundKept
<1>16. QED
  BY <1>10, <1>12, <1>13, <1>14, <1>15 DEF RowsOK

LEMMA DeleteRows ==
  ASSUME RInv, NEW i \in Stored, PanelDelete(i)
  PROVE  ServersOK' /\ RowsOK'
<1>1. /\ links' = {l \in links : l.category # i}
      /\ UNCHANGED <<units, at, found>> /\ edits < MaxEdits /\ edits' = edits + 1
  BY DEF PanelDelete, PanelEdits
<1>2. ASSUME NEW j \in Ids
      PROVE  /\ cats'[j] # NoRow <=> cats[j] # NoRow /\ j # i
             /\ cats'[j] # NoRow =>
                  /\ cats'[j].name = cats[j].name /\ cats'[j].by = cats[j].by
                  /\ cats'[j].parent = IF cats[j].parent = i THEN NoId ELSE cats[j].parent
  <2>1. cats'[j] = IF j = i \/ cats[j] = NoRow THEN NoRow
                   ELSE IF cats[j].parent = i THEN [cats[j] EXCEPT !.parent = NoId]
                   ELSE cats[j]
    BY DEF PanelDelete
  <2>2. CASE j = i \/ cats[j] = NoRow
    BY <2>1, <2>2
  <2>3. CASE j # i /\ cats[j] # NoRow
    <3>1. PICK n \in Names, p \in Ids \cup {NoId}, b \in Servers \cup {Nobody} :
            cats[j] = [name |-> n, parent |-> p, by |-> b]
      BY <2>3 DEF RInv, SInv, CatalogOK, Rows
    <3>2. cats'[j] = [name |-> n, parent |-> IF p = i THEN NoId ELSE p, by |-> b]
      BY <2>1, <2>3, <3>1
    <3>3. cats'[j] \in Rows
      BY <3>2 DEF Rows
    <3>4. cats'[j] # NoRow
      BY <3>3, RowsAssumption
    <3>5. QED
      BY <2>3, <3>1, <3>2, <3>4
  <2>4. QED
    BY <2>2, <2>3
<1>3. \A j \in Ids : j \in Stored' <=> j \in Stored /\ j # i
  BY <1>2 DEF Stored
<1>4. \A j \in Stored' : j \in Ids
  BY DEF Stored
<1>5. \A j \in Stored : j \in Ids
  BY DEF Stored
<1>6. \A j \in Stored' :
        /\ j \in Stored /\ cats'[j].name = cats[j].name /\ cats'[j].by = cats[j].by
        /\ cats'[j].parent = IF cats[j].parent = i THEN NoId ELSE cats[j].parent
  BY <1>2, <1>3, <1>4 DEF Stored
<1>7. \A j \in Stored : j # i => j \in Stored'
  BY <1>3, <1>5
<1>8. KeyUnique'
  BY <1>6 DEF RInv, RowsOK, KeyUnique
<1>9. ParentsThere'
  BY <1>6, <1>7 DEF RInv, RowsOK, ParentsThere
<1>10. LinksThere'
  BY <1>1, <1>6, <1>7 DEF RInv, RowsOK, LinksThere
<1>11. ServersOK'
  BY <1>1, SeedingAssumption DEF RInv, ServersOK
<1>12. FoundSeen'
  BY <1>1, <1>6, FoundKept
<1>13. QED
  BY <1>8, <1>9, <1>10, <1>11, <1>12 DEF RowsOK

LEMMA PanelRows ==
  ASSUME RInv, Panel
  PROVE  ServersOK' /\ RowsOK' /\ at' = at
<1> DEFINE known == {i \in Stored : cats[i].by = Nobody}
<1>1. at' = at
  BY DEF Panel, PanelCreate, PanelUpdate, PanelDelete, PanelEdits
<1>2. ASSUME NEW name \in Names, NEW parent \in known \cup {NoId}, PanelCreate(name, parent)
      PROVE  ServersOK' /\ RowsOK'
  <2>1. parent \in Stored \cup {NoId} /\ (parent # NoId => cats[parent].by = Nobody)
    OBVIOUS
  <2>2. QED
    BY <1>2, <2>1, CreateRows
<1>3. ASSUME NEW i \in known, NEW name \in Names, NEW parent \in known \cup {NoId},
             PanelUpdate(i, name, parent)
      PROVE  ServersOK' /\ RowsOK'
  <2>1. /\ i \in Stored /\ cats[i].by = Nobody
        /\ parent \in Stored \cup {NoId} /\ (parent # NoId => cats[parent].by = Nobody)
    OBVIOUS
  <2>2. QED
    BY <1>3, <2>1, UpdateRows
<1>4. ASSUME NEW i \in known, PanelDelete(i)
      PROVE  ServersOK' /\ RowsOK'
  BY <1>4, DeleteRows
<1>5. QED
  BY <1>1, <1>2, <1>3, <1>4 DEF Panel

\* A migration runs while no process seeds beyond its first statement: at the
\* head it would wait, and below the head there is no such process.
LEMMA MigrationAlone ==
  ASSUME RInv, Quiet(DOMAIN schema)
  PROVE  \A s \in Servers : ~Begun(s) /\ found[s] = NoId
<1> TAKE s \in Servers
<1>1. ASSUME Begun(s) PROVE FALSE
  <2>1. revision = 8
    BY <1>1 DEF RInv, BegunAtHead
  <2>2. "units" \in DOMAIN schema
    BY <2>1, TablesAt DEF RInv, SchemaInv, Agrees, Database
  <2>3. QED
    BY <1>1, <2>2, BegunTouches DEF Quiet
<1>2. ASSUME found[s] # NoId PROVE Begun(s)
  <2>1. at[s] \in 1..Len(Script(s)) /\ Script(s)[at[s]].kind \in {"child", "link"}
    BY <1>2 DEF RInv, RowsOK, FoundSeen, On
  <2>2. at[s] # 1
    BY <2>1, ScriptIs
  <2>3. QED
    BY <2>1, <2>2, ScriptIs DEF Begun
<1>3. QED
  BY <1>1, <1>2

LEMMA MigrationRows ==
  ASSUME RInv, NEW to \in 0..8, Upgrade(to) \/ Downgrade(to)
  PROVE  ServersOK' /\ RowsOK' /\ at' = at
<1>1. UNCHANGED <<at, found, edits>> /\ Quiet(DOMAIN schema)
  BY DEF Upgrade, Downgrade, seeding
<1>2. FoundSeen'
  BY <1>1, MigrationAlone DEF FoundSeen
<1>3. CASE Upgrade(to)
  <2>1. UNCHANGED <<units, cats, links>>
    BY <1>3 DEF Upgrade, seeding, catalog
  <2>2. QED
    BY <1>1, <1>2, <2>1
       DEF RInv, ServersOK, RowsOK, KeyUnique, ParentsThere, LinksThere, Stored
<1>4. CASE Downgrade(to)
  <2>1. SchemaInv' /\ revision' < 8
    BY <1>4, DowngradeSchema DEF RInv
  <2>2. "category_units" \notin DOMAIN schema'
    <3>1. /\ revision' \in 0..8 /\ revision' # 8 /\ Fresh(revision').ok
          /\ schema' = Fresh(revision').db.schema
      BY <2>1 DEF SchemaInv, Agrees, Database
    <3>2. "category_units" \in DOMAIN Fresh(revision').db.schema <=> revision' = 8
      BY <3>1, TablesAt
    <3>3. QED
      BY <3>1, <3>2
  <2>3. links' = {} /\ cats' \in {cats, [i \in Ids |-> NoRow]}
        /\ units' \in {units, [u \in UnitNames |-> NoRow]}
    BY <1>4, <2>2 DEF Downgrade
  <2>4. units' \in [UnitNames -> Servers \cup {NoRow, Nobody}]
    BY <2>3 DEF RInv, ServersOK
  <2>5. KeyUnique' /\ ParentsThere'
    BY <2>3 DEF RInv, RowsOK, KeyUnique, ParentsThere, Stored
  <2>6. LinksThere'
    BY <2>3 DEF LinksThere
  <2>7. ServersOK'
    BY <1>1, <2>4 DEF RInv, ServersOK
  <2>8. QED
    BY <1>1, <1>2, <2>5, <2>6, <2>7 DEF RowsOK
<1>5. QED
  BY <1>3, <1>4

-----------------------------------------------------------------------------
(* The invariant, and what it says of a start                              *)

\* The first statement inserts a unit, and so needs the last revision.
LEMMA FirstNeedsHead ==
  ASSUME RInv, NEW s \in Servers, Executable(s), at[s] = 1
  PROVE  revision = 8
<1>1. at[s] \in 1..Len(Script(s)) /\ This(s).kind = "unit"
  BY ScriptIs DEF This
<1>2. "units" \in DOMAIN schema
  BY <1>1 DEF Executable, TableOf, HasTables
<1>3. QED
  BY <1>2, TablesAt DEF RInv, SchemaInv, Agrees, Database

LEMMA SeedRows ==
  ASSUME RInv, NEW s \in Servers, Seed(s)
  PROVE  /\ ServersOK' /\ RowsOK' /\ BegunAtHead'
         /\ \A q \in Servers : at[q] # Serving(q) /\ at'[q] = Serving(q) => revision = 8
<1>1. ServersOK' /\ RowsOK'
  BY UnitRows, ParentRows, FindRows, ChildRows, LinkRowsKept, CommitRows DEF Seed, Statement
<1>2. /\ at[s] \in 1..CommitAt(s)
      /\ Advance(s) \/ at' = at
      /\ Executable(s) /\ revision' = revision
  BY ScriptIs DEF Seed, Statement, SeedUnit, SeedParent, FindCategory, SeedChild, SeedLink,
                  SeedCommit, On, migrations
<1>3. at[s] \in 1..(Size + 1) /\ Size \in Nat \ {0}
  BY <1>2, ScriptIs
<1>4. revision = 8
  <2>1. CASE at[s] = 1
    BY <1>2, <2>1, FirstNeedsHead
  <2>2. CASE at[s] # 1
    BY <1>3, <2>2, ScriptIs DEF Begun, RInv, BegunAtHead
  <2>3. QED
    BY <2>1, <2>2
<1>5. BegunAtHead'
  BY <1>2, <1>4 DEF BegunAtHead
<1>6. QED
  BY <1>1, <1>4, <1>5

LEMMA NextRows ==
  ASSUME RInv, [Next]_vars
  PROVE  /\ RInv'
         /\ \A q \in Servers : at[q] # Serving(q) /\ at'[q] = Serving(q) => revision = 8
<1>1. SInv' /\ SchemaInv'
  BY NextAdds, NextSchema DEF RInv
<1>2. ASSUME UNCHANGED <<revision, at>>
      PROVE  /\ BegunAtHead'
             /\ \A q \in Servers : at[q] # Serving(q) /\ at'[q] = Serving(q) => revision = 8
  BY <1>2 DEF RInv, BegunAtHead, Begun, CommitAt, Script
<1>3. ASSUME NEW to \in BaseRevision..HeadRevision, Upgrade(to) \/ Downgrade(to)
      PROVE  /\ ServersOK' /\ RowsOK' /\ BegunAtHead'
             /\ \A q \in Servers : at[q] # Serving(q) /\ at'[q] = Serving(q) => revision = 8
  <2>1. ServersOK' /\ RowsOK' /\ at' = at
    BY <1>3, ChainLength, MigrationRows
  <2>2. \A s \in Servers : ~Begun(s)
    BY <1>3, MigrationAlone DEF Upgrade, Downgrade
  <2>3. BegunAtHead'
    BY <2>1, <2>2 DEF BegunAtHead, Begun, CommitAt, Script
  <2>4. QED
    BY <2>1, <2>3
<1>4. ASSUME NEW email \in Admins, SeedAdmin(email)
      PROVE  ServersOK' /\ RowsOK' /\ UNCHANGED <<revision, at>>
  <2>1. UNCHANGED <<units, cats, links, at, found, edits, revision>>
    BY <1>4 DEF SeedAdmin, seeding, catalog, migrations
  <2>2. QED
    BY <2>1 DEF RInv, ServersOK, RowsOK, KeyUnique, ParentsThere, LinksThere, FoundSeen,
                Stored, On, This, Script, Sees
<1>5. ASSUME NEW s \in Servers, Starts(s) \/ Refused(s) \/ Fails(s) \/ Stops(s)
      PROVE  /\ ServersOK' /\ RowsOK' /\ BegunAtHead'
             /\ \A q \in Servers : at[q] # Serving(q) /\ at'[q] = Serving(q) => revision = 8
  <2>1. ServersOK' /\ RowsOK'
    BY <1>5, StartStopRows, FailRows DEF Starts, Stops, Refused, Fails
  <2>2. revision' = revision /\ (at' = [at EXCEPT ![s] = 1] \/ at' = [at EXCEPT ![s] = 0])
    BY <1>5 DEF Starts, Stops, Refused, Fails, Boot, Stop, SeedFails, Down, migrations
  <2>3. \A q \in Servers : at'[q] \in {0, 1, at[q]}
    BY <2>2 DEF RInv, ServersOK
  <2>4. BegunAtHead'
    <3>1. \A q \in Servers : Begun(q)' => Begun(q)
      BY <2>3 DEF Begun, CommitAt, Script
    <3>2. QED
      BY <2>2, <3>1 DEF RInv, BegunAtHead
  <2>5. \A q \in Servers : Serving(q) = Size + 2 /\ Size \in Nat \ {0}
    BY ScriptIs
  <2>6. QED
    BY <2>1, <2>3, <2>4, <2>5
<1>6. ASSUME NEW s \in Servers, Seed(s)
      PROVE  /\ ServersOK' /\ RowsOK' /\ BegunAtHead'
             /\ \A q \in Servers : at[q] # Serving(q) /\ at'[q] = Serving(q) => revision = 8
  BY <1>6, SeedRows
<1>7. ASSUME PanelEdit
      PROVE  ServersOK' /\ RowsOK' /\ UNCHANGED <<revision, at>>
  BY <1>7, PanelRows DEF PanelEdit, migrations
<1>8. ASSUME UNCHANGED vars
      PROVE  ServersOK' /\ RowsOK' /\ UNCHANGED <<revision, at>>
  <2>1. UNCHANGED <<units, cats, links, at, found, edits, revision>>
    BY <1>8 DEF vars, seeding, catalog, migrations
  <2>2. QED
    BY <2>1 DEF RInv, ServersOK, RowsOK, KeyUnique, ParentsThere, LinksThere, FoundSeen,
                Stored, On, This, Script, Sees
<1> DEFINE Holds ==
      /\ ServersOK' /\ RowsOK' /\ BegunAtHead'
      /\ \A q \in Servers : at[q] # Serving(q) /\ at'[q] = Serving(q) => revision = 8
<1>9. Holds
  <2>1. CASE PanelEdit \/ UNCHANGED vars \/ \E email \in Admins : SeedAdmin(email)
    BY <1>2, <1>4, <1>7, <1>8, <2>1
  <2>2. CASE \E to \in BaseRevision..HeadRevision : Upgrade(to) \/ Downgrade(to)
    BY <1>3, <2>2
  <2>3. CASE \E s \in Servers : Starts(s) \/ Seed(s) \/ Refused(s) \/ Fails(s) \/ Stops(s)
    BY <1>5, <1>6, <2>3
  <2> HIDE DEF Holds
  <2>4. QED
    BY <2>1, <2>2, <2>3 DEF Next
<1>10. QED
  BY <1>1, <1>9 DEF RInv

LEMMA InitRows == Init => RInv
<1> SUFFICES ASSUME Init PROVE RInv
  OBVIOUS
<1>1. SInv /\ SchemaInv
  BY InitCatalog, InitSchema
<1>2. /\ units = [u \in UnitNames |-> NoRow] /\ Stored = {} /\ links = {} /\ edits = 0
      /\ at = [s \in Servers |-> 0] /\ found = [s \in Servers |-> NoId]
  BY DEF Init, SeedingInit, Stored, Down
<1>3. ServersOK
  <2>1. Size \in Nat
    BY ScriptIs
  <2>2. at \in [Servers -> 0..(Size + 2)]
    BY <1>2, <2>1
  <2>3. edits \in 0..MaxEdits
    BY <1>2, SeedingAssumption
  <2>4. QED
    BY <1>2, <2>2, <2>3 DEF ServersOK
<1>4. RowsOK
  BY <1>2 DEF RowsOK, KeyUnique, ParentsThere, LinksThere, FoundSeen
<1>5. BegunAtHead
  BY <1>2 DEF BegunAtHead, Begun
<1>6. QED
  BY <1>1, <1>3, <1>4, <1>5 DEF RInv

LEMMA RowsInvariance == Spec => []RInv
<1>1. RInv /\ [Next]_vars => RInv'
  BY NextRows
<1>2. QED
  BY <1>1, InitRows, PTL DEF Spec

\* The keys hold: names of categories are unique, and what a category or a
\* link refers to is there, also while transactions that inserted it are open,
\* commit, or roll back beside the panel and the migrations.
THEOREM DeploymentTypes == Spec => []TypeOK
<1>1. RInv => TypeOK
  <2> SUFFICES ASSUME RInv PROVE TypeOK
    OBVIOUS
  <2>1. revision \in BaseRevision..HeadRevision
    BY ChainLength DEF RInv, SchemaInv
  <2>2. \A s \in Servers : at[s] \in Down..Serving(s)
    BY ScriptIs DEF RInv, ServersOK, Down
  <2>3. users \subseteq Admins /\ beenAtHead \in BOOLEAN
    BY DEF RInv, SchemaInv
  <2>4. \A l \in links : l.category \in Stored /\ units[l.unit] # NoRow
    BY RowsAssumption DEF RInv, RowsOK, LinksThere, SInv, CatalogOK, LinkRows
  <2>5. \A i \in Stored : cats[i].parent \in Stored \cup {NoId}
    BY DEF RInv, RowsOK, ParentsThere
  <2>6. \A i, j \in Stored : cats[i].name = cats[j].name => i = j
    BY DEF RInv, RowsOK, KeyUnique
  <2>7. /\ cats \in [Ids -> Rows \cup {NoRow}] /\ found \in [Servers -> Ids \cup {NoId}]
        /\ links \subseteq [category : Ids, unit : UnitNames, by : Servers \cup {Nobody}]
        /\ units \in [UnitNames -> Servers \cup {NoRow, Nobody}] /\ edits \in 0..MaxEdits
    BY DEF RInv, SInv, CatalogOK, LinkRows, ServersOK
  <2> HIDE DEF RInv
  <2>8. QED
    BY <2>1, <2>2, <2>3, <2>4, <2>5, <2>6, <2>7 DEF TypeOK
<1>2. QED
  BY <1>1, RowsInvariance, PTL

\* No server starts to serve on a database below the head: its first statement
\* needs the last revision, and no migration gets past the locks it then holds.
THEOREM ServesAtHead == Spec => ServesOnlyAtHead
<1>1. RInv /\ [Next]_vars =>
        [\A s \in Servers : at[s] # Serving(s) /\ at'[s] = Serving(s) =>
           revision = HeadRevision]_vars
  BY NextRows, ChainLength
<1>2. QED
  BY <1>1, RowsInvariance, PTL DEF Spec, ServesOnlyAtHead

-----------------------------------------------------------------------------
(* What the script holds                                                   *)

LEMMA Joined ==
  ASSUME NEW S, NEW a \in Seq(S), NEW b \in Seq(S)
  PROVE  /\ a \o b \in Seq(S) /\ Len(a \o b) = Len(a) + Len(b)
         /\ Len(a) \in Nat /\ Len(b) \in Nat
         /\ \A k \in 1..Len(a) : (a \o b)[k] = a[k]
         /\ \A k \in 1..Len(b) : (a \o b)[Len(a) + k] = b[k]
<1>1. a \o b \in Seq(S) /\ Len(a \o b) = Len(a) + Len(b) /\ Len(a) \in Nat /\ Len(b) \in Nat
  OBVIOUS
<1>2. \A k \in 1..Len(a) : (a \o b)[k] = a[k]
  OBVIOUS
<1>3. \A k \in 1..Len(b) : (a \o b)[Len(a) + k] = b[k]
  OBVIOUS
<1>4. QED
  BY <1>1, <1>2, <1>3

\* How many statements each part of the script has.
UnitCount == Len(UnitSeeds)
ParentCount == Len(ParentSeeds)
ChildCount == Len(ChildSeeds)
LinkCount == Len(LinkSeeds)

UnitRow(k) == [kind |-> "unit", name |-> UnitSeeds[k], of |-> UnitSeeds[k]]
ParentRow(k) == [kind |-> "parent", name |-> ParentSeeds[k], of |-> ParentSeeds[k]]
ChildRow(k) == [kind |-> "child", name |-> ChildSeeds[k][1], of |-> ChildSeeds[k][2]]
LinkRow(k) == [kind |-> "link", name |-> LinkSeeds[k][2], of |-> LinkSeeds[k][1]]

LEMMA Counts ==
  /\ UnitCount \in Nat /\ ParentCount \in Nat /\ ChildCount \in Nat /\ LinkCount \in Nat
  /\ DOMAIN UnitSeeds = 1..UnitCount /\ DOMAIN ParentSeeds = 1..ParentCount
  /\ DOMAIN ChildSeeds = 1..ChildCount /\ DOMAIN LinkSeeds = 1..LinkCount
<1>1. /\ UnitSeeds \in Seq(ElementsOf(UnitSeeds))
      /\ ParentSeeds \in Seq(ElementsOf(ParentSeeds))
      /\ ChildSeeds \in Seq(ElementsOf(ChildSeeds))
      /\ LinkSeeds \in Seq(ElementsOf(LinkSeeds))
  BY SeedingAssumption
<1>2. QED
  BY <1>1 DEF UnitCount, ParentCount, ChildCount, LinkCount

\* The four parts follow one another.
LEMMA ScriptParts ==
  ASSUME NEW s
  PROVE  /\ Size = UnitCount + ParentCount + ChildCount + LinkCount
         /\ \A k \in 1..UnitCount : Script(s)[k] = UnitRow(k)
         /\ \A k \in 1..ParentCount : Script(s)[UnitCount + k] = ParentRow(k)
         /\ \A k \in 1..ChildCount : Script(s)[UnitCount + ParentCount + k] = ChildRow(k)
         /\ \A k \in 1..LinkCount :
              Script(s)[UnitCount + ParentCount + ChildCount + k] = LinkRow(k)
<1> DEFINE parents == Statements("parent", ParentSeeds, Whole, Whole)
           children == Statements("child", ChildSeeds, First, Second)
           u == UnitCount
           p == ParentCount
           c == ChildCount
           l == LinkCount
<1>1. u \in Nat /\ p \in Nat /\ c \in Nat /\ l \in Nat
  BY Counts
<1>2. /\ UnitScript \in Seq(Kinds) /\ parents \in Seq(Kinds)
      /\ children \in Seq(Kinds) /\ LinkScript \in Seq(Kinds)
  BY UnitScriptType, ParentScriptType, ChildScriptType, LinkScriptType
<1>3. /\ UnitScript = [k \in 1..u |-> UnitRow(k)] /\ parents = [k \in 1..p |-> ParentRow(k)]
      /\ children = [k \in 1..c |-> ChildRow(k)] /\ LinkScript = [k \in 1..l |-> LinkRow(k)]
  BY Counts DEF UnitScript, LinkScript, Statements, Whole, First, Second,
                UnitRow, ParentRow, ChildRow, LinkRow
<1>4. CategoryScript = parents \o children
  BY DEF CategoryScript
<1> HIDE DEF parents, children, u, p, c, l
<1>5. /\ Len(UnitScript) = u /\ Len(parents) = p /\ Len(children) = c /\ Len(LinkScript) = l
  BY <1>1, <1>2, <1>3
<1> DEFINE front == UnitScript \o CategoryScript
           all == front \o LinkScript
<1>6. /\ CategoryScript \in Seq(Kinds) /\ Len(CategoryScript) = p + c
      /\ \A k \in 1..p : CategoryScript[k] = parents[k]
      /\ \A k \in 1..c : CategoryScript[p + k] = children[k]
  <2>1. /\ parents \o children \in Seq(Kinds)
        /\ Len(parents \o children) = Len(parents) + Len(children)
        /\ \A k \in 1..Len(parents) : (parents \o children)[k] = parents[k]
        /\ \A k \in 1..Len(children) : (parents \o children)[Len(parents) + k] = children[k]
    BY <1>2, Joined
  <2>2. QED
    BY <1>4, <1>5, <2>1
<1>7. /\ front \in Seq(Kinds) /\ Len(front) = u + (p + c)
      /\ \A k \in 1..u : front[k] = UnitScript[k]
      /\ \A k \in 1..(p + c) : front[u + k] = CategoryScript[k]
  <2>0. UnitScript \in Seq(Kinds) /\ CategoryScript \in Seq(Kinds)
    BY <1>2, <1>6
  <2>1. /\ front \in Seq(Kinds) /\ Len(front) = Len(UnitScript) + Len(CategoryScript)
        /\ \A k \in 1..Len(UnitScript) : front[k] = UnitScript[k]
        /\ \A k \in 1..Len(CategoryScript) : front[Len(UnitScript) + k] = CategoryScript[k]
    BY <2>0, Joined
  <2> HIDE DEF front
  <2>2. QED
    BY <1>5, <1>6, <2>1
<1>8. /\ Len(all) = u + (p + c) + l
      /\ \A k \in 1..(u + (p + c)) : all[k] = front[k]
      /\ \A k \in 1..l : all[u + (p + c) + k] = LinkScript[k]
  <2> HIDE DEF front
  <2>0. front \in Seq(Kinds) /\ LinkScript \in Seq(Kinds)
    BY <1>2, <1>7
  <2>1. /\ Len(all) = Len(front) + Len(LinkScript)
        /\ \A k \in 1..Len(front) : all[k] = front[k]
        /\ \A k \in 1..Len(LinkScript) : all[Len(front) + k] = LinkScript[k]
    BY <2>0, Joined
  <2> HIDE DEF all
  <2>2. QED
    BY <1>5, <1>7, <2>1
<1>9. all = Script(s) /\ Size = Len(all)
  BY DEF Script, Size
<1> HIDE DEF front, all
<1>10. \A k \in 1..u : all[k] = UnitRow(k)
  BY <1>1, <1>3, <1>7, <1>8
<1>11. \A k \in 1..p : all[u + k] = ParentRow(k)
  <2> TAKE k \in 1..p
  <2>1. k \in 1..(p + c) /\ u + k \in 1..(u + (p + c))
    BY <1>1
  <2>2. all[u + k] = front[u + k] /\ front[u + k] = CategoryScript[k]
    BY <1>7, <1>8, <2>1
  <2>3. CategoryScript[k] = parents[k] /\ parents[k] = ParentRow(k)
    BY <1>3, <1>6
  <2>4. QED
    BY <2>2, <2>3
<1>12. \A k \in 1..c : all[u + p + k] = ChildRow(k)
  <2> TAKE k \in 1..c
  <2>1. p + k \in 1..(p + c) /\ u + (p + k) \in 1..(u + (p + c)) /\ u + p + k = u + (p + k)
    BY <1>1
  <2>2. all[u + (p + k)] = front[u + (p + k)] /\ front[u + (p + k)] = CategoryScript[p + k]
    BY <1>7, <1>8, <2>1
  <2>3. CategoryScript[p + k] = children[k] /\ children[k] = ChildRow(k)
    BY <1>3, <1>6
  <2>4. QED
    BY <2>1, <2>2, <2>3
<1>13. \A k \in 1..l : all[u + p + c + k] = LinkRow(k)
  <2> TAKE k \in 1..l
  <2>1. u + p + c + k = u + (p + c) + k
    BY <1>1
  <2>2. all[u + (p + c) + k] = LinkScript[k] /\ LinkScript[k] = LinkRow(k)
    BY <1>3, <1>8
  <2>3. QED
    BY <2>1, <2>2
<1>14. Size = u + p + c + l
  BY <1>1, <1>8, <1>9
<1>15. QED
  BY <1>9, <1>10, <1>11, <1>12, <1>13, <1>14 DEF u, p, c, l

\* Where a statement stands in the script decides what kind it has.
LEMMA StatementAt ==
  ASSUME NEW s, NEW k \in 1..Size
  PROVE  \/ k <= UnitCount /\ Script(s)[k].kind = "unit"
         \/ /\ UnitCount < k /\ k <= UnitCount + ParentCount
            /\ Script(s)[k].kind = "parent"
            /\ \E j \in 1..ParentCount : Script(s)[k] = ParentRow(j)
         \/ /\ UnitCount + ParentCount < k /\ k <= UnitCount + ParentCount + ChildCount
            /\ Script(s)[k].kind = "child"
            /\ \E j \in 1..ChildCount : Script(s)[k] = ChildRow(j)
         \/ UnitCount + ParentCount + ChildCount < k /\ Script(s)[k].kind = "link"
<1> DEFINE u == UnitCount
           p == ParentCount
           c == ChildCount
<1>1. u \in Nat /\ p \in Nat /\ c \in Nat /\ LinkCount \in Nat /\ k \in Nat
      /\ k >= 1 /\ k <= u + p + c + LinkCount
  BY Counts, ScriptParts
<1>2. CASE k <= u
  <2>1. Script(s)[k] = UnitRow(k)
    BY <1>1, <1>2, ScriptParts
  <2>2. QED
    BY <1>2, <2>1 DEF UnitRow
<1>3. CASE u < k /\ k <= u + p
  <2>1. k - u \in 1..p /\ u + (k - u) = k
    BY <1>1, <1>3
  <2>2. Script(s)[u + (k - u)] = ParentRow(k - u)
    BY <2>1, ScriptParts
  <2>3. Script(s)[k] = ParentRow(k - u) /\ ParentRow(k - u).kind = "parent"
    BY <2>1, <2>2 DEF ParentRow
  <2>4. QED
    BY <1>3, <2>1, <2>3
<1>4. CASE u + p < k /\ k <= u + p + c
  <2>1. k - (u + p) \in 1..c /\ u + p + (k - (u + p)) = k
    BY <1>1, <1>4
  <2>2. Script(s)[u + p + (k - (u + p))] = ChildRow(k - (u + p))
    BY <2>1, ScriptParts
  <2>3. Script(s)[k] = ChildRow(k - (u + p)) /\ ChildRow(k - (u + p)).kind = "child"
    BY <2>1, <2>2 DEF ChildRow
  <2>4. QED
    BY <1>4, <2>1, <2>3
<1>5. CASE u + p + c < k
  <2>1. k - (u + p + c) \in 1..LinkCount /\ u + p + c + (k - (u + p + c)) = k
    BY <1>1, <1>5
  <2>2. Script(s)[u + p + c + (k - (u + p + c))] = LinkRow(k - (u + p + c))
    BY <2>1, ScriptParts
  <2>3. Script(s)[k].kind = "link"
    BY <2>1, <2>2 DEF LinkRow
  <2>4. QED
    BY <1>5, <2>3
<1>6. QED
  BY <1>1, <1>2, <1>3, <1>4, <1>5

\* Parents come before children, and units and categories before links.
Before(kind) ==
  CASE kind = "unit" -> {} [] kind = "parent" -> {"unit"} [] kind = "child" -> {"unit", "parent"}
    [] OTHER -> {"unit", "parent", "child"}

LEMMA ScriptOrder ==
  ASSUME NEW s, NEW j \in 1..Size, NEW k \in 1..Size,
         Script(s)[j].kind \in Before(Script(s)[k].kind)
  PROVE  j < k
<1>1. /\ UnitCount \in Nat /\ ParentCount \in Nat /\ ChildCount \in Nat
      /\ j \in Int /\ k \in Int
  BY Counts
<1>2. QED
  BY <1>1, StatementAt DEF Before

\* Each statement inserts a seed, and each seed has its statement.
LEMMA ScriptInserts ==
  ASSUME NEW s, NEW k \in 1..Size
  PROVE  /\ Script(s)[k].kind = "parent" => Script(s)[k].name \in ElementsOf(ParentSeeds)
         /\ Script(s)[k].kind = "child" => \E c \in ElementsOf(ChildSeeds) :
              Script(s)[k].name = c[1] /\ Script(s)[k].of = c[2]
<1>1. ASSUME Script(s)[k].kind = "parent"
      PROVE  Script(s)[k].name \in ElementsOf(ParentSeeds)
  <2>1. PICK j \in 1..ParentCount : Script(s)[k] = ParentRow(j)
    BY <1>1, StatementAt
  <2>2. QED
    BY <2>1, Counts DEF ParentRow, ElementsOf
<1>2. ASSUME Script(s)[k].kind = "child"
      PROVE  \E c \in ElementsOf(ChildSeeds) :
               Script(s)[k].name = c[1] /\ Script(s)[k].of = c[2]
  <2>1. PICK j \in 1..ChildCount : Script(s)[k] = ChildRow(j)
    BY <1>2, StatementAt
  <2>2. ChildSeeds[j] \in ElementsOf(ChildSeeds)
    BY Counts DEF ElementsOf
  <2>3. Script(s)[k].name = ChildSeeds[j][1] /\ Script(s)[k].of = ChildSeeds[j][2]
    BY <2>1 DEF ChildRow
  <2>4. QED
    BY <2>2, <2>3
<1>3. QED
  BY <1>1, <1>2

LEMMA ScriptHas ==
  ASSUME NEW s
  PROVE  /\ \A n \in UnitNames : \E k \in 1..Size :
              Script(s)[k].kind = "unit" /\ Script(s)[k].name = n
         /\ \A n \in ElementsOf(ParentSeeds) : \E k \in 1..Size :
              Script(s)[k].kind = "parent" /\ Script(s)[k].name = n
         /\ \A c \in ElementsOf(ChildSeeds) : \E k \in 1..Size :
              Script(s)[k].kind = "child" /\ Script(s)[k].name = c[1] /\ Script(s)[k].of = c[2]
         /\ \A l \in ElementsOf(LinkSeeds) : \E k \in 1..Size :
              Script(s)[k].kind = "link" /\ Script(s)[k].name = l[2] /\ Script(s)[k].of = l[1]
<1> DEFINE u == UnitCount
           p == ParentCount
           c == ChildCount
<1>1. /\ u \in Nat /\ p \in Nat /\ c \in Nat /\ LinkCount \in Nat
      /\ Size = u + p + c + LinkCount
  BY Counts, ScriptParts
<1>2. ASSUME NEW n \in UnitNames
      PROVE  \E k \in 1..Size : Script(s)[k].kind = "unit" /\ Script(s)[k].name = n
  <2>1. PICK j \in 1..u : n = UnitSeeds[j]
    BY Counts DEF UnitNames, ElementsOf
  <2>2. j \in 1..Size /\ Script(s)[j] = UnitRow(j)
    BY <1>1, ScriptParts
  <2>3. QED
    BY <2>1, <2>2 DEF UnitRow
<1>3. ASSUME NEW n \in ElementsOf(ParentSeeds)
      PROVE  \E k \in 1..Size : Script(s)[k].kind = "parent" /\ Script(s)[k].name = n
  <2>1. PICK j \in 1..p : n = ParentSeeds[j]
    BY Counts DEF ElementsOf
  <2>2. u + j \in 1..Size /\ Script(s)[u + j] = ParentRow(j)
    BY <1>1, ScriptParts
  <2>3. Script(s)[u + j].kind = "parent" /\ Script(s)[u + j].name = n
    BY <2>1, <2>2 DEF ParentRow
  <2>4. QED
    BY <2>2, <2>3
<1>4. ASSUME NEW d \in ElementsOf(ChildSeeds)
      PROVE  \E k \in 1..Size :
               Script(s)[k].kind = "child" /\ Script(s)[k].name = d[1] /\ Script(s)[k].of = d[2]
  <2>1. PICK j \in 1..c : d = ChildSeeds[j]
    BY Counts DEF ElementsOf
  <2>2. u + p + j \in 1..Size /\ Script(s)[u + p + j] = ChildRow(j)
    BY <1>1, ScriptParts
  <2>3. /\ Script(s)[u + p + j].kind = "child"
        /\ Script(s)[u + p + j].name = d[1] /\ Script(s)[u + p + j].of = d[2]
    BY <2>1, <2>2 DEF ChildRow
  <2>4. QED
    BY <2>2, <2>3
<1>5. ASSUME NEW d \in ElementsOf(LinkSeeds)
      PROVE  \E k \in 1..Size :
               Script(s)[k].kind = "link" /\ Script(s)[k].name = d[2] /\ Script(s)[k].of = d[1]
  <2>1. PICK j \in 1..LinkCount : d = LinkSeeds[j]
    BY Counts DEF ElementsOf
  <2>2. u + p + c + j \in 1..Size /\ Script(s)[u + p + c + j] = LinkRow(j)
    BY <1>1, ScriptParts
  <2>3. /\ Script(s)[u + p + c + j].kind = "link"
        /\ Script(s)[u + p + c + j].name = d[2] /\ Script(s)[u + p + c + j].of = d[1]
    BY <2>1, <2>2 DEF LinkRow
  <2>4. QED
    BY <2>2, <2>3
<1>6. QED
  BY <1>2, <1>3, <1>4, <1>5

-----------------------------------------------------------------------------
(* What a process has done by the statement it executes                    *)

\* A category is where the tree of the seeds has it.
Planned(i) ==
  \/ cats[i].name \in ElementsOf(ParentSeeds) /\ cats[i].parent = NoId
  \/ \E c \in ElementsOf(ChildSeeds) :
       /\ cats[i].name = c[1] /\ cats[i].parent \in Stored
       /\ cats[cats[i].parent].name = c[2]

TreeShape == \A i \in Stored : Planned(i)

FoundNamed == \A s \in Servers : found[s] # NoId => found[s] \in Visible(s, This(s).of)

\* What statement k was for is there, and s reads it.
Effect(s, k) ==
  LET st == Script(s)[k] IN
  /\ st.kind = "unit" => Sees(s, units[st.name])
  /\ st.kind = "parent" => \E i \in Visible(s, st.name) : cats[i].parent = NoId
  /\ st.kind = "child" =>
       \E i \in Visible(s, st.name) : cats[i].parent \in Visible(s, st.of)
  /\ st.kind = "link" =>
       \E i \in Visible(s, st.of), l \in links :
         l.category = i /\ l.unit = st.name /\ Sees(s, l.by)

DoneBefore ==
  \A s \in Servers : \A k \in 1..Size : k < at[s] /\ at[s] <= CommitAt(s) => Effect(s, k)

\* All this as long as the panel has changed nothing.
Done0 == TreeShape /\ FoundNamed /\ DoneBefore
DInv == RInv /\ (edits = 0 => Done0)

\* What q reads stays as it is.
ReadsOn(q) ==
  /\ \A i \in Stored : Sees(q, cats[i].by) => i \in Stored' /\ cats'[i] = cats[i]
  /\ \A u \in UnitNames : Sees(q, units[u]) => units'[u] = units[u]
  /\ \A l \in links : Sees(q, l.by) => l \in links'

LEMMA VisibleKept ==
  ASSUME NEW q \in Servers, ReadsOn(q), NEW name, NEW i \in Visible(q, name)
  PROVE  i \in Visible(q, name)' /\ cats'[i] = cats[i]
BY DEF ReadsOn, Visible, Stored, Sees

LEMMA EffectKept ==
  ASSUME NEW q \in Servers, ReadsOn(q), NEW k \in 1..Size, Effect(q, k)
  PROVE  Effect(q, k)'
<1> DEFINE st == Script(q)[k]
<1>0. Script(q)' = Script(q)
  BY DEF Script
<1>1. st \in Kinds
  <2>1. Script(q) \in Seq(Kinds) /\ Len(Script(q)) = Size
    BY ScriptType, ScriptIs
  <2>2. QED
    BY <2>1
<1> HIDE DEF st
<1>2. st.kind = "unit" => st.name \in UnitNames
  BY <1>1 DEF Kinds
<1>3. st.kind = "unit" => Sees(q, units'[st.name])
  BY <1>2 DEF Effect, ReadsOn, st
<1>4. st.kind = "parent" => \E i \in Visible(q, st.name)' : cats'[i].parent = NoId
  BY VisibleKept DEF Effect, st
<1>5. st.kind = "child" => \E i \in Visible(q, st.name)' : cats'[i].parent \in Visible(q, st.of)'
  BY VisibleKept DEF Effect, st
<1>6. st.kind = "link" =>
        \E i \in Visible(q, st.of)', l \in links' :
          l.category = i /\ l.unit = st.name /\ Sees(q, l.by)
  BY VisibleKept DEF Effect, st, ReadsOn
<1>7. QED
  BY <1>0, <1>3, <1>4, <1>5, <1>6 DEF Effect, st

\* What the others read is left alone, and s itself goes on in order.
LEMMA StepKeeps ==
  ASSUME RInv, Done0, TreeShape', NEW s \in Servers,
         \A q \in Servers \ {s} : ReadsOn(q) /\ at'[q] = at[q] /\ found'[q] = found[q],
         found'[s] # NoId => found'[s] \in Visible(s, This(s).of)',
         \A k \in 1..Size : k < at'[s] /\ at'[s] <= CommitAt(s) => Effect(s, k)'
  PROVE  Done0'
<1>1. FoundNamed'
  <2> SUFFICES ASSUME NEW q \in Servers, found'[q] # NoId
               PROVE  found'[q] \in Visible(q, This(q).of)'
    BY DEF FoundNamed
  <2>1. CASE q # s
    <3>1. found[q] \in Visible(q, This(q).of) /\ ReadsOn(q) /\ This(q)' = This(q)
      BY <2>1 DEF Done0, FoundNamed, This, Script
    <3>2. found[q] \in Visible(q, This(q).of)'
      BY <3>1, VisibleKept DEF Visible, Stored, Sees
    <3>3. QED
      BY <2>1, <3>2
  <2>2. QED
    BY <2>1
<1>2. DoneBefore'
  <2> SUFFICES ASSUME NEW q \in Servers, NEW k \in 1..Size, k < at'[q], at'[q] <= CommitAt(q)
               PROVE  Effect(q, k)'
    BY DEF DoneBefore, CommitAt, Script, Size
  <2>1. CASE q # s
    BY <2>1, EffectKept DEF Done0, DoneBefore
  <2>2. QED
    BY <2>1
<1>3. QED
  BY <1>1, <1>2 DEF Done0

LEMMA AdvanceKeeps ==
  ASSUME RInv, Done0, TreeShape', NEW s \in Servers, Advance(s), NEW n \in 1..Size,
         at[s] = n, \A q \in Servers : ReadsOn(q), Effect(s, n)'
  PROVE  Done0'
<1>1. /\ at'[s] = at[s] + 1 /\ found'[s] = NoId /\ CommitAt(s) = Size + 1 /\ Size \in Nat
      /\ \A q \in Servers \ {s} : at'[q] = at[q] /\ found'[q] = found[q]
  BY Advances, ScriptIs
<1>2. ASSUME NEW k \in 1..Size, k < at'[s], at'[s] <= CommitAt(s)
      PROVE  Effect(s, k)'
  <2>1. CASE k = n
    BY <2>1
  <2>2. CASE k # n
    <3>1. k < at[s] /\ at[s] <= CommitAt(s)
      BY <1>1, <1>2, <2>2
    <3>2. Effect(s, k)
      BY <3>1 DEF Done0, DoneBefore
    <3>3. QED
      BY <3>2, EffectKept
  <2>3. QED
    BY <2>1, <2>2
<1>3. QED
  BY <1>1, <1>2, StepKeeps

LEMMA OnIs ==
  ASSUME NEW s \in Servers, NEW kind, On(s, {kind})
  PROVE  /\ at[s] \in 1..Size /\ This(s) \in Kinds /\ This(s).kind = kind
         /\ This(s) = Script(s)[at[s]]
BY ScriptType, ScriptIs DEF On, This

LEMMA UnitDone ==
  ASSUME RInv, Done0, NEW s \in Servers, SeedUnit(s)
  PROVE  Done0'
<1> DEFINE u == This(s).name
<1>1. /\ u \in UnitNames /\ cats' = cats /\ links' = links /\ Advance(s)
      /\ units' = IF units[u] = NoRow THEN [units EXCEPT ![u] = s] ELSE units
      /\ units[u] = NoRow \/ Sees(s, units[u])
      /\ units \in [UnitNames -> Servers \cup {NoRow, Nobody}]
  BY UnitStatement DEF SeedUnit, RInv, ServersOK
<1>2. PICK n \in 1..Size :
        at[s] = n /\ Script(s)[n].kind = "unit" /\ Script(s)[n].name = u
  BY OnIs DEF SeedUnit
<1> HIDE DEF u
<1>3. Sees(s, units'[u]) /\ \A v \in UnitNames : units[v] # NoRow => units'[v] = units[v]
  BY <1>1 DEF Sees
<1>4. \A q \in Servers : ReadsOn(q)
  BY <1>1, <1>3, NoRowUnseen DEF ReadsOn, Stored
<1>5. TreeShape'
  BY <1>1 DEF Done0, TreeShape, Planned, Stored
<1>6. Script(s)' = Script(s)
  BY DEF Script
<1>7. Effect(s, n)'
  BY <1>2, <1>3, <1>6 DEF Effect, Sees
<1>8. QED
  BY <1>1, <1>2, <1>4, <1>5, <1>7, AdvanceKeeps

\* An insert that is not answered by a row of that name makes one.
LEMMA Inserted ==
  ASSUME RInv, NEW s \in Servers, NEW name \in SeedNames, NEW parent \in Ids \cup {NoId},
         InsertCategory(s, name, parent)
  PROVE  \/ NameTaken(name) /\ cats' = cats
         \/ /\ NewId \in Ids \ Stored /\ Stored' = Stored \cup {NewId}
            /\ cats'[NewId] = [name |-> name, parent |-> parent, by |-> s]
            /\ \A i \in Stored : cats'[i] = cats[i]
<1>1. CASE NameTaken(name) /\ UNCHANGED cats
  BY <1>1
<1>2. CASE /\ Unseen # {}
           /\ cats' = [cats EXCEPT ![NewId] = [name |-> name, parent |-> parent, by |-> s]]
  <2> DEFINE row == [name |-> name, parent |-> parent, by |-> s]
  <2>1. row \in Rows
    BY DEF Rows, Names
  <2>2. NewId \in Ids /\ NewId \notin Stored
    BY <1>2, NewIdIsNew
  <2>3. \A i \in Ids : cats'[i] = IF i = NewId THEN row ELSE cats[i]
    BY <1>2 DEF RInv, SInv, CatalogOK
  <2> HIDE DEF row
  <2>4. Stored' = Stored \cup {NewId}
    BY <2>1, <2>2, <2>3, RowsAssumption DEF Stored
  <2>5. cats'[NewId] = row /\ \A i \in Stored : cats'[i] = cats[i]
    BY <2>2, <2>3 DEF Stored
  <2>6. QED
    BY <2>2, <2>4, <2>5 DEF row
<1>3. QED
  BY <1>1, <1>2 DEF InsertCategory

\* A name that is taken and not pending is one the server reads.
LEMMA TakenIsSeen ==
  ASSUME NEW s, NEW name, NameTaken(name), ~NamePending(s, name)
  PROVE  \E i \in Visible(s, name) : i \in Stored
BY DEF NameTaken, NamePending, Visible

LEMMA ParentDone ==
  ASSUME RInv, Done0, NEW s \in Servers, SeedParent(s)
  PROVE  Done0'
<1>1. PICK name \in SeedNames :
        /\ name = This(s).name /\ ~NamePending(s, name) /\ InsertCategory(s, name, NoId)
        /\ Advance(s) /\ UNCHANGED <<units, links>>
  BY StatementNames DEF SeedParent
<1>2. PICK n \in 1..Size :
        at[s] = n /\ Script(s)[n].kind = "parent" /\ Script(s)[n].name = name
  BY <1>1, OnIs DEF SeedParent
<1>3. name \in ElementsOf(ParentSeeds)
  BY <1>2, ScriptInserts
<1>4. Script(s)' = Script(s)
  BY DEF Script
<1>5. CASE NameTaken(name) /\ cats' = cats
  <2>1. PICK i \in Visible(s, name) : i \in Stored
    BY <1>1, <1>5, TakenIsSeen
  <2>2. Planned(i) /\ cats[i].name = name
    BY <2>1 DEF Done0, TreeShape, Visible
  <2>3. cats[i].parent = NoId
    BY <1>3, <2>2, TreeAssumption DEF Planned
  <2>4. i \in Visible(s, name)' /\ cats'[i].parent = NoId
    BY <1>5, <2>3 DEF Visible, Stored
  <2>5. Effect(s, n)'
    BY <1>2, <1>4, <2>4 DEF Effect
  <2>6. TreeShape'
    BY <1>5 DEF Done0, TreeShape, Planned, Stored
  <2>7. \A q \in Servers : ReadsOn(q)
    BY <1>1, <1>5 DEF ReadsOn, Stored
  <2>8. QED
    BY <1>1, <1>2, <2>5, <2>6, <2>7, AdvanceKeeps
<1>6. CASE /\ NewId \in Ids \ Stored /\ Stored' = Stored \cup {NewId}
           /\ cats'[NewId] = [name |-> name, parent |-> NoId, by |-> s]
           /\ \A i \in Stored : cats'[i] = cats[i]
  <2>1. NewId \in Visible(s, name)' /\ cats'[NewId].parent = NoId
    BY <1>6 DEF Visible, Sees
  <2>2. Effect(s, n)'
    BY <1>2, <1>4, <2>1 DEF Effect
  <2>3. TreeShape'
    <3> SUFFICES ASSUME NEW i \in Stored' PROVE Planned(i)'
      BY DEF TreeShape
    <3>1. CASE i = NewId
      BY <1>3, <1>6, <3>1 DEF Planned
    <3>2. CASE i # NewId
      <4>1. i \in Stored /\ Planned(i)
        BY <1>6, <3>2 DEF Done0, TreeShape
      <4>2. QED
        BY <1>6, <4>1 DEF Planned
    <3>3. QED
      BY <3>1, <3>2
  <2>4. \A q \in Servers : ReadsOn(q)
    BY <1>1, <1>6 DEF ReadsOn
  <2>5. QED
    BY <1>1, <1>2, <2>2, <2>3, <2>4, AdvanceKeeps
<1>7. QED
  BY <1>1, <1>5, <1>6, Inserted

LEMMA ChildDone ==
  ASSUME RInv, Done0, NEW s \in Servers, SeedChild(s)
  PROVE  Done0'
<1>1. PICK name, of, f :
        /\ name \in SeedNames /\ name = This(s).name /\ of = This(s).of /\ f = found[s] /\ f # NoId
        /\ ~NamePending(s, name) /\ InsertCategory(s, name, f)
        /\ Advance(s) /\ UNCHANGED <<units, links>>
  BY StatementNames DEF SeedChild
<1>2. PICK n \in 1..Size :
        /\ at[s] = n /\ Script(s)[n].kind = "child"
        /\ Script(s)[n].name = name /\ Script(s)[n].of = of
  BY <1>1, OnIs DEF SeedChild
<1>3. PICK c \in ElementsOf(ChildSeeds) : name = c[1] /\ of = c[2]
  BY <1>2, ScriptInserts
<1>4. f \in Visible(s, of) /\ f \in Ids \cup {NoId}
  BY <1>1 DEF Done0, FoundNamed, Visible, Stored
<1>5. Script(s)' = Script(s)
  BY DEF Script
<1>6. CASE NameTaken(name) /\ cats' = cats
  <2>1. PICK i \in Visible(s, name) : i \in Stored
    BY <1>1, <1>6, TakenIsSeen
  <2>2. Planned(i) /\ cats[i].name = name /\ Sees(s, cats[i].by)
    BY <2>1 DEF Done0, TreeShape, Visible
  <2>3. cats[i].parent \in Stored /\ cats[cats[i].parent].name = of
    BY <1>3, <2>2, TreeAssumption DEF Planned
  <2>4. cats[i].parent # NoId
    BY <2>3, SeedingAssumption DEF Stored
  <2>5. cats[cats[i].parent].by \in {Nobody, cats[i].by}
    BY <2>1, <2>4 DEF RInv, RowsOK, ParentsThere
  <2>6. cats[i].parent \in Visible(s, of)
    BY <2>2, <2>3, <2>5 DEF Visible, Sees
  <2>7. i \in Visible(s, name)' /\ cats'[i].parent \in Visible(s, of)'
    BY <1>6, <2>1, <2>6 DEF Visible, Stored
  <2>8. Effect(s, n)'
    BY <1>2, <1>5, <2>7 DEF Effect
  <2>9. TreeShape'
    BY <1>6 DEF Done0, TreeShape, Planned, Stored
  <2>10. \A q \in Servers : ReadsOn(q)
    BY <1>1, <1>6 DEF ReadsOn, Stored
  <2>11. QED
    BY <1>1, <1>2, <2>8, <2>9, <2>10, AdvanceKeeps
<1>7. CASE /\ NewId \in Ids \ Stored /\ Stored' = Stored \cup {NewId}
           /\ cats'[NewId] = [name |-> name, parent |-> f, by |-> s]
           /\ \A i \in Stored : cats'[i] = cats[i]
  <2>1. \A q \in Servers : ReadsOn(q)
    BY <1>1, <1>7 DEF ReadsOn
  <2>2. NewId \in Visible(s, name)' /\ cats'[NewId].parent = f
    BY <1>7 DEF Visible, Sees
  <2>3. f \in Visible(s, of)'
    BY <1>4, <2>1, VisibleKept
  <2>4. Effect(s, n)'
    BY <1>2, <1>5, <2>2, <2>3 DEF Effect
  <2>5. TreeShape'
    <3> SUFFICES ASSUME NEW i \in Stored' PROVE Planned(i)'
      BY DEF TreeShape
    <3>1. CASE i = NewId
      <4>1. f \in Stored' /\ cats'[f].name = of
        BY <2>3 DEF Visible
      <4>2. QED
        BY <1>3, <1>7, <3>1, <4>1 DEF Planned
    <3>2. CASE i # NewId
      <4>1. i \in Stored /\ Planned(i)
        BY <1>7, <3>2 DEF Done0, TreeShape
      <4>2. QED
        BY <1>7, <4>1 DEF Planned
    <3>3. QED
      BY <3>1, <3>2
  <2>6. QED
    BY <1>1, <1>2, <2>1, <2>4, <2>5, AdvanceKeeps
<1>8. QED
  BY <1>1, <1>4, <1>6, <1>7, Inserted

\* What a child or a link needs has been inserted by earlier statements.
LEMMA Findable ==
  ASSUME RInv, Done0, NEW s \in Servers, On(s, {"child", "link"})
  PROVE  /\ \E i \in Visible(s, This(s).of) : TRUE
         /\ On(s, {"link"}) => Sees(s, units[This(s).name])
<1>1. PICK n \in 1..Size :
        at[s] = n /\ This(s) = Script(s)[n] /\ Script(s)[n].kind \in {"child", "link"}
  BY ScriptIs DEF On, This
<1>2. /\ Script(s)[n] \in Kinds
      /\ \A k \in 1..Size : k < n => Effect(s, k)
  <2>1. Script(s) \in Seq(Kinds) /\ Len(Script(s)) = Size /\ Size \in Nat
        /\ CommitAt(s) = Size + 1
    BY ScriptType, ScriptIs
  <2>2. Script(s)[n] \in Kinds
    BY <2>1
  <2>3. n <= CommitAt(s)
    BY <2>1
  <2>4. QED
    BY <1>1, <2>2, <2>3 DEF Done0, DoneBefore
<1>3. ASSUME NEW name \in ElementsOf(ParentSeeds)
      PROVE  \E i \in Visible(s, name) : TRUE
  <2>1. PICK k \in 1..Size : Script(s)[k].kind = "parent" /\ Script(s)[k].name = name
    BY ScriptHas
  <2>2. k < n
    BY <1>1, <2>1, ScriptOrder DEF Before
  <2>3. QED
    BY <1>2, <2>1, <2>2 DEF Effect
<1>4. CASE Script(s)[n].kind = "child"
  <2>1. Script(s)[n].of \in ElementsOf(ParentSeeds)
    BY <1>4, ScriptInserts, SeedingAssumption
  <2>2. ~On(s, {"link"})
    BY <1>1, <1>4 DEF On, This
  <2>3. QED
    BY <1>1, <1>3, <2>1, <2>2
<1>5. CASE Script(s)[n].kind = "link"
  <2>1. Script(s)[n].of \in SeedNames /\ Script(s)[n].name \in UnitNames
    BY <1>2, <1>5 DEF Kinds
  <2>2. ASSUME NEW c \in ElementsOf(ChildSeeds), c[1] = Script(s)[n].of
        PROVE  \E i \in Visible(s, c[1]) : TRUE
    <3>1. PICK k \in 1..Size : Script(s)[k].kind = "child" /\ Script(s)[k].name = c[1]
      BY ScriptHas
    <3>2. k < n
      BY <1>5, <3>1, ScriptOrder DEF Before
    <3>3. QED
      BY <1>2, <3>1, <3>2 DEF Effect
  <2>3. \E i \in Visible(s, Script(s)[n].of) : TRUE
    BY <1>3, <2>1, <2>2 DEF SeedNames
  <2>4. PICK k \in 1..Size : Script(s)[k].kind = "unit" /\ Script(s)[k].name = Script(s)[n].name
    BY <2>1, ScriptHas
  <2>5. k < n
    BY <1>5, <2>4, ScriptOrder DEF Before
  <2>6. Sees(s, units[Script(s)[n].name])
    BY <1>2, <2>4, <2>5 DEF Effect
  <2>7. QED
    BY <1>1, <2>3, <2>6
<1>6. QED
  BY <1>1, <1>4, <1>5

LEMMA FindDone ==
  ASSUME RInv, Done0, NEW s \in Servers, FindCategory(s)
  PROVE  Done0'
<1> DEFINE UnitSeen == units[This(s).name] # NoRow /\ Sees(s, units[This(s).name])
           ids == {i \in Visible(s, This(s).of) : On(s, {"link"}) => UnitSeen}
<1>1. UNCHANGED <<units, cats, links>> /\ On(s, {"child", "link"})
  BY DEF FindCategory, catalog
<1>2. ids # {}
  BY <1>1, Findable, NoRowUnseen
<1>3. UNCHANGED at /\ found' = [found EXCEPT ![s] = CHOOSE i \in ids : TRUE]
  BY <1>2 DEF FindCategory
<1>4. PICK f : f \in ids /\ f = CHOOSE i \in ids : TRUE
  BY <1>2
<1>5. f \in Visible(s, This(s).of) /\ found' = [found EXCEPT ![s] = f]
  BY <1>3, <1>4
<1> HIDE DEF ids
<1>6. found'[s] = f /\ \A q \in Servers \ {s} : found'[q] = found[q]
  BY <1>5 DEF RInv, SInv, CatalogOK
<1>7. \A q \in Servers : ReadsOn(q)
  BY <1>1 DEF ReadsOn, Stored
<1>8. TreeShape'
  BY <1>1 DEF Done0, TreeShape, Planned, Stored
<1>9. found'[s] \in Visible(s, This(s).of)'
  <2>1. This(s)' = This(s)
    BY <1>3 DEF This, Script
  <2>2. Visible(s, This(s).of)' = Visible(s, This(s).of)
    BY <1>1, <2>1 DEF Visible, Stored
  <2>3. QED
    BY <1>5, <1>6, <2>2
<1>10. \A k \in 1..Size : k < at'[s] /\ at'[s] <= CommitAt(s) => Effect(s, k)'
  BY <1>3, <1>7, EffectKept DEF Done0, DoneBefore
<1>11. \A q \in Servers \ {s} : ReadsOn(q) /\ at'[q] = at[q] /\ found'[q] = found[q]
  BY <1>3, <1>6, <1>7
<1>12. QED
  BY <1>8, <1>9, <1>10, <1>11, StepKeeps

LEMMA LinkDone ==
  ASSUME RInv, Done0, NEW s \in Servers, SeedLink(s)
  PROVE  Done0'
<1>1. PICK name, of, f :
        /\ name = This(s).name /\ of = This(s).of /\ f = found[s] /\ f # NoId
        /\ Advance(s) /\ UNCHANGED <<units, cats>>
        /\ LET same == {l \in links : l.category = f /\ l.unit = name} IN
           /\ \A l \in same : Sees(s, l.by)
           /\ links' = IF same # {} THEN links
                       ELSE links \cup {[category |-> f, unit |-> name, by |-> s]}
  BY DEF SeedLink
<1>2. PICK n \in 1..Size :
        /\ at[s] = n /\ Script(s)[n].kind = "link"
        /\ Script(s)[n].name = name /\ Script(s)[n].of = of
  <2>1. On(s, {"link"})
    BY DEF SeedLink
  <2>2. at[s] \in 1..Size /\ This(s).kind = "link" /\ This(s) = Script(s)[at[s]]
    BY <2>1, OnIs
  <2>3. QED
    BY <1>1, <2>2
<1>3. f \in Visible(s, of)
  BY <1>1 DEF Done0, FoundNamed
<1>4. links \subseteq links'
      /\ \E l \in links' : l.category = f /\ l.unit = name /\ Sees(s, l.by)
  <2>1. CASE \E l \in links : l.category = f /\ l.unit = name
    BY <1>1, <2>1
  <2>2. CASE ~\E l \in links : l.category = f /\ l.unit = name
    <3> DEFINE l0 == [category |-> f, unit |-> name, by |-> s]
    <3>1. links' = links \cup {l0}
      BY <1>1, <2>2
    <3>2. l0.category = f /\ l0.unit = name /\ Sees(s, l0.by)
      BY DEF Sees
    <3> HIDE DEF l0
    <3>3. QED
      BY <3>1, <3>2
  <2>3. QED
    BY <2>1, <2>2
<1>5. \A q \in Servers : ReadsOn(q)
  BY <1>1, <1>4 DEF ReadsOn, Stored
<1>6. TreeShape'
  BY <1>1 DEF Done0, TreeShape, Planned, Stored
<1>7. f \in Visible(s, of)' /\ Script(s)' = Script(s)
  BY <1>1, <1>3 DEF Visible, Stored, Script
<1>8. Effect(s, n)'
  BY <1>2, <1>4, <1>7 DEF Effect, Sees
<1>9. QED
  BY <1>1, <1>2, <1>5, <1>6, <1>8, AdvanceKeeps

\* Rows of s that become rows of nobody are the same rows to the others.
LEMMA CommitDone ==
  ASSUME RInv, Done0, NEW s \in Servers, SeedCommit(s)
  PROVE  Done0'
<1>1. Advance(s) /\ at[s] = Size + 1 /\ Size \in Nat /\ CommitAt(s) = Size + 1
      /\ at[s] \in 1..CommitAt(s)
  BY ScriptIs DEF SeedCommit
<1>2. \A i \in Ids : /\ cats'[i] = NoRow <=> cats[i] = NoRow
                     /\ cats[i] # NoRow =>
                          /\ cats'[i] = [cats[i] EXCEPT !.by = Committed(s, cats[i].by)]
                          /\ cats'[i].name = cats[i].name /\ cats'[i].parent = cats[i].parent
                          /\ cats[i].by # s => cats'[i] = cats[i]
  <2> TAKE i \in Ids
  <2>1. CASE cats[i] = NoRow
    BY <2>1 DEF SeedCommit
  <2>2. CASE cats[i] # NoRow
    <3>1. PICK n \in Names, p \in Ids \cup {NoId}, b \in Servers \cup {Nobody} :
            cats[i] = [name |-> n, parent |-> p, by |-> b]
      BY <2>2 DEF RInv, SInv, CatalogOK, Rows
    <3>2. cats'[i] = [name |-> n, parent |-> p, by |-> Committed(s, b)]
      BY <2>2, <3>1 DEF SeedCommit
    <3>3. cats'[i] \in Rows
      BY <3>2 DEF Rows, Committed
    <3>4. cats'[i] # NoRow
      BY <3>3, RowsAssumption
    <3>5. b # s => Committed(s, b) = b
      BY DEF Committed
    <3>6. QED
      BY <2>2, <3>1, <3>2, <3>4, <3>5
  <2>3. QED
    BY <2>1, <2>2
<1>3. Stored' = Stored
  BY <1>2 DEF Stored
<1>4. ASSUME NEW q \in Servers \ {s}
      PROVE  ReadsOn(q)
  <2>1. \A by : Sees(q, by) => by # s
    BY SeedingAssumption DEF Sees
  <2>2. \A i \in Stored : Sees(q, cats[i].by) => i \in Stored' /\ cats'[i] = cats[i]
    BY <1>2, <1>3, <2>1 DEF Stored
  <2>3. \A u \in UnitNames : Sees(q, units[u]) => units'[u] = units[u]
    BY <2>1 DEF SeedCommit, Committed
  <2>4. ASSUME NEW l \in links, Sees(q, l.by)
        PROVE  l \in links'
    <3>1. PICK c \in Ids, u \in UnitNames, b \in Servers \cup {Nobody} :
            l = [category |-> c, unit |-> u, by |-> b]
      BY DEF RInv, SInv, CatalogOK, LinkRows
    <3>2. b # s
      BY <2>1, <2>4, <3>1
    <3>3. [l EXCEPT !.by = Committed(s, @)] = l
      BY <3>1, <3>2 DEF Committed
    <3>4. QED
      BY <3>3 DEF SeedCommit
  <2>5. QED
    BY <2>2, <2>3, <2>4 DEF ReadsOn
<1>5. TreeShape'
  <2> SUFFICES ASSUME NEW i \in Stored' PROVE Planned(i)'
    BY DEF TreeShape
  <2>1. i \in Stored /\ Planned(i) /\ i \in Ids
    BY <1>3 DEF Done0, TreeShape, Stored
  <2>2. \A j \in Stored : cats'[j].name = cats[j].name /\ cats'[j].parent = cats[j].parent
    BY <1>2 DEF Stored
  <2>3. QED
    BY <1>3, <2>1, <2>2 DEF Planned
<1>6. /\ at'[s] = at[s] + 1 /\ found'[s] = NoId
      /\ \A q \in Servers \ {s} : at'[q] = at[q] /\ found'[q] = found[q]
  BY <1>1, Advances
<1>7. ~(at'[s] <= CommitAt(s))
  BY <1>1, <1>6
<1>8. \A q \in Servers \ {s} : ReadsOn(q) /\ at'[q] = at[q] /\ found'[q] = found[q]
  BY <1>4, <1>6
<1>9. QED
  BY <1>5, <1>6, <1>7, <1>8, StepKeeps

\* A rollback takes rows that only s reads.
LEMMA FailDone ==
  ASSUME RInv, Done0, NEW s \in Servers, SeedFails(s)
  PROVE  Done0'
<1>1. /\ units' = [u \in UnitNames |-> IF units[u] = s THEN NoRow ELSE units[u]]
      /\ \A i \in Ids : cats'[i] = IF cats[i] # NoRow /\ cats[i].by = s THEN NoRow ELSE cats[i]
      /\ links' = {l \in links : l.by # s}
      /\ at' = [at EXCEPT ![s] = 0] /\ found' = [found EXCEPT ![s] = NoId]
  BY DEF SeedFails, Rollback, Down
<1>2. \A i \in Stored : cats[i].by # s => i \in Stored' /\ cats'[i] = cats[i]
  BY <1>1 DEF Stored
<1>3. \A i \in Stored' : i \in Stored /\ cats[i].by # s /\ cats'[i] = cats[i]
  <2>1. \A i \in Stored' : i \in Ids /\ cats'[i] # NoRow
    BY DEF Stored
  <2>2. QED
    BY <1>1, <2>1 DEF Stored
<1>4. ASSUME NEW q \in Servers \ {s}
      PROVE  ReadsOn(q)
  <2>1. \A by : Sees(q, by) => by # s
    BY SeedingAssumption DEF Sees
  <2>2. QED
    BY <1>1, <1>2, <2>1 DEF ReadsOn
<1>5. TreeShape'
  <2> SUFFICES ASSUME NEW i \in Stored' PROVE Planned(i)'
    BY DEF TreeShape
  <2>1. i \in Stored /\ Planned(i) /\ cats[i].by # s /\ cats'[i] = cats[i]
    BY <1>3 DEF Done0, TreeShape
  <2>2. s # Nobody
    BY SeedingAssumption
  <2>3. cats[i].parent # NoId =>
          cats[i].parent \in Stored' /\ cats'[cats[i].parent] = cats[cats[i].parent]
    BY <1>2, <2>1, <2>2 DEF RInv, RowsOK, ParentsThere
  <2>4. \A j \in Stored : j # NoId
    BY SeedingAssumption DEF Stored
  <2>5. QED
    BY <2>1, <2>3, <2>4 DEF Planned
<1>6. /\ at'[s] = 0 /\ found'[s] = NoId
      /\ \A q \in Servers \ {s} : at'[q] = at[q] /\ found'[q] = found[q]
  BY <1>1 DEF RInv, ServersOK, SInv, CatalogOK
<1>7. \A k \in 1..Size : ~(k < at'[s])
  BY <1>6
<1>8. \A q \in Servers \ {s} : ReadsOn(q) /\ at'[q] = at[q] /\ found'[q] = found[q]
  BY <1>4, <1>6
<1>9. QED
  BY <1>5, <1>6, <1>7, <1>8, StepKeeps

LEMMA StartStopDone ==
  ASSUME RInv, Done0, NEW s \in Servers, Boot(s) \/ Stop(s)
  PROVE  Done0'
<1>1. /\ UNCHANGED <<units, cats, links, found>>
      /\ at' = [at EXCEPT ![s] = 1] \/ at' = [at EXCEPT ![s] = 0]
      /\ at[s] = 0 \/ at[s] = Size + 2
  BY ScriptIs DEF Boot, Stop, catalog, Down
<1>2. found'[s] = NoId
  BY <1>1, ScriptIs DEF RInv, RowsOK, FoundSeen, On
<1>3. \A k \in 1..Size : ~(k < at'[s])
  BY <1>1 DEF RInv, ServersOK
<1>4. \A q \in Servers \ {s} : ReadsOn(q) /\ at'[q] = at[q] /\ found'[q] = found[q]
  BY <1>1 DEF ReadsOn, Stored, RInv, ServersOK
<1>5. TreeShape'
  BY <1>1 DEF Done0, TreeShape, Planned, Stored
<1>6. QED
  BY <1>2, <1>3, <1>4, <1>5, StepKeeps

LEMMA MigrationDone ==
  ASSUME RInv, Done0, NEW to \in 0..8, Upgrade(to) \/ Downgrade(to)
  PROVE  Done0'
<1>1. UNCHANGED <<at, found, edits>> /\ Quiet(DOMAIN schema)
  BY DEF Upgrade, Downgrade, seeding
<1>2. \A s \in Servers : ~Begun(s) /\ found[s] = NoId
  BY <1>1, MigrationAlone
<1>3. FoundNamed'
  BY <1>1, <1>2 DEF FoundNamed
<1>4. DoneBefore'
  <2> SUFFICES ASSUME NEW s \in Servers, NEW k \in 1..Size, k < at'[s], at'[s] <= CommitAt(s)
               PROVE  FALSE
    BY DEF DoneBefore, CommitAt, Script, Size
  <2>1. CommitAt(s) = Size + 1 /\ Size \in Nat /\ at[s] \in 0..(Size + 2) /\ at'[s] = at[s]
    BY <1>1, ScriptIs DEF RInv, ServersOK
  <2>2. Begun(s)
    BY <2>1 DEF Begun
  <2>3. QED
    BY <1>2, <2>2
<1>5. cats' \in {cats, [i \in Ids |-> NoRow]}
  BY DEF Upgrade, Downgrade, seeding, catalog
<1>6. TreeShape'
  BY <1>5 DEF Done0, TreeShape, Planned, Stored
<1>7. QED
  BY <1>3, <1>4, <1>6 DEF Done0

\* Every statement done, the commit shows all of it to everybody.
LEMMA CommitCompletes ==
  ASSUME RInv, Done0, NEW s \in Servers, SeedCommit(s)
  PROVE  Complete'
<1>1. \A k \in 1..Size : Effect(s, k)
  <2>1. at[s] = Size + 1 /\ CommitAt(s) = Size + 1 /\ Size \in Nat
    BY ScriptIs DEF SeedCommit
  <2>2. \A k \in 1..Size : k < at[s] /\ at[s] <= CommitAt(s)
    BY <2>1
  <2>3. QED
    BY <2>2 DEF Done0, DoneBefore
<1>2. \A by : Sees(s, by) => Committed(s, by) = Nobody
  BY DEF Sees, Committed
<1>3. ASSUME NEW name, NEW i \in Visible(s, name)
      PROVE  i \in Has(name)' /\ cats'[i].parent = cats[i].parent
  <2>1. i \in Ids /\ cats[i] # NoRow /\ cats[i].name = name /\ Sees(s, cats[i].by)
    BY DEF Visible, Stored
  <2>2. PICK n \in Names, p \in Ids \cup {NoId}, b \in Servers \cup {Nobody} :
          cats[i] = [name |-> n, parent |-> p, by |-> b]
    BY <2>1 DEF RInv, SInv, CatalogOK, Rows
  <2>3. cats'[i] = [name |-> n, parent |-> p, by |-> Committed(s, b)]
    BY <2>1, <2>2 DEF SeedCommit
  <2>4. cats'[i] \in Rows
    BY <2>3 DEF Rows, Committed
  <2>5. cats'[i] # NoRow /\ cats'[i].name = name /\ cats'[i].by = Nobody /\ cats'[i].parent = p
    BY <1>2, <2>1, <2>2, <2>3, <2>4, RowsAssumption
  <2>6. QED
    BY <2>1, <2>2, <2>5 DEF Has, Stored
<1>4. ASSUME NEW u \in UnitNames
      PROVE  units'[u] = Nobody
  <2>1. PICK k \in 1..Size : Script(s)[k].kind = "unit" /\ Script(s)[k].name = u
    BY ScriptHas
  <2>2. Sees(s, units[u])
    BY <1>1, <2>1 DEF Effect
  <2>3. QED
    BY <1>2, <2>2 DEF SeedCommit
<1>5. ASSUME NEW p \in ElementsOf(ParentSeeds)
      PROVE  \E i \in Has(p)' : cats'[i].parent = NoId
  <2>1. PICK k \in 1..Size : Script(s)[k].kind = "parent" /\ Script(s)[k].name = p
    BY ScriptHas
  <2>2. PICK i \in Visible(s, p) : cats[i].parent = NoId
    BY <1>1, <2>1 DEF Effect
  <2>3. QED
    BY <1>3, <2>2
<1>6. ASSUME NEW c \in ElementsOf(ChildSeeds)
      PROVE  \E i \in Has(c[1])', j \in Has(c[2])' : cats'[i].parent = j
  <2>1. PICK k \in 1..Size :
          Script(s)[k].kind = "child" /\ Script(s)[k].name = c[1] /\ Script(s)[k].of = c[2]
    BY ScriptHas
  <2>2. PICK i \in Visible(s, c[1]) : cats[i].parent \in Visible(s, c[2])
    BY <1>1, <2>1 DEF Effect
  <2>3. PICK j : j = cats[i].parent
    OBVIOUS
  <2>4. j \in Has(c[2])' /\ i \in Has(c[1])' /\ cats'[i].parent = j
    BY <1>3, <2>2, <2>3
  <2>5. QED
    BY <2>4
<1>7. ASSUME NEW d \in ElementsOf(LinkSeeds)
      PROVE  \E i \in Has(d[1])' : [category |-> i, unit |-> d[2], by |-> Nobody] \in links'
  <2>1. PICK k \in 1..Size :
          Script(s)[k].kind = "link" /\ Script(s)[k].name = d[2] /\ Script(s)[k].of = d[1]
    BY ScriptHas
  <2>2. PICK i \in Visible(s, d[1]), l \in links :
          l.category = i /\ l.unit = d[2] /\ Sees(s, l.by)
    BY <1>1, <2>1 DEF Effect
  <2>3. PICK c \in Ids, u \in UnitNames, b \in Servers \cup {Nobody} :
          l = [category |-> c, unit |-> u, by |-> b]
    BY DEF RInv, SInv, CatalogOK, LinkRows
  <2>4. [l EXCEPT !.by = Committed(s, @)] = [category |-> i, unit |-> d[2], by |-> Nobody]
    BY <1>2, <2>2, <2>3
  <2>5. [category |-> i, unit |-> d[2], by |-> Nobody] \in links'
    BY <2>4 DEF SeedCommit
  <2>6. QED
    BY <1>3, <2>2, <2>5
<1>8. QED
  BY <1>4, <1>5, <1>6, <1>7 DEF Complete

LEMMA UnreadDone ==
  ASSUME RInv, Done0, UNCHANGED <<units, cats, links, at, found>>
  PROVE  Done0'
<1>1. Stored' = Stored /\ \A q \in Servers : ReadsOn(q) /\ This(q)' = This(q)
  BY DEF Stored, ReadsOn, This, Script
<1>2. TreeShape'
  BY <1>1 DEF Done0, TreeShape, Planned
<1>3. FoundNamed'
  <2> SUFFICES ASSUME NEW q \in Servers, found'[q] # NoId
               PROVE  found'[q] \in Visible(q, This(q).of)'
    BY DEF FoundNamed
  <2>1. found[q] \in Visible(q, This(q).of)
    BY DEF Done0, FoundNamed
  <2>2. Visible(q, This(q).of)' = Visible(q, This(q).of)
    BY <1>1 DEF Visible
  <2>3. QED
    BY <2>1, <2>2
<1>4. DoneBefore'
  <2> SUFFICES ASSUME NEW q \in Servers, NEW k \in 1..Size, k < at'[q], at'[q] <= CommitAt(q)
               PROVE  Effect(q, k)'
    BY DEF DoneBefore, CommitAt, Script, Size
  <2>1. QED
    BY <1>1, EffectKept DEF Done0, DoneBefore
<1>5. QED
  BY <1>2, <1>3, <1>4 DEF Done0

LEMMA NextDone ==
  ASSUME DInv, [Next]_vars
  PROVE  DInv'
<1>1. RInv' /\ RInv
  BY NextRows DEF DInv
<1>2. CASE edits # 0
  <2>1. edits \in Nat /\ (edits' = edits \/ edits' = edits + 1)
    <3>1. edits \in Nat
      BY <1>1, SeedingAssumption DEF RInv, ServersOK
    <3>2. ASSUME NEW s \in Servers, Starts(s) \/ Seed(s) \/ Refused(s) \/ Fails(s) \/ Stops(s)
          PROVE  edits' = edits
      BY <3>2 DEF Starts, Seed, Refused, Fails, Stops, Boot, Stop, SeedFails, Statement, SeedUnit,
                  SeedParent, FindCategory, SeedChild, SeedLink, SeedCommit, Advance
    <3>3. ASSUME NEW to, Upgrade(to) \/ Downgrade(to)
          PROVE  edits' = edits
      BY <3>3 DEF Upgrade, Downgrade, seeding
    <3>4. ASSUME PanelEdit
          PROVE  edits' = edits + 1
      BY <3>4 DEF PanelEdit, Panel, PanelCreate, PanelUpdate, PanelDelete, PanelEdits
    <3>5. ASSUME UNCHANGED vars \/ \E email \in Admins : SeedAdmin(email)
          PROVE  edits' = edits
      BY <3>5 DEF vars, SeedAdmin, seeding
    <3>6. QED
      BY <3>1, <3>2, <3>3, <3>4, <3>5 DEF Next
  <2>2. edits' # 0
    BY <1>2, <2>1
  <2>3. QED
    BY <1>1, <2>2 DEF DInv
<1>3. CASE edits = 0
  <2>1. RInv /\ Done0
    BY <1>1, <1>3 DEF DInv
  <2>2. ASSUME NEW to \in BaseRevision..HeadRevision, Upgrade(to) \/ Downgrade(to)
        PROVE  Done0'
    BY <2>1, <2>2, ChainLength, MigrationDone
  <2>3. ASSUME NEW s \in Servers, Starts(s) \/ Refused(s) \/ Fails(s) \/ Stops(s)
        PROVE  Done0'
    BY <2>1, <2>3, StartStopDone, FailDone DEF Starts, Stops, Refused, Fails
  <2>4. ASSUME NEW s \in Servers, Seed(s)
        PROVE  Done0'
    BY <2>1, <2>4, UnitDone, ParentDone, FindDone, ChildDone, LinkDone, CommitDone
       DEF Seed, Statement
  <2>5. ASSUME UNCHANGED <<units, cats, links, at, found>>
        PROVE  Done0'
    BY <2>1, <2>5, UnreadDone
  <2>6. ASSUME UNCHANGED vars \/ \E email \in Admins : SeedAdmin(email)
        PROVE  UNCHANGED <<units, cats, links, at, found>>
    BY <2>6 DEF vars, SeedAdmin, seeding, catalog
  <2>7. ASSUME PanelEdit
        PROVE  edits' # 0
    <3>1. edits' = edits + 1
      BY <2>7 DEF PanelEdit, Panel, PanelCreate, PanelUpdate, PanelDelete, PanelEdits
    <3>2. QED
      BY <1>3, <3>1
  <2>8. edits' = 0 => Done0'
    <3>1. CASE \E to \in BaseRevision..HeadRevision : Upgrade(to) \/ Downgrade(to)
      BY <2>2, <3>1
    <3>2. CASE \E q \in Servers : Starts(q) \/ Seed(q) \/ Refused(q) \/ Fails(q) \/ Stops(q)
      BY <2>3, <2>4, <3>2
    <3>3. CASE UNCHANGED vars \/ \E email \in Admins : SeedAdmin(email)
      BY <2>5, <2>6, <3>3
    <3>4. CASE PanelEdit
      BY <2>7, <3>4
    <3>5. QED
      BY <3>1, <3>2, <3>3, <3>4 DEF Next
  <2>9. QED
    BY <1>1, <2>8 DEF DInv
<1>4. QED
  BY <1>2, <1>3

LEMMA InitDone == Init => DInv
<1> SUFFICES ASSUME Init PROVE DInv
  OBVIOUS
<1>1. RInv
  BY InitRows
<1>2. Stored = {} /\ at = [s \in Servers |-> 0] /\ found = [s \in Servers |-> NoId]
  BY DEF Init, SeedingInit, Stored, Down
<1>3. TreeShape /\ FoundNamed
  BY <1>2 DEF TreeShape, FoundNamed
<1>4. DoneBefore
  <2>1. \A s \in Servers : \A k \in 1..Size : ~(k < at[s])
    BY <1>2
  <2>2. QED
    BY <2>1 DEF DoneBefore
<1>5. QED
  BY <1>1, <1>3, <1>4 DEF DInv, Done0

\* The effects of the statements a process has executed are still there when it
\* executes the next one, whoever else inserts, commits, rolls back or migrates.
THEOREM SeedingInvariance == Spec => []DInv
<1>1. DInv /\ [Next]_vars => DInv'
  BY NextDone
<1>2. QED
  BY <1>1, InitDone, PTL DEF Spec

\* Only its commit lets a process serve.
LEMMA ServesByCommit ==
  ASSUME RInv, [Next]_vars, NEW s \in Servers, at[s] # Serving(s), at'[s] = Serving(s)
  PROVE  SeedCommit(s)
<1>1. at \in [Servers -> 0..(Size + 2)] /\ Size \in Nat \ {0}
      /\ \A q \in Servers : Serving(q) = Size + 2 /\ CommitAt(q) = Size + 1
  BY ScriptIs DEF RInv, ServersOK
<1>2. at'[s] # at[s] /\ at'[s] \notin {0, 1}
  BY <1>1
<1>3. ASSUME NEW q \in Servers, Starts(q) \/ Refused(q) \/ Fails(q) \/ Stops(q)
      PROVE  FALSE
  <2>1. at' = [at EXCEPT ![q] = 1] \/ at' = [at EXCEPT ![q] = 0]
    BY <1>3 DEF Starts, Stops, Refused, Fails, Boot, Stop, SeedFails, Down
  <2>2. QED
    BY <1>1, <1>2, <2>1
<1>4. at' # at
  BY <1>2
<1>5. PICK q \in Servers : Seed(q)
  <2>1. ASSUME NEW to, Upgrade(to) \/ Downgrade(to)
        PROVE  FALSE
    BY <1>4, <2>1 DEF Upgrade, Downgrade, seeding
  <2>2. ASSUME NEW email \in Admins, SeedAdmin(email)
        PROVE  FALSE
    BY <1>4, <2>2 DEF SeedAdmin, seeding
  <2>3. ASSUME PanelEdit \/ UNCHANGED vars
        PROVE  FALSE
    BY <1>4, <2>3 DEF PanelEdit, Panel, PanelCreate, PanelUpdate, PanelDelete, PanelEdits,
                      vars, seeding
  <2>4. QED
    BY <1>3, <2>1, <2>2, <2>3 DEF Next
<1>6. Statement(q)
  BY <1>5 DEF Seed
<1>7. CASE SeedCommit(q)
  <2>1. q = s
    BY <1>1, <1>2, <1>7 DEF SeedCommit, Advance
  <2>2. QED
    BY <1>7, <2>1
<1>8. CASE SeedUnit(q) \/ SeedParent(q) \/ FindCategory(q) \/ SeedChild(q) \/ SeedLink(q)
  <2>1. at[q] \in 1..Size /\ (Advance(q) \/ at' = at)
    BY <1>8, ScriptIs DEF SeedUnit, SeedParent, FindCategory, SeedChild, SeedLink, On
  <2>2. at' = [at EXCEPT ![q] = at[q] + 1]
    BY <1>4, <2>1 DEF Advance
  <2>3. QED
    BY <1>1, <1>2, <2>1, <2>2
<1>9. QED
  BY <1>6, <1>7, <1>8 DEF Statement

\* As long as the panel has changed nothing, a process that starts to serve
\* finds every unit, category and link of the seeds, for any seeds in which a
\* leaf has one parent, and any number of processes that fail half way.
THEOREM StartedSeeded == Spec => StartedIsSeeded
<1>1. DInv /\ [Next]_vars =>
        [\A s \in Servers :
           at[s] # Serving(s) /\ at'[s] = Serving(s) /\ edits = 0 => Complete']_vars
  BY ServesByCommit, CommitCompletes DEF DInv
<1>2. QED
  BY <1>1, SeedingInvariance, PTL DEF Spec, StartedIsSeeded

=============================================================================
