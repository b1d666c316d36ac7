----------------------------- MODULE Deployment -----------------------------
(***************************************************************************)
(* The life of an installation: an operator migrates the database up and   *)
(* down and seeds an administrator, server processes start, seed and stop, *)
(* and the panel they serve edits the categories.                          *)
(***************************************************************************)
EXTENDS Migrations, Seeding, FiniteSets

CONSTANT Admins  \* e-mail addresses an operator may seed

VARIABLES
  users,      \* the accounts
  beenAtHead  \* history: the database has been at the last revision

vars == <<migrations, seeding, users, beenAtHead>>

TypeOK ==
  /\ revision \in BaseRevision..HeadRevision
  /\ units \in [UnitNames -> Servers \cup {NoRow, Nobody}]
  /\ cats \in [Ids -> Rows \cup {NoRow}]
  /\ links \subseteq [category : Ids, unit : UnitNames, by : Servers \cup {Nobody}]
  /\ \A s \in Servers : at[s] \in Down..Serving(s)
  /\ found \in [Servers -> Ids \cup {NoId}]
  /\ edits \in 0..MaxEdits
  /\ users \subseteq Admins /\ beenAtHead \in BOOLEAN
  \* The unique key and the foreign keys.
  /\ \A i, j \in Stored : cats[i].name = cats[j].name => i = j
  /\ \A i \in Stored : cats[i].parent \in Stored \cup {NoId}
  /\ \A l \in links : l.category \in Stored /\ units[l.unit] # NoRow

Init == MigrationsInit /\ SeedingInit /\ users = {} /\ beenAtHead = FALSE

-----------------------------------------------------------------------------
(* Migrations                                                              *)

\* DDL waits for the transactions that use its tables.
Quiet(names) == \A s \in Servers : Touched(s) \cap names = {}

Upgrade(to) ==
  /\ Quiet(DOMAIN schema)
  /\ UpgradeTo(to)
  /\ beenAtHead' = (beenAtHead \/ to = HeadRevision)
  /\ UNCHANGED <<seeding, users>>

Populated == IF users = {} THEN {} ELSE {"users"}

\* The rows of a dropped table are gone.
Downgrade(to) ==
  /\ Quiet(DOMAIN schema)
  /\ DowngradeTo(to, Populated)
  /\ users' = IF "users" \in DOMAIN schema' THEN users ELSE {}
  /\ units' = IF "units" \in DOMAIN schema' THEN units ELSE [u \in UnitNames |-> NoRow]
  /\ links' = IF "category_units" \in DOMAIN schema' THEN links ELSE {}
  /\ cats' = IF "categories" \in DOMAIN schema' THEN cats ELSE [i \in Ids |-> NoRow]
  /\ UNCHANGED <<at, found, edits, beenAtHead>>

\* AdminSeeder.seed: an INSERT that names no subscription_tier, and leaves an
\* account that is there alone.
SeedAdmin(email) ==
  /\ HasTables({"users"})
  /\ schema["users"].required \subseteq UserModels["users"].required
  /\ users' = users \cup {email}
  /\ UNCHANGED <<migrations, seeding, beenAtHead>>

-----------------------------------------------------------------------------
(* Servers                                                                 *)

TableOf(kind) ==
  CASE kind = "unit" -> "units" [] kind = "link" -> "category_units" [] OTHER -> "categories"

\* The statement's table is there.
Executable(s) == at[s] \in 1..Len(Script(s)) => HasTables({TableOf(This(s).kind)})

Seed(s) == Executable(s) /\ Statement(s) /\ UNCHANGED <<migrations, users, beenAtHead>>

\* A statement that cannot succeed fails; any other may.
Refused(s) ==
  /\ SeedingNow(s) /\ (~Executable(s) \/ Orphaned(s))
  /\ SeedFails(s)
  /\ UNCHANGED <<migrations, users, beenAtHead>>

Fails(s) == SeedFails(s) /\ UNCHANGED <<migrations, users, beenAtHead>>

Starts(s) == Boot(s) /\ UNCHANGED <<migrations, users, beenAtHead>>
Stops(s) == Stop(s) /\ UNCHANGED <<migrations, users, beenAtHead>>

\* A serving process answers the panel's forms; the ORM reads every column.
PanelEdit ==
  /\ \E s \in Servers : at[s] = Serving(s)
  /\ schema["categories"] = CategoryModels["categories"]
  /\ Panel
  /\ UNCHANGED <<migrations, users, beenAtHead>>

Next ==
  \/ \E to \in BaseRevision..HeadRevision : Upgrade(to) \/ Downgrade(to)
  \/ \E email \in Admins : SeedAdmin(email)
  \/ \E s \in Servers : Starts(s) \/ Seed(s) \/ Refused(s) \/ Fails(s) \/ Stops(s)
  \/ PanelEdit

\* A process that has begun to seed goes on.  Strong fairness: one that waits
\* for a row gets it when the other transaction ends, ahead of whoever starts
\* afterwards.
Fairness == \A s \in Servers : SF_seeding(Seed(s) \/ Refused(s))

Spec == Init /\ [][Next]_vars /\ Fairness

-----------------------------------------------------------------------------
(* Properties                                                              *)

\* The database a command leaves depends on the revision alone, whichever way
\* up and down led there: its tables, columns, keys and references are those
\* of the same revision reached from an empty database.
FreshSchema ==
  [r \in BaseRevision..HeadRevision |->
     Upgrading([schema |-> <<>>, types |-> {}], BaseRevision, r).db.schema]

SchemaFollowsRevision == schema = FreshSchema[revision]

\* At the head the tables fit the models but for one: every other model finds
\* its table with exactly the columns, unique keys and foreign keys it maps, and
\* no NOT NULL column it does not know; AIUsageLog, which every recipe job
\* inserts, finds none, since no revision creates ai_usage_logs.
HeadLacksUsageLogsOnly ==
  revision = HeadRevision =>
    \A models \in Metadata : \A t \in DOMAIN models :
      /\ t \in DOMAIN schema <=> t # "ai_usage_logs"
      /\ t \in DOMAIN schema => schema[t] = models[t]

\* Nothing an operator does with alembic or the admin seeder loses an account,
\* although the downgrade to base drops the table of the accounts: by then a
\* revision in between has refused to go down.
AccountsAreKept == [][users \subseteq users']_vars

\* A database that has been at the head and was taken down never gets back to
\* it: the downgrade leaves an enum type behind that the upgrade would create,
\* and no downgrade reaches a revision from which it could start afresh.
HeadIsLeftForGood ==
  [][beenAtHead /\ revision < HeadRevision => revision' < HeadRevision]_vars

\* A process serves only if it has found the database at the head.
ServesOnlyAtHead ==
  [][\A s \in Servers : at[s] # Serving(s) /\ at'[s] = Serving(s) => revision = HeadRevision]_vars

Has(name) == {i \in Stored : cats[i].name = name /\ cats[i].by = Nobody}

Complete ==
  /\ \A u \in UnitNames : units[u] = Nobody
  /\ \A p \in ElementsOf(ParentSeeds) : \E i \in Has(p) : cats[i].parent = NoId
  /\ \A c \in ElementsOf(ChildSeeds) :
       \E i \in Has(c[1]), j \in Has(c[2]) : cats[i].parent = j
  /\ \A l \in ElementsOf(LinkSeeds) :
       \E i \in Has(l[1]) : [category |-> i, unit |-> l[2], by |-> Nobody] \in links

\* While the panel has changed nothing, a process that has started finds
\* everything seeded, whoever of the processes inserted it, and whatever of
\* the others failed half way.
StartedIsSeeded ==
  [][\A s \in Servers :
       at[s] # Serving(s) /\ at'[s] = Serving(s) /\ edits = 0 => Complete']_vars

\* A start leaves every category and unit that was there as it was, with the
\* name and the parent the panel gave it, and adds only seeded names; only
\* the panel takes anything away.
Settled(i) == i \in Stored /\ cats[i].by = Nobody
SeedersOnlyAdd ==
  [][\A s \in Servers : at'[s] # at[s] =>
       /\ \A i \in Ids : Settled(i) => cats'[i] = cats[i]
       /\ \A i \in Ids : Settled(i)' /\ ~Settled(i) => cats'[i].name \in SeedNames
       /\ {l \in links : l.by = Nobody} \subseteq links']_vars

\* Starting ends: processes that seed at once wait for each other's rows, and
\* never in a circle.
StartupEnds == \A s \in Servers : SeedingNow(s) ~> ~SeedingNow(s)

=============================================================================
