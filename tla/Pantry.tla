------------------------------- MODULE Pantry -------------------------------
(***************************************************************************)
(* One account's pantry: its items, their expiry dates, the free tier's    *)
(* limit, and the hourly job that announces what expires tomorrow.         *)
(*                                                                         *)
(* Transactions are as in Accounts: one step per statement, row locks held *)
(* to the end.  What matters here is also what the ORM remembers: an UPDATE *)
(* sends only the columns that differ from the values the session read     *)
(* first, so a session with stale values may send less than it means to.   *)
(*                                                                         *)
(* The calendar is left open: a run of the job looks for one day, any day. *)
(***************************************************************************)
EXTENDS Integers, FiniteSets

CONSTANTS
  Requests,  \* request slots of the account
  Jobs,      \* notification loops: one per server process
  Items,     \* the supply of inventory_items.id
  Limit,     \* FREE_INVENTORY_LIMIT
  Days,      \* expiry dates
  NoItem, NoDate, NoRow

Slots == Requests \cup Jobs
Dated == [due : Days, sent : BOOLEAN]

ASSUME PantryAssumption ==
  /\ IsFiniteSet(Requests) /\ Requests \cap Jobs = {}
  /\ IsFiniteSet(Items) /\ Limit \in Nat \ {0}
  /\ NoItem \notin Items /\ NoDate \notin Days /\ NoRow \notin Dated

VARIABLES
  tier,       \* subscriptions.tier
  stored,     \* inventory_items
  expiry,     \* expiry_tracking: at most one row per item
  pc,         \* where each request or job is
  premium,    \* the tier a request read when it was authenticated
  item, date, \* what it works on; for a job, the date it looks for
  seen,       \* the expiry row as its session read it
  holds,      \* its row locks
  todo,       \* records a job has selected and not yet handled
  paid        \* history: the account has been premium

tables == <<tier, stored, expiry>>
locals == <<pc, premium, item, date, seen, holds, todo>>
vars == <<tables, paid, locals>>

ItemRow(i) == <<"item", i>>
DateRow(i) == <<"expiry", i>>
Rows == {ItemRow(i) : i \in Items} \cup {DateRow(i) : i \in Items}

AddPcs == {"scanCheck", "addCheck", "addCommit"}
UpdatePcs == {"updateItem", "findExpiry", "writeExpiry", "insertExpiry", "updateCommit"}
DeletePcs == {"deleteExpiry", "deleteItem", "deleteCommit"}
JobPcs == {"announce", "mark"}
InFlight == AddPcs \cup UpdatePcs \cup DeletePcs \cup JobPcs

TypeOK ==
  /\ tier \in {"free", "premium"} /\ paid \in BOOLEAN
  /\ stored \subseteq Items
  /\ expiry \in [Items -> Dated \cup {NoRow}]
  /\ pc \in [Slots -> {"idle"} \cup InFlight]
  /\ premium \in [Slots -> BOOLEAN]
  /\ item \in [Slots -> Items \cup {NoItem}]
  /\ date \in [Slots -> Days \cup {NoDate}]
  /\ seen \in [Slots -> Dated \cup {NoRow}]
  /\ holds \in [Slots -> SUBSET Rows]
  /\ todo \in [Slots -> SUBSET Items]
  \* No two transactions hold the same row.
  /\ \A q, s \in Slots : q # s => holds[q] \cap holds[s] = {}

Init ==
  /\ tier = "free" /\ paid = FALSE
  /\ stored = {}
  /\ expiry = [i \in Items |-> NoRow]
  /\ pc = [s \in Slots |-> "idle"]
  /\ premium = [s \in Slots |-> FALSE]
  /\ item = [s \in Slots |-> NoItem]
  /\ date = [s \in Slots |-> NoDate]
  /\ seen = [s \in Slots |-> NoRow]
  /\ holds = [s \in Slots |-> {}]
  /\ todo = [s \in Slots |-> {}]

-----------------------------------------------------------------------------
(* Transactions                                                            *)

Free(s, rows) == \A q \in Slots \ {s} : holds[q] \cap rows = {}

At(s, here) == pc[s] = here

\* A request arrives, authenticated; if it works on an item it has read it.
Arrive(r, first, tierSeen, i, d, row) ==
  /\ At(r, "idle")
  /\ pc' = [pc EXCEPT ![r] = first]
  /\ premium' = [premium EXCEPT ![r] = tierSeen]
  /\ item' = [item EXCEPT ![r] = i]
  /\ date' = [date EXCEPT ![r] = d]
  /\ seen' = [seen EXCEPT ![r] = row]
  /\ UNCHANGED <<tables, paid, holds, todo>>

\* The end of a transaction, committed or rolled back.
Leave(s) ==
  /\ pc' = [pc EXCEPT ![s] = "idle"]
  /\ premium' = [premium EXCEPT ![s] = FALSE]
  /\ item' = [item EXCEPT ![s] = NoItem]
  /\ date' = [date EXCEPT ![s] = NoDate]
  /\ seen' = [seen EXCEPT ![s] = NoRow]
  /\ holds' = [holds EXCEPT ![s] = {}]
  /\ todo' = [todo EXCEPT ![s] = {}]

Goto(s, next) ==
  /\ pc' = [pc EXCEPT ![s] = next]
  /\ UNCHANGED <<premium, item, date, todo>>

Reads(s, next) == Goto(s, next) /\ UNCHANGED <<seen, holds>>

\* The next statement writes these rows, once nobody else has them.
Writes(s, rows, next) ==
  /\ Free(s, rows)
  /\ holds' = [holds EXCEPT ![s] = @ \cup rows]
  /\ Goto(s, next)
  /\ UNCHANGED seen

Uncommitted == UNCHANGED <<tables, paid>>

-----------------------------------------------------------------------------
(* POST /inventory and POST /inventory/scan                                *)

\* uuid4: an id nobody refers to.
Fresh == {i \in Items \ stored : \A s \in Slots : item[s] # i /\ i \notin todo[s]}

AddArrive(r) ==
  LET tierSeen == (tier = "premium") IN
  \/ \E d \in Days \cup {NoDate} :
       Arrive(r, "addCheck", tierSeen, NoItem, d, NoRow)
  \/ Arrive(r, "scanCheck", tierSeen, NoItem, NoDate, NoRow)

\* _enforce_free_limit
WithinLimit(r) == premium[r] \/ Cardinality(stored) < Limit

\* scan_and_add checks before it calls the scanner, add_item after it.
ScanCheck(r) ==
  /\ At(r, "scanCheck")
  /\ IF WithinLimit(r) THEN Reads(r, "addCheck") ELSE Leave(r)
  /\ Uncommitted

\* Faulty variant: one item too many.
AddCheckLate(r) ==
  /\ At(r, "addCheck")
  /\ IF premium[r] \/ Cardinality(stored) <= Limit
     THEN Reads(r, "addCommit") ELSE Leave(r)
  /\ Uncommitted

AddCheck(r) ==
  /\ At(r, "addCheck")
  /\ IF WithinLimit(r) THEN Reads(r, "addCommit") ELSE Leave(r)
  /\ Uncommitted

\* INSERT the item and, when a date is given, its expiry row.  Nobody sees
\* them before the commit.
AddCommit(r) ==
  /\ At(r, "addCommit")
  /\ \E i \in Fresh :
       /\ stored' = stored \cup {i}
       /\ expiry' = [expiry EXCEPT ![i] =
                       IF date[r] = NoDate THEN NoRow
                       ELSE [due |-> date[r], sent |-> FALSE]]
  /\ Leave(r)
  /\ UNCHANGED <<tier, paid>>

-----------------------------------------------------------------------------
(* PATCH /inventory/{item_id} with an expiry date                          *)

\* SELECT the item with its expiry row.  Other fields may be updated too.
UpdateArrive(r) ==
  \E i \in stored, d \in Days, first \in {"updateItem", "findExpiry"} :
    Arrive(r, first, FALSE, i, d, expiry[i])

\* UPDATE and refresh, which reads the expiry row afresh.
UpdateItem(r) ==
  LET row == {ItemRow(item[r])} IN
  /\ At(r, "updateItem")
  /\ Free(r, row)
  /\ IF item[r] \in stored
     THEN /\ holds' = [holds EXCEPT ![r] = @ \cup row]
          /\ seen' = [seen EXCEPT ![r] = expiry[item[r]]]
          /\ Goto(r, "findExpiry")
     ELSE Leave(r)
  /\ Uncommitted

\* SELECT the expiry row once more.  If the session has it already it keeps the
\* values it read first.
FindExpiry(r) ==
  LET row == expiry[item[r]] IN
  /\ At(r, "findExpiry")
  /\ Goto(r, IF row = NoRow THEN "insertExpiry" ELSE "writeExpiry")
  /\ seen' = [seen EXCEPT ![r] =
                IF row = NoRow \/ seen[r] = NoRow THEN row ELSE seen[r]]
  /\ UNCHANGED holds
  /\ Uncommitted

\* UPDATE due date and notification_sent = FALSE, the columns that change.
\* Without any there is no statement; StaleDataError if the row is gone.
WriteExpiry(r) ==
  /\ At(r, "writeExpiry")
  /\ IF seen[r] = [due |-> date[r], sent |-> FALSE]
     THEN Reads(r, "updateCommit")
     ELSE /\ Free(r, {DateRow(item[r])})
          /\ IF expiry[item[r]] = NoRow THEN Leave(r)
             ELSE Writes(r, {DateRow(item[r])}, "updateCommit")
  /\ Uncommitted

\* Faulty variant: no foreign key.
InsertExpiryUnchecked(r) ==
  /\ At(r, "insertExpiry")
  /\ Writes(r, {DateRow(item[r])}, "updateCommit")
  /\ Uncommitted

\* INSERT: waits for whoever inserts or deletes the same row or deletes the
\* item, then fails on the unique key or on the foreign key.
InsertExpiry(r) ==
  /\ At(r, "insertExpiry")
  /\ Free(r, {DateRow(item[r])})
  /\ IF expiry[item[r]] # NoRow \/ item[r] \notin stored
     THEN Leave(r)
     ELSE Writes(r, {DateRow(item[r])}, "updateCommit")
  /\ Uncommitted

\* The expiry row after r's statement: the columns it sent, the others as the
\* last transaction left them.
Written(r) ==
  LET row == expiry[item[r]] IN
  IF seen[r] = NoRow THEN [due |-> date[r], sent |-> FALSE]
  ELSE [due  |-> IF date[r] # seen[r].due THEN date[r] ELSE row.due,
        sent |-> row.sent /\ ~seen[r].sent]

UpdateCommit(r) ==
  /\ At(r, "updateCommit")
  /\ expiry' = IF DateRow(item[r]) \in holds[r]
               THEN [expiry EXCEPT ![item[r]] = Written(r)] ELSE expiry
  /\ Leave(r)
  /\ UNCHANGED <<tier, stored, paid>>

-----------------------------------------------------------------------------
(* DELETE /inventory/{item_id}                                             *)

\* SELECT the item with its expiry row; the ORM deletes a child it knows of
\* before the item.
DeleteArrive(r) ==
  \E i \in stored :
    Arrive(r, IF expiry[i] = NoRow THEN "deleteItem" ELSE "deleteExpiry",
           FALSE, i, NoDate, NoRow)

\* A DELETE that finds no row is only warned about.
DeleteExpiry(r) ==
  LET row == {DateRow(item[r])} IN
  /\ At(r, "deleteExpiry")
  /\ Free(r, row)
  /\ IF expiry[item[r]] = NoRow THEN Reads(r, "deleteItem")
     ELSE Writes(r, row, "deleteItem")
  /\ Uncommitted

\* ON DELETE CASCADE takes an expiry row inserted meanwhile along.
DeleteItem(r) ==
  LET rows == {ItemRow(item[r]), DateRow(item[r])} IN
  /\ At(r, "deleteItem")
  /\ Free(r, rows)
  /\ IF item[r] \in stored THEN Writes(r, rows, "deleteCommit")
     ELSE Reads(r, "deleteCommit")
  /\ Uncommitted

DeleteCommit(r) ==
  /\ At(r, "deleteCommit")
  /\ stored' = stored \ {item[r]}
  /\ expiry' = [expiry EXCEPT ![item[r]] = NoRow]
  /\ Leave(r)
  /\ UNCHANGED <<tier, paid>>

-----------------------------------------------------------------------------
(* The notification job, once an hour in every server process              *)

\* Faulty variant: the flag is not looked at.
JobSelectAll(j) ==
  /\ At(j, "idle")
  /\ \E d \in Days :
       /\ date' = [date EXCEPT ![j] = d]
       /\ todo' = [todo EXCEPT ![j] =
                     {i \in stored : expiry[i] # NoRow /\ expiry[i].due = d}]
  /\ pc' = [pc EXCEPT ![j] = "announce"]
  /\ UNCHANGED <<premium, item, seen, holds>>
  /\ Uncommitted

\* get_pending_notifications: due on day d, and not yet announced.
JobSelect(j) ==
  /\ At(j, "idle")
  /\ \E d \in Days :
       /\ date' = [date EXCEPT ![j] = d]
       /\ todo' = [todo EXCEPT ![j] =
                     {i \in Items : expiry[i] = [due |-> d, sent |-> FALSE]}]
  /\ pc' = [pc EXCEPT ![j] = "announce"]
  /\ UNCHANGED <<premium, item, seen, holds>>
  /\ Uncommitted

\* The next record of the loop: the notice is out at once.
JobAnnounce(j) ==
  /\ At(j, "announce")
  /\ \E i \in todo[j] :
       /\ item' = [item EXCEPT ![j] = i]
       /\ todo' = [todo EXCEPT ![j] = @ \ {i}]
  /\ pc' = [pc EXCEPT ![j] = "mark"]
  /\ UNCHANGED <<premium, date, seen, holds>>
  /\ Uncommitted

\* Faulty variant: marks without waiting for an edit that holds the row.
JobMarkAtOnce(j) ==
  /\ At(j, "mark")
  /\ IF expiry[item[j]] = NoRow THEN Leave(j)
     ELSE /\ holds' = [holds EXCEPT ![j] = @ \cup {DateRow(item[j])}]
          /\ Goto(j, "announce")
          /\ UNCHANGED seen
  /\ Uncommitted

\* mark_notified: UPDATE by primary key, whatever the row says by now.  A row
\* that is gone fails the whole run (StaleDataError).
JobMark(j) ==
  /\ At(j, "mark")
  /\ Free(j, {DateRow(item[j])})
  /\ IF expiry[item[j]] = NoRow THEN Leave(j)
     ELSE Writes(j, {DateRow(item[j])}, "announce")
  /\ Uncommitted

JobCommit(j) ==
  LET marked == {i \in Items : DateRow(i) \in holds[j]} IN
  /\ At(j, "announce") /\ todo[j] = {}
  /\ expiry' = [i \in Items |-> IF i \in marked
                                THEN [expiry[i] EXCEPT !.sent = TRUE]
                                ELSE expiry[i]]
  /\ Leave(j)
  /\ UNCHANGED <<tier, stored, paid>>

-----------------------------------------------------------------------------
(* Environment                                                             *)

\* Rollback: a lost connection, a failed commit, a deadlock PostgreSQL breaks,
\* a response that cannot be built, or any other exception.
Abort(s) ==
  /\ pc[s] \in InFlight
  /\ Leave(s)
  /\ Uncommitted

\* POST /users/me/subscription/upgrade and downgrade_to_free
Upgrade ==
  /\ tier' = "premium" /\ paid' = TRUE
  /\ UNCHANGED <<stored, expiry, locals>>

Downgrade ==
  /\ tier' = "free"
  /\ UNCHANGED <<stored, expiry, paid, locals>>

-----------------------------------------------------------------------------

Next ==
  \/ \E r \in Requests :
       \/ AddArrive(r) \/ ScanCheck(r) \/ AddCheck(r) \/ AddCommit(r)
       \/ UpdateArrive(r) \/ UpdateItem(r) \/ FindExpiry(r) \/ WriteExpiry(r)
       \/ InsertExpiry(r) \/ UpdateCommit(r)
       \/ DeleteArrive(r) \/ DeleteExpiry(r) \/ DeleteItem(r) \/ DeleteCommit(r)
  \/ \E j \in Jobs :
       JobSelect(j) \/ JobAnnounce(j) \/ JobMark(j) \/ JobCommit(j)
  \/ \E s \in Slots : Abort(s)
  \/ Upgrade \/ Downgrade

Spec == Init /\ [][Next]_vars

-----------------------------------------------------------------------------
(* Properties                                                              *)

\* An expiry date belongs to an item that is there: no interleaving of edits
\* and deletions leaves a date behind for the job to announce.
DatedItemsExist == \A i \in Items : expiry[i] # NoRow => i \in stored

\* Requests past the last check of the limit.
Adding == {r \in Requests : At(r, "addCommit")}

\* An account that never paid exceeds the free limit by less than the number
\* of its requests in flight, however often they race (_enforce_free_limit).
OvershootBounded ==
  ~paid => Cardinality(stored) + Cardinality(Adding)
             <= (Limit - 1) + Cardinality(Requests)

\* Job j logs the notice of item i.
Announces(j, i) == At(j, "announce") /\ pc'[j] = "mark" /\ item'[j] = i

\* The job never announces a date that is recorded as announced, whatever the
\* user edits while it runs: true of a single server process.
NoSecondNotice ==
  [][\A j \in Jobs, i \in Items :
       (Announces(j, i) /\ expiry[i] # NoRow) => ~expiry[i].sent]_vars

\* A date is marked as notified by the run that announced that very date, and
\* an edit unmarks it (process_notifications, update_item).
MarkedIsAnnounced ==
  [][\A i \in Items :
       (/\ expiry'[i] \notin {NoRow, expiry[i]}
        /\ expiry'[i].sent)
       => \E j \in Jobs : At(j, "announce") /\ date[j] = expiry'[i].due]_vars
-----------------------------------------------------------------------------
(* The inductive invariant                                                 *)

TierShape ==
  /\ tier = "premium" => paid
  /\ \A r \in Requests : premium[r] => paid

RequestShape(r) ==
  /\ pc[r] \notin JobPcs
  /\ pc[r] \in UpdatePcs => item[r] \in Items /\ date[r] \in Days
  /\ pc[r] \in DeletePcs => item[r] \in Items
  /\ pc[r] = "writeExpiry" => seen[r] # NoRow
  /\ pc[r] = "insertExpiry" => seen[r] = NoRow

JobShape(j) ==
  /\ pc[j] \in {"idle"} \cup JobPcs
  /\ pc[j] = "mark" => item[j] \in Items
  /\ pc[j] = "idle" => todo[j] = {}

\* A request that holds an expiry row is about to end, and what it knows of
\* the row is still true.
RequestLocks(r) ==
  /\ \A i \in Items : DateRow(i) \in holds[r] =>
       /\ i = item[r]
       /\ pc[r] \in {"updateCommit", "deleteItem", "deleteCommit"}
       /\ pc[r] = "updateCommit" =>
            i \in stored /\ (seen[r] # NoRow => expiry[i] # NoRow)
  /\ (pc[r] = "deleteCommit" /\ item[r] \in stored) => DateRow(item[r]) \in holds[r]

JobLocks(j) ==
  /\ pc[j] = "idle" => holds[j] = {}
  /\ \A i \in Items : DateRow(i) \in holds[j] => expiry[i] # NoRow

\* What a single job has still to announce nobody has marked.
TodoUnsent ==
  \A j \in Jobs : Jobs = {j} =>
    \A i \in todo[j] : expiry[i] # NoRow => ~expiry[i].sent

IInv ==
  /\ TypeOK /\ TierShape /\ DatedItemsExist /\ OvershootBounded /\ TodoUnsent
  /\ \A r \in Requests : RequestShape(r) /\ RequestLocks(r)
  /\ \A j \in Jobs : JobShape(j) /\ JobLocks(j)
=============================================================================
