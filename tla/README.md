# Household management API: TLA+ models, checks and proofs

The repository is a FastAPI service over PostgreSQL (SQLAlchemy async
sessions), with a Redis cache, a Celery worker, OpenAI calls and a
fastapi_amis_admin panel.  Alembic migrates the database and every server
process seeds it when it starts.  It has no tests.  This directory holds models of the
parts whose correctness depends on what concurrent requests, transactions and
timeouts do to one another, the instances TLC checks, and proofs TLAPS checks.
Paths below are relative to `src/app/`, those under `alembic/` to `src/`.

## 1. The system

### How requests run

`db/session.py get_db` gives each request one `AsyncSession`: one transaction
at PostgreSQL's default level, READ COMMITTED, committed when the handler
returns and rolled back on any exception.  A handler is a coroutine; other
requests run at each `await`, and other server processes at any time.  So

* a SELECT sees whatever others have committed by then, and an `if` on its
  result is stale at the next statement;
* `flush()` sends INSERTs, UPDATEs and DELETEs that nobody else sees until the
  commit, but whose row locks and unique keys others wait for;
* an error between two statements undoes both.

Every model of a request therefore has one action per database statement, with
the request's uncommitted writes kept apart from the committed tables.

### Inventory of components

| component | state | operations | talks to | hard part | what must hold |
|---|---|---|---|---|---|
| Token sessions (`services/auth.py` login, logout, refresh; `core/security.py`, `core/dependencies.py`, `repositories/auth.py`) | `revoked_tokens` (jti UNIQUE), `users.is_active`, the tokens clients hold | login, refresh with rotation, logout, the gate of each protected route, `purge_expired` | every route, through `get_current_user` | check-then-insert races on one jti; partial failure of a logout; expiry between two checks | a session never forks; a logout is complete and final; nobody unauthorised is served |
| Accounts (`services/auth.py`, the rest) | `users` (email UNIQUE), `email_verification_tokens`, `password_reset_tokens` | register, verify, forgot, reset, change password | token sessions share `users` | row locks in several orders; rows deleted under a reader | one registration per address; a used or superseded reset token stays dead; no circular wait |
| Circuit breaker and retry loop (`services/openai_service.py`) | state, failures, opened_at; one attempt counter per call | allow, success, failure, the exits of `structured_completion` | recipe graph, its only caller | overlapping calls report on a breaker others have moved | fields agree; the gate refuses exactly when it should; failures are recorded; calls end |
| Inventory and expiry (`services/inventory.py`, `services/expiry.py`, `tasks/expiry_notifications.py`) | `inventory_items`, `expiry_tracking` (one per item) | add, update, delete, scan; hourly notification job | subscription tier, scanner | count-then-insert; the job against edits | free-tier limit; each due date announced once |
| Subscription (`services/subscription.py`, `require_premium`) | `subscriptions.tier`, `expires_at` | upgrade, downgrade | inventory limit, AI limit | a tier read once per request | who is served as premium is premium |
| AI recipe pipeline (`ai/graph.py`, `services/recipe_engine.py`, `services/cache_service.py`, `core/tenancy.py`, `workers/ai_tasks.py`) | Redis counter and recipe cache, `recipes`, `ai_usage_logs` | rate check, cache lookup, generate, validate, persist, log usage | breaker, Redis, database, Celery | two-step counter, duplicate stores, uncaught exception, redelivery, an attempt that outlives its time limit | daily limit; few attempts and few recipes per job; no job lost |
| Recipes (`services/recipe.py`) | `recipes` | create, favourite, import, delete; generated ones come from the pipeline and from `generate_from_inventory` (`POST /recipes/generate`) | the pipeline's lookup | a generated recipe is looked up long before it is stored, and there are two writers | the pipeline stores at most as many as its attempts under way at once |
| Shopping lists, equipment, profile | their tables | CRUD | inventory | few: single-row updates | ownership |
| Migrations (`alembic/env.py`, `alembic/versions/`) | `alembic_version`, tables, enum types | upgrade and downgrade to any revision | servers, whose statements need the tables | a downgrade that is not the inverse of its upgrade; one that fails half way | the schema depends on the revision alone; the head fits the models, which it does but for `ai_usage_logs` |
| Seeders (`db/seeders/`, `main.py` lifespan) | `units`, `categories`, `category_units` | insert on conflict do nothing, at each start of each process | other processes, the panel, the schema | unique keys that wait; a category found and deleted before its row is inserted | startup ends; nothing is overwritten; whoever serves is seeded |
| Categories and units (`models/category.py`, `models/unit.py`) | the same three tables | the panel's forms; `services/category_service.py` has no caller | seeders | cascades and SET NULL | unique names, no dangling reference |
| Admin panel (`admin/`) | signed session cookie | login, logout, CRUD views | `users` and all tables | a cookie that outlives the role or the account | only active admins act |
| Dashboard, importers, scanner, schemas, middleware | none | reads, HTTP calls, shapes | | none | not modelled |

`PROJECT.json` lists the components with their status, and under "hazards"
every place found where an untested order of events matters.

## 2. The modules

| module | what it is |
|---|---|
| `TokenSessions` | login, refresh, logout and the gate as concurrent transactions; safety, liveness, and the inductive invariant `IInv` |
| `TokenLedger` | the abstract promise: each token is issued, then rotated or ended at most once, atomically |
| `TokenRefinement` | the mapping from the first to the second |
| `TokenPurge` | `TokenSessions` with the clean-up `purge_expired`, which no task of the repository calls yet |
| `Accounts` | registration, verification, reset and change of passwords, with row locks |
| `Pantry` | items, expiry dates, the free limit and the notification job |
| `CircuitBreaker` | the breaker and the retry loop of overlapping calls |
| `TokenSessionsProofs`, `TokenRefinementProofs`, `AccountsProofs`, `PantryProofs`, `CircuitBreakerProofs`, `RecipeJobsProofs`, `MigrationsProofs`, `DeploymentProofs` | theorems and proofs; those of `Deployment` rest on the lemmas about the chain in `MigrationsProofs` |
| `Migrations` | the Alembic chain as data, what one command does with it, and the tables the ORM models map |
| `Seeding` | the seeders of several server processes, statement by statement, beside the panel's category forms |
| `Deployment` | `Migrations` and `Seeding` composed: an operator, servers that start, seed, serve and stop, and the administrators' accounts |
| `RecipeJobs` | the Celery task, its broker and its retries, the daily counter, the two recipe caches and the graph |
| `MC*` | symmetry sets for TLC; the values are in the `.cfg` files |

Definitions named "Faulty variant" in their comment are plausible bugs of the
operator that follows them.  No specification uses them: each is substituted
for its neighbour to see that a property notices.

### TokenSessions

State: `token` holds the claims of each issued jti (a JWT is never stored; its
signature is what makes `Issued` meaningful), `revoked` the committed rows of
`revoked_tokens`, `pend[r]` the rows request `r` has flushed, `pc[r]` the
statement it is about to send.  `stale`, `dormant` and `loggedOut` are history
variables that only properties read.

| action | code |
|---|---|
| `Login` | `login`: one SELECT, no write, so one step |
| `ApiArrive`, `LogoutArrive` | `get_token_payload`: decode, type check |
| `GateCheckRevoked`, `GateLoadUser` | the two SELECTs of `get_current_user` |
| `LogoutRevokeAccess`, `LogoutRevokeRefresh`, `LogoutCommit` | the two INSERTs of `logout`, the decode of the body between them, the commit |
| `RefreshArrive`, `RefreshCheckRevoked`, `RefreshLoadUser`, `RefreshRevokeOld`, `RefreshCommit` | `refresh`, statement by statement |
| `Abort` | lost connection, failed commit, or any other exception: rollback |
| `SetActive`, `Tick` | the admin panel or `PATCH /users/me`; the clock |

Points of translation.  An INSERT of a jti that another transaction has flushed
waits (the first conjunct of `Revoke`); if that one commits the INSERT fails
with IntegrityError, which no handler catches.  `Garbage` stands for every
logout body that does not decode to a refresh token with a jti.  Expiry is
checked once, at arrival, as in the code, with python-jose's strict comparison.
The expiry of a rotated pair is computed from the clock when the INSERT has
returned (`flushedAt`), and the client gets the pair only after the commit.
`FreshPair` picks one pair of unused jtis, since uuid4 values are never
compared for anything but equality.

### Accounts

The statements of this module update and delete shared rows.  `holds[r]` is the
set of rows `r` has written; `Free` is the wait.  `Wants(r)` names the rows of
`r`'s next statement, and `NoCircularWait` uses the same operator, so the
property is about the order in which the code flushes.  Points of translation:

* `verify_email` deletes an expired link and then raises; the rollback restores
  the link, so an expired link is no transition at all.
* The DELETE of a link that is gone matches no row and SQLAlchemy only warns;
  the UPDATE of a reset token that is gone raises `StaleDataError`.
* A DELETE ... WHERE that has waited evaluates its condition again on the row as
  the other transaction left it, but never sees rows committed after it
  started: `DeleteUnused` takes the snapshot, `DeleteWait` re-evaluates.
* Setting `is_verified` to a value it already has sends no UPDATE.
* A password is a model value; hashing is a fact about equality only.
* A reset does not revoke the sessions of the user; the code does not say it
  should, so no property does.

### Pantry

`stored` and `expiry` are the two tables, `holds` the row locks, `seen[r]` the
expiry row as request `r`'s session remembers it.  Points of translation:

* An UPDATE sends only the columns whose value differs from the remembered
  one, so `Written` combines the columns sent with the row as it is by then.
  `update_item` reads the expiry row with the item and again by itself; the
  second SELECT keeps what the session remembers, except that updating other
  fields first refreshes the item and, by its cascade, the expiry row.
* The tier is what the request read when it was authenticated, and the limit is
  a count followed by an insert; `scan_and_add` checks it twice.
* Deleting an item sends a DELETE for the expiry row the session knows of and
  one for the item, which cascades to a row inserted meanwhile.  A DELETE that
  matches nothing only warns; an UPDATE that matches nothing fails.
* The job logs a notice at once and marks the row by its primary key; one row
  that is gone fails the whole run and undoes its marks.  It looks for one
  day, and the model lets any day be tomorrow: no property needs more.
* Whether a response can be built is left to the ORM: `POST /inventory` reads
  the relationship `expiry` of a new item, which nothing has loaded, and an
  async session may refuse to load it.  Then the request fails and rolls back,
  one of the causes of `Abort`; the limit is checked for the other outcome.

### CircuitBreaker

`state`, `failures` and `openedAt` are the three fields; `Observed` is the
property `state` of the class, which moves the machine when read.  A call is
"calling" or "sleeping" between awaits, and each exit of the loop is an action.
Rate limits do not touch the breaker until the attempts are used up; exceptions
the loop does not name leave it alone altogether (`Rejected`).  Sleeping
times are not modelled: the clock may or may not move while a call sleeps.
Each process has a breaker of its own, so one process is modelled.

### Migrations, Seeding, Deployment

`Migrations` keeps `revision` (a position in the chain of eight files),
`schema` (for each table its NOT NULL columns, nullable columns, unique keys
and foreign keys) and `types` (PostgreSQL enum types).  Each revision is a
record of what its `upgrade()` creates, adds and removes and what its
`downgrade()` drops and restores.  `UpgradeTo` and `DowngradeTo` apply a
range of them; a step that cannot work (a type or table that exists, a NOT NULL
column without a default on a table with rows, a constraint without a name)
makes the command fail, and since `env.py` runs it in one transaction nothing
changes.  `Metadata` is what the classes of `models/` declare, one group per file; the
last is `AIUsageLog`, which `db/base.py` does not import.

`Seeding` walks `Script(s)`: units, parents, children, links, in the order of
`run_all_seeders`.  A row carries the process that wrote it until the commit;
an INSERT of a key somebody else has pending waits.  The INSERT ... SELECT of
children and links reads the category by name and inserts afterwards, two
steps, between which the panel may rename or delete it (`Orphaned`: the foreign
key then refuses the row).  `SeedFails` rolls back and takes the process down,
as `lifespan` lets the exception through.

| action | code |
|---|---|
| `Upgrade`, `Downgrade` | `alembic upgrade / downgrade <revision>`; waits for transactions that use the tables it touches |
| `SeedAdmin` | `AdminSeeder.seed`, run from the command line |
| `Starts`, `Seed`, `Refused`, `Fails`, `Stops` | `lifespan` of `main.py` and the seeders' statements |
| `PanelEdit` | create, update and delete of `admin/` for categories |

Points of translation.  No revision creates the extension `pg_trgm`, which
`alembic/versions/` uses for two indexes; `TrgmInstalled` says whether the
database has it, and the instance assumes so, since otherwise the chain stops
before its end.  Plain indexes, column types and lengths are left out; so is
the text `server_default='now()'`, which PostgreSQL evaluates once, at the
upgrade.  The children are read back by name, so a name the panel has changed
is simply seeded again.

### RecipeJobs

A worker process runs one job after another, each as a coroutine of the one
event loop it has (`asyncio.get_event_loop().run_until_complete`), so processes
and coroutines are told apart.

| state | what it is |
|---|---|
| `queue`, `unacked`, `result` | the broker and the result backend |
| `held`, `phase`, `awaits` | of each process: its message, what it does next, the coroutine it waits for |
| `home`, `job`, `pc` | of each coroutine: the loop it is in, the job it was called for, its next step |
| `allowed`, `hash`, `flushed` | what the coroutine knows and what its session has not committed |
| `count`, `expires`, `cached` | the Redis keys of the daily limit and of the recipes |
| `stored`, `foreign` | the rows in `recipes`: the pipeline's, and those of `POST /recipes/generate` |
| `admitted`, `attempts`, `mishaps` | history, for `QuotaHolds` and `AttemptsBounded` |

| action | code |
|---|---|
| `Post`, `Take`, `Ack` | `apply_async`; delivery; `task_acks_late` |
| `Crash`, `Disconnect` | a process lost (`task_reject_on_worker_lost`), a connection to the broker lost: the broker has the message back, and after the second the process goes on with it as well |
| `Abandon`, `Kill` | `task_soft_time_limit` raised out of `run_until_complete`; `task_time_limit` |
| `CountAttempt`, `ExpireCounter`, `CounterExpires` | `CacheService.check_and_increment_rate`: INCR and TTL in one MULTI, EXPIRE in another call |
| `CheckRedis`, `LookUpRecipe`, `Backfill`, `Generate` | the nodes of `ai/graph.py` with the routes between them |
| `Commit`, `Answer` | the commit; the return value on its way to the backend |
| `Retry` | `task.retry`: `Republish`, `RetryRefused` when the publication fails, `RetriesExceeded` |
| `Raises` | any other exception inside the coroutine |
| `GenerateFromInventory`, `DeleteRecipe` | the two methods of `RecipeService` |
| `CacheExpires` | the TTL of `setex` |

Points of translation.

* A soft time limit is a signal.  Where it finds the coroutine itself running, it
  is an exception like another (`Raises`: the session closes and rolls back).
  Where it finds the loop waiting, it leaves `run_until_complete` and nothing
  cancels the coroutine, which stays in the loop with its session open
  (`Abandon`).  It goes on whenever the process runs its loop again, that is
  during the process's next jobs (`Does`), beside the coroutine those wait
  for.  It may count, store, write Redis and commit; what it returns or raises
  is nobody's (`Leave`); and `task.retry` in it takes the request, with its
  arguments and number of retries, from the job the process is serving
  (`Republish` uses `held[home[c]]`).
* An exchange with the broker or the backend may fail.  When the publication of
  a next try fails, Celery's `retry` raises `Reject` without requeue: the message
  is acknowledged away and no result is written.  `result` is then "over", as
  it is for a failed job and for an answer that could not be recorded: nobody
  will answer any more.  `NoJobIsLost` excludes exactly these.
* The generation is one step: its calls to the provider are `CircuitBreaker`'s
  subject and share no state with the rest of the job.  The flush that follows is
  seen by nobody, so it is one step with the write to Redis.
* A retry is a message of its own, published before the old one is
  acknowledged; a process lost in between leaves both.  A retry counts in the
  message, not in the job, so a redelivery starts with the number it had.
* The result backend keeps a success: a later failure of a redelivered copy does
  not replace it.
* The usage log is written in the job's session and goes with it: the log of a
  failed try is never committed.
* The other writer stores "generated", the pipeline "ai_generated", which
  `RecipeSource` does not have.  Whether the two will be told apart depends on
  how that is repaired: `OneSource` says, the theorems hold for both, and the
  instance takes the case in which the writers interfere: the lookup takes
  the other's recipe for its own, and fails on two.
* As the tree stands no server mounts the router that posts the task, the
  worker module imports `app.models.enums`, which is not there, the nodes
  take keyword-only arguments LangGraph would not pass, `Recipe` has no column
  `recipe_data` and its enum no `ai_generated`, and no revision creates
  `ai_usage_logs`, so that every commit fails on a migrated database.
  Every one of these is an exception that `Raises` contains, so the tree as it is
  shows a subset of the model's behaviours; the model describes the code once
  these are repaired.

## 3. The runs

| run | instance | what it shows |
|---|---|---|
| `token_sessions` | 1 user, 2 requests, 1 login and 2 rotations (6 jtis), clock 0..1, lifetimes 0 | the six safety properties, about 460 000 states |
| `token_ledger` | 2 requests, 1 login and 1 rotation, one instant, with fairness | the refinement `ImplementsLedger` and the liveness `RequestsFinish` |
| `logout_replay` | 2 requests, 2 pairs | counterexample: a logout with a rotated refresh token fails as a whole |
| `purge_race` | 2 requests, 2 pairs | counterexample: a purge between decode and blacklist lookup |
| `accounts` | 2 requests, 5 tokens, 2 passwords, 1 address | locks, uniqueness, the life of reset tokens and how many may be unused, about 200 000 states |
| `reset_twice` | 2 requests | counterexample: one reset token used twice |
| `pantry` | 2 requests, 1 job, 2 items, limit 1, 2 days | dates, the limit and the notices, about 1.2 million states |
| `lost_notice` | the same | counterexample: an edited date marked as notified |
| `breaker` | 3 calls, threshold 2, recovery 1, 2 attempts, clock 0..2 | the six properties of the breaker, with fairness |
| `breaker_late_success` | 3 calls | counterexample: an open breaker closed by a late success |
| `deployment` | 2 servers, 2 units, 1 parent, 1 child, 1 link, 5 category ids, 2 edits, 1 administrator, the whole chain | the schema, the seeded data and the accounts, and that startup ends; about 15 000 states |
| `recipe_jobs` | 2 processes, 2 coroutines, 2 jobs with limits 1 and 2, 1 set of ingredients, 1 retry, 1 mishap, 1 recipe of the other writer | quota, attempts, stores and that no job is lost; about 1.3 million states |

Bounds.  Every race in the token and account code is between two statements of
two transactions on one row, so two requests show each race, and what is
proved about them holds for any number.  Five tokens let a registration be
followed by four demands for a reset, enough for unused ones to outnumber the
two slots if deletion failed.  Two
rotations are needed for a chain: a login, its heir, and the heir's heir.  A
lifetime of 0 with a clock of two instants lets every token expire between any
two statements.  One address is enough because requests about different
addresses share no row.  Two items let a run of the job hold one marked row
while it waits for another; two days are the one it looks for and another;
two requests can both pass a limit of one.  The server runs one job per process
and the instance has one: with two, both may announce the same date.  A breaker needs two calls to trip it and a third that
overlaps; threshold 2 tells "first failure" from "threshold reached"; clock 0..2
allows open, half open and open again.  Two servers wait for each other's keys; two units and a
parent with a child give two orders of locks; two edits let the panel delete a
category and create it again, and five ids suffice for that while each server
has an insert pending, and to rename one to the name the other had; no name
beyond the seeded ones is needed, and the theorems hold for any; the chain is the real one, not an instance.
Two jobs with different limits share one counter.  One mishap and one retry give
a redelivery, a job whose message two processes work on, an attempt left behind
that retries the other job, and a retry of each (the code has two retries; the
theorems hold for any number); with two jobs and one mishap no more than two coroutines are ever alive,
so two are enough.  One set of ingredients is
enough because the lookup in the table does not distinguish them.  `MaxLogins`, `Jti`, `Tokens`, `Ids`, `MaxEdits`, `MaxMishaps`, `MaxForeign`
and `MaxTime` are the only bounds on otherwise unbounded counters, and each
appears as a guard.  Symmetry over requests (and tokens and passwords in
`accounts`, processes and coroutines in `recipe_jobs`) is used in runs without liveness only.  Deadlock checking is off
in `Accounts` (all tokens of the supply may be used up; `NoCircularWait` is the
deadlock property), in `CircuitBreaker` (all calls have been made), in
`RecipeJobs` (all jobs are answered) and in `Deployment` (an operator need do
nothing).

### Fairness

* `TokenSessions`: strong fairness of each request's next statement.  The event
  loop runs each coroutine on, and PostgreSQL grants a unique key to its waiters
  when the holder ends.  Strong, because the key may be taken by others
  again and again before the waiter's turn.  Nothing forces a request to
  arrive, a clock to tick or a connection to fail; the one fair `Abort` is of a
  refresh that finds the bounded supply of jtis exhausted.
* `CircuitBreaker`: weak fairness of answers and wake-ups, since the client has
  a timeout (`OPENAI_TIMEOUT_SECONDS`) and `asyncio.sleep` returns.
* `Deployment`: strong fairness of each server's next statement while it seeds.
  PostgreSQL grants a key to its waiters before transactions that start
  later, so a server cannot be overtaken for ever by others that fail and start
  again.  Nothing forces an operator, the panel or a start.
* `RecipeJobs`: none, and no liveness is claimed: a queue of Celery gives no order,
  a limit of time only raises, and a coroutine left behind may wait for ever.
  `AttemptsBounded` and `NoJobIsLost` together
  say what a fair worker would need: finitely many attempts, and a job that still
  expects an answer always in somebody's hands.

### What the counterexamples say

1. `logout_replay`.  A client that refreshed in one tab and logs out in another
   with the old refresh token gets a 500 and keeps a working access token.  The
   comment in `logout` calls such a token harmless.  Revoking the refresh jti
   in a savepoint, or asking `is_revoked` first, would repair the common case.
2. `purge_race`.  The claim that a purge is safe needs a grace period of at
   least one request.
3. `reset_twice`.  "One-time" holds for one reset after another, not for two
   that overlap: `used_at` would have to be part of the UPDATE's condition.
4. `lost_notice`.  The job should mark with the date and the flag it has read as
   a condition, and `update_item` should lock the row before it resets the flag.
5. `breaker_late_success`.  `success()` closes an open breaker, which the class
   docstring does not list among the transitions.

### What the deployment run says

The schema is a function of the revision (`SchemaFollowsRevision`), although some
downgrades are not the inverses of their upgrades.  At the head the tables are
those the models map, column by column, with one exception
(`HeadLacksUsageLogsOnly`): `AIUsageLog` (`models/ai_usage.py:12`), which
`services/recipe_engine.py:117` imports where it inserts one, has no table at
any revision.  `db/base.py:1` says that it imports all models so that Alembic can
discover them; this one it does not, and a migration generated from it misses
the table.  The units revision drops its
tables and leaves its enum type, so that after one downgrade from the head the
next upgrade fails; the revision that added the parent column drops a
constraint without a name, which always fails.  A database taken down below
the head therefore stays below it (`HeadIsLeftForGood`), and no downgrade gets far
enough to drop the table of the accounts (`AccountsAreKept`).
`main.py` calls seeding "idempotent — safe on every restart";
`SeedersOnlyAdd`, `StartedIsSeeded` and `StartupEnds` are what that has to mean
when servers start together and an administrator edits meanwhile.

## 4. The proofs

`TokenSessionsProofs` proves `Spec => []IInv` for any users, requests, jtis,
lifetimes and bounds (`SessionAssumption` only says that the constants have
their types and that the null values are not real ones), and from it the
theorems `TypeCorrect`, `SessionNeverForks`, `LogoutIsFinal`,
`LogoutRevokesBoth` and `OnlyAuthorisedServed`.

The invariant.  "At most one live refresh token per login" is not inductive:
`RefreshCommit` adds a live token, so one must know that the token it replaces
becomes revoked in the same step (`PendShape`: a request about to commit a
refresh has flushed exactly its own jti), that this token was live until then
(`UniqueIndex`: a flushed row is not committed and is flushed by one request
only), and that the new token belongs to the same login (`RequestShape`,
`Pair`).  `LogoutEndsLogin` needs the same facts in the other order: if the
login had been ended, its only live token would be revoked and nothing could be
rotated.  `ChainShape` says that the origin of every token is blacklisted, from
which the ledger's `Rotate` follows.  `CheckShape` records what the two checks
of a request have established.

The layout follows the code: one lemma per kind of step (`LocalStep`,
`LeaveStep`, `GotoStep`, `RevokeStep`, `ArriveStep`, `LoginStep`,
`LogoutCommitStep`, `RefreshCommitStep`, `SetActiveStep`, `TickStep`), which
`StepInv` and `NextInv` put together.

`TokenRefinementProofs` proves that every commit is one step of `TokenLedger`
and everything else a stutter (`Refinement`), and that a revoked token gets no
further heir (`NoNewHeirs`).

`AccountsProofs` proves `Spec => []IInv` of `Accounts` for any addresses, requests,
passwords and supply of tokens, and from it `TypeCorrect`, `LinkGone`,
`NoDeadlock`, `RegisteredOnce`, `SupersededStaysDead` and `UsedIsFinal`.  The
invariant says for each statement which locks a request holds (`HoldShape`),
which of the things it has read are still so (`RowShape`), that a token drawn but
not yet stored belongs to one request (`FreshShape`) and that an account has
one link (`LinkShape`).  `NoDeadlock` follows from the order of the locks: a request
that holds a token row wants no further row, one that holds an account row wants
at most a token row, so whoever is waited for is at the end of such a chain of
length two and can go on.  `RegisteredOnce` rests on the unique index: of all who
passed `email_exists`, only the holder of the key finds the address still free.
`UnusedLimited` (`UnusedBounded`) assigns to each unused token the request slot that
asked for it (`AskerShape`, an existential invariant, since the code keeps no such
column): a request that stores a token has deleted the one its slot stored
before, because that one was committed before its snapshot.  Distinct tokens of
an account then have distinct slots, and the slots are finitely many.

`RecipeJobsProofs` proves `Spec => []IInv` of `RecipeJobs` for any finite sets of
processes and coroutines and any jobs, limits, retries and mishaps, and from it
`TypeCorrect`, `QuotaKept`, `StoresBounded`, `NoJobLost` and `ExpiryLeft`.
`QuotaHolds` becomes inductive once the values given out by one life of the
counter are known to differ (`CounterShape`): attempts admitted under a limit of
n carry different values in 1..n.  `StoredBounded` needs the coroutines past their
lookup counted as well (`StoreShape`): one passes the lookup only when the pipeline has
stored nothing.
`AttemptsLimited` (`AttemptsBounded`) counts without a sum.  `Tries` is a set
with one element for each attempt that may still come: of a message in the
queue, by message, copy and number of retries (`TriesQueued`); of the message of
a process, by the retries it has left (`TriesHeld`); of a coroutine left behind,
its own and the chain it may start under another job's request (`TriesStray`).
`AttemptShape` bounds the attempts made plus the size of this set, over all jobs
at once, since a coroutine left behind moves tries from one job to another.
Taking a message, counting and publishing a retry do not enlarge it; a post, and
a mishap, which gives a message back or leaves a coroutine behind, adds at most
one chain of `MaxRetries + 1` tries.

`PantryProofs` proves, for any number of requests, jobs, items and days and any
positive limit, that dates never outlive their items (`NoOrphanDates`), that the
overshoot of the free limit is below the number of requests (`LimitNearlyKept`),
and, assuming a single job, that no recorded date is announced again
(`NoDateToldTwice`).  The overshoot becomes inductive once the requests past
their check are counted too: passing the check needs `stored < Limit`, and no
more requests than there are can be past it.  The rest of the invariant is about
locks: an edit that holds an expiry row has its item (`RequestLocks`), a row the
job holds is there (`JobLocks`), a deletion that found its item holds its expiry
row, so that commits touch only what the others have not locked (`CommitStep`).
`TodoUnsent` is where the single job is needed.

`CircuitBreakerProofs` proves that the three fields agree, that a failure
recorded in half open reopens, that the gate refuses exactly while it should and
that no call is lost without being counted, for any number of calls, threshold,
recovery time and retries.

`DeploymentProofs` proves every property of the `deployment` run but its liveness,
for any seeds, servers, ids, edits and administrators, in four layers.

1. *What a start adds.*  `CatalogInvariance`: rows are well formed and a pending
   category has a seeded name, so that a commit publishes only such names
   (`StartsOnlyAdd`).
2. *The schema.*  The chain is fixed data, but what commands do with it is not
   bounded: any number of upgrades and downgrades may precede.  `MigrationsProofs` defines
   `Fresh(r)`, the database that revision `r` has when the chain runs once from
   nothing, and `Agrees(r, db)`: same schema, and at least its types.  An upgrade that
   succeeds keeps agreement (`UpgradeAgrees`), and so does a downgrade
   (`DowngradeAgrees`), because no revision drops a type and each one drops
   the tables and columns it created.  So the schema depends on the revision alone
   (`SchemaIsOfRevision`); the type of the last revision, once there, is never
   dropped and bars the way back (`HeadIsLeftOnce`); an account in the table makes
   the column `subscription_tier` impossible to restore, so a downgrade stops
   before the table is dropped (`AccountsSurvive`).  `ModelsFitHead` follows each
   table from the revision that creates it to the head and compares it
   with its model (`ModelsMapped`); that `ai_usage_logs` is not among them follows
   from the list of what the revisions create (`TablesAt`).
3. *Rows that refer to each other.*  `RInv` adds that names are unique, that what
   a category or a link refers to is there and is committed or pending with it
   (`ParentsThere`, `LinksThere`), and that what a statement has selected is
   something its process reads (`FoundSeen`).  The second half is what makes a rollback
   safe: nobody else refers to a row that goes with it.  `BegunAtHead`: a process past
   its first statement has found the last revision, and the lock it took on
   `units` keeps it there, so that migrations never meet pending rows.  This gives
   `DeploymentTypes` (the keys and foreign keys hold) and `ServesAtHead`.
4. *What has been done.*  `StartedSeeded` needs for each statement a process
   has executed that its effect is still there and readable (`Effect`, `DoneBefore`),
   whether it was its own insert or one of another process that has committed.
   For a child whose name is taken this takes `TreeShape`: whoever inserted it, it
   hangs under the right parent.  For an INSERT ... SELECT it takes the order
   of the script (`ScriptOrder`): what it selects was seeded by an earlier
   statement.  All this holds while `edits = 0`, as the property says.

Assumptions.  `SeedingAssumption` types the seeds (there is a unit, parents
of leaves are in the tree, links name seeded categories and units),
`TreeAssumption` says that a leaf has one parent and is not one itself, both true of
`_DEFAULT_UNITS`, `_CATEGORY_TREE` and `_CATEGORY_UNIT_MAP`; `RowsAssumption` that the null
row is no row.  `AccountAssumption` and `RecipeJobsAssumption` ask for finitely many
requests, processes and coroutines where the properties count them.  TLC evaluates all of
them in the runs.

`TypeOK` of `Pantry` and of `CircuitBreaker` are proved there too.

Only model-checked: `RequestsFinish`, `CallsEnd` and `StartupEnds` (liveness is out
of the prover's reach), and the five counterexamples, which are runs that must
fail.  Every other property of a passing run is a theorem.

## 5. Not modelled, and why

Signatures, hashing, e-mail and JSON shapes are abstracted.

* Dashboard, importers, scanner, schemas, error handlers and middleware hold no
  state that another step reads.
* `api/v1/routes/chat.py` is not mounted and imports modules that do not exist.
* Shopping lists, profile and equipment: rows inserted, updated and deleted by
  primary key within one request, with nothing that depends on what others do
  between its statements.
* The session of the admin panel is a signed cookie the browser keeps; its
  hazard (a late response brings a cookie back after logout) is listed.  The forms
  other than the category's belong to the library.
* `services/category_service.py` is called by nothing.
* What a prompt, a recipe or a preference says.

## 6. Plan

1. `AdminSession`: the cookie, its sliding expiry and the logout, with the changes
   of role and activity that a cookie outlives.
2. Proofs: steps towards liveness that need no fairness, such as that a process
   which waits while it seeds waits for one that does not (the safety half of
   `StartupEnds`), and that a request of `TokenSessions` can always go on or abort.
3. The job against the breaker of its process: how many tries of a job an outage
   uses up.
4. `Accounts`: which of an overlapping reset and change of password survives,
   once the code says which should.
