----------------------------- MODULE RecipeJobs -----------------------------
(***************************************************************************)
(* Recipes generated in the background for one user: the Celery task with  *)
(* its redeliveries and retries, the daily counter in Redis, the two cache *)
(* layers and the graph between them, in several workers at once.          *)
(*                                                                         *)
(* A worker process runs one job after another, each as a coroutine of the *)
(* one event loop it has.  A limit of time may end run_until_complete and  *)
(* leave the coroutine, with its open session, in the loop: it goes on     *)
(* when the process runs its next job.                                     *)
(*                                                                         *)
(* A step is one call to Redis, to the database or to the provider, or one *)
(* exchange with the broker or the result backend.  Any of them may raise, *)
(* and a process may die between two of them.  What a session has not      *)
(* committed is its coroutine's own.  The graph is taken to hand its nodes *)
(* the dependencies of its config.                                         *)
(***************************************************************************)
EXTENDS Integers, FiniteSets

CONSTANTS
  Workers,     \* worker processes
  Coroutines,  \* the calls of _async_generate that may be under way at once
  Jobs,        \* calls of generate_recipe_task, all for one user
  Limit,       \* the daily limit of the tier each job was posted with
  Hashes,      \* ingredient_hash of the inventories the user may have
  MaxRetries,  \* max_retries
  MaxMishaps,  \* bound on the processes, connections and time lost
  MaxForeign,  \* bound on the recipes the other writer keeps
  OneSource,   \* whether that writer's recipes have the source of the pipeline's
  NoMessage, NoHash, NoWorker, NoJob, NoCoroutine

ASSUME RecipeJobsAssumption ==
  /\ Limit \in [Jobs -> Nat]
  /\ MaxRetries \in Nat /\ MaxMishaps \in Nat /\ MaxForeign \in Nat
  /\ OneSource \in BOOLEAN
  /\ IsFiniteSet(Workers) /\ IsFiniteSet(Coroutines)
  /\ NoMessage \notin [job : Jobs, retries : 0..MaxRetries] /\ NoHash \notin Hashes
  /\ NoWorker \notin Workers /\ NoJob \notin Jobs /\ NoCoroutine \notin Coroutines

VARIABLES
  queue,     \* messages at the broker: how many of each
  held,      \* the message each process is working on
  unacked,   \* the broker waits for its acknowledgement, and has it back otherwise
  phase,     \* what each process does next
  awaits,    \* the coroutine its run_until_complete waits for
  home,      \* the process in whose loop each coroutine is
  job,       \* the job it was called for
  pc,        \* what each coroutine does next
  allowed,   \* its count was within the limit
  hash,      \* ingredient_hash of its graph's state
  flushed,   \* its session has a Recipe to commit
  result,    \* what the backend has of each job; it is "over" when it has failed,
             \* or when an answer or a next try could not be recorded
  count,     \* pm:rate:{user}:daily, 0 when the key is absent
  expires,   \* the key has a TTL
  cached,    \* the hashes with a pm:recipe:{user}:{hash}
  stored,    \* how many recipes of the pipeline the database has
  foreign,   \* how many generated recipes of POST /recipes/generate
  admitted,  \* history: the attempts this counter let through, with its value
  attempts,  \* history: the attempts made, of all jobs
  mishaps    \* history: processes and connections lost, coroutines left behind

broker == <<queue, held, unacked, mishaps>>
process == <<phase, awaits>>
counter == <<count, expires, admitted, attempts>>
store == <<cached, stored, foreign>>
session == <<allowed, hash, flushed>>
coroutine == <<home, job, pc, session>>

vars == <<broker, process, result, counter, store, coroutine>>

Messages == [job : Jobs, retries : 0..MaxRetries]

\* The attempt, between the first call to Redis and the commit.
Attempt == {"count", "expire", "cache", "lookup", "backfill", "generate", "commit"}

BrokerOK ==
  /\ queue \in [Messages -> Nat]
  /\ held \in [Workers -> Messages \cup {NoMessage}]
  /\ unacked \in [Workers -> BOOLEAN]
  /\ result \in [Jobs -> {"unposted", "pending", "success", "over"}]
  /\ mishaps \in 0..MaxMishaps

ProcessOK ==
  /\ phase \in [Workers -> {"idle", "run", "answer", "ack"}]
  /\ awaits \in [Workers -> Coroutines \cup {NoCoroutine}]

CoroutineOK ==
  /\ home \in [Coroutines -> Workers \cup {NoWorker}]
  /\ job \in [Coroutines -> Jobs \cup {NoJob}]
  /\ pc \in [Coroutines -> Attempt \cup {"free", "retry"}]
  /\ allowed \in [Coroutines -> BOOLEAN]
  /\ hash \in [Coroutines -> Hashes \cup {NoHash}]
  /\ flushed \in [Coroutines -> BOOLEAN]

CounterOK ==
  /\ count \in Nat /\ expires \in BOOLEAN
  /\ expires => count > 0
  /\ admitted \subseteq [job : Jobs, value : Nat \ {0}]
  /\ attempts \in Nat

StoreOK == cached \subseteq Hashes /\ stored \in Nat /\ foreign \in 0..MaxForeign

\* A process is idle without a message, and only then; the coroutine it waits
\* for is in its loop and was called for its message.
WorkerShape(w) ==
  /\ phase[w] = "idle" <=> held[w] = NoMessage
  /\ phase[w] = "run" <=> awaits[w] # NoCoroutine
  /\ unacked[w] => held[w] # NoMessage
  /\ awaits[w] # NoCoroutine => home[awaits[w]] = w /\ job[awaits[w]] = held[w].job

\* What a coroutine has flushed is about to be committed, and is given up with
\* the coroutine; past the inventory it has a hash.
CoroutineShape(c) ==
  /\ pc[c] = "free" <=> home[c] = NoWorker
  /\ pc[c] = "free" <=> job[c] = NoJob
  /\ flushed[c] => pc[c] = "commit"
  /\ pc[c] \in {"lookup", "backfill", "generate"} => hash[c] # NoHash

TypeOK ==
  /\ BrokerOK /\ ProcessOK /\ CoroutineOK /\ CounterOK /\ StoreOK
  /\ \A w \in Workers : WorkerShape(w)
  /\ \A c \in Coroutines : CoroutineShape(c)

Init ==
  /\ queue = [m \in Messages |-> 0]
  /\ held = [w \in Workers |-> NoMessage] /\ unacked = [w \in Workers |-> FALSE]
  /\ phase = [w \in Workers |-> "idle"] /\ awaits = [w \in Workers |-> NoCoroutine]
  /\ home = [c \in Coroutines |-> NoWorker] /\ job = [c \in Coroutines |-> NoJob]
  /\ pc = [c \in Coroutines |-> "free"]
  /\ allowed = [c \in Coroutines |-> FALSE]
  /\ hash = [c \in Coroutines |-> NoHash]
  /\ flushed = [c \in Coroutines |-> FALSE]
  /\ result = [j \in Jobs |-> "unposted"]
  /\ count = 0 /\ expires = FALSE
  /\ cached = {} /\ stored = 0 /\ foreign = 0
  /\ admitted = {} /\ attempts = 0
  /\ mishaps = 0

At(c, step) == pc[c] = step

\* A coroutine goes on while the loop of its process runs, whichever coroutine
\* the loop runs for.
Does(c, step) == At(c, step) /\ phase[home[c]] = "run"

Goto(c, step) == pc' = [pc EXCEPT ![c] = step] /\ UNCHANGED <<home, job>>
Job(w) == held[w].job

-----------------------------------------------------------------------------
(* How a coroutine and its process end                                     *)

\* Faulty variant: the session is the process's, and is not rolled back.
CloseSessionUnrolled(closes) ==
  /\ allowed' = [c \in Coroutines |-> allowed[c] /\ c \notin closes]
  /\ hash' = [c \in Coroutines |-> IF c \in closes THEN NoHash ELSE hash[c]]
  /\ UNCHANGED flushed

\* What the sessions have not committed is gone.
CloseSession(closes) ==
  /\ allowed' = [c \in Coroutines |-> allowed[c] /\ c \notin closes]
  /\ hash' = [c \in Coroutines |-> IF c \in closes THEN NoHash ELSE hash[c]]
  /\ flushed' = [c \in Coroutines |-> flushed[c] /\ c \notin closes]

End(ends) ==
  /\ pc' = [c \in Coroutines |-> IF c \in ends THEN "free" ELSE pc[c]]
  /\ home' = [c \in Coroutines |-> IF c \in ends THEN NoWorker ELSE home[c]]
  /\ job' = [c \in Coroutines |-> IF c \in ends THEN NoJob ELSE job[c]]
  /\ CloseSession(ends)

In(w) == {c \in Coroutines : home[c] = w}

Awaited(c) == home[c] # NoWorker /\ awaits[home[c]] = c

\* run_until_complete returns or raises.
Proceed(w, next) ==
  /\ phase' = [phase EXCEPT ![w] = next]
  /\ awaits' = [awaits EXCEPT ![w] = NoCoroutine]

\* What a coroutine nobody waits for returns or raises is nobody's.
Leave(c, next) == IF Awaited(c) THEN Proceed(home[c], next) ELSE UNCHANGED process

\* The backend does not replace a success.
Recorded(j, state) == result' = [result EXCEPT ![j] = IF @ = "success" THEN @ ELSE state]

\* The coroutine raises: the session is closed, the job has failed and is not
\* tried again.
Raise(c) ==
  /\ End({c})
  /\ Leave(c, "ack")
  /\ IF Awaited(c) THEN Recorded(job[c], "over") ELSE UNCHANGED result

-----------------------------------------------------------------------------
(* The broker                                                              *)

Requeue(m) == queue' = [queue EXCEPT ![m] = @ + 1]

Mishap == mishaps < MaxMishaps /\ mishaps' = mishaps + 1

Post(j) ==
  /\ result[j] = "unposted"
  /\ result' = [result EXCEPT ![j] = "pending"]
  /\ Requeue([job |-> j, retries |-> 0])
  /\ UNCHANGED <<held, unacked, mishaps, process, counter, store, coroutine>>

\* The process calls _async_generate.
Take(w, m, c) ==
  /\ phase[w] = "idle" /\ queue[m] > 0 /\ At(c, "free")
  /\ queue' = [queue EXCEPT ![m] = @ - 1]
  /\ held' = [held EXCEPT ![w] = m] /\ unacked' = [unacked EXCEPT ![w] = TRUE]
  /\ phase' = [phase EXCEPT ![w] = "run"] /\ awaits' = [awaits EXCEPT ![w] = c]
  /\ home' = [home EXCEPT ![c] = w] /\ job' = [job EXCEPT ![c] = m.job]
  /\ pc' = [pc EXCEPT ![c] = "count"]
  /\ UNCHANGED <<mishaps, result, counter, store, session>>

\* The process has no message any more.
Release(w) ==
  /\ held' = [held EXCEPT ![w] = NoMessage]
  /\ unacked' = [unacked EXCEPT ![w] = FALSE]
  /\ Proceed(w, "idle")

\* task_acks_late.
Ack(w) ==
  /\ phase[w] = "ack"
  /\ Release(w)
  /\ UNCHANGED <<queue, mishaps, result, counter, store, coroutine>>

\* Faulty variant: the message was acknowledged on receipt.
CrashLosesMessage(w) ==
  /\ held[w] # NoMessage \/ In(w) # {}
  /\ Mishap
  /\ Release(w)
  /\ End(In(w))
  /\ UNCHANGED <<queue, result, counter, store>>

\* task_reject_on_worker_lost: the message goes back to the queue.  The
\* coroutines go with the process.
Crash(w) ==
  /\ held[w] # NoMessage \/ In(w) # {}
  /\ Mishap
  /\ IF unacked[w] THEN Requeue(held[w]) ELSE UNCHANGED queue
  /\ Release(w)
  /\ End(In(w))
  /\ UNCHANGED <<result, counter, store>>

\* The connection to the broker is lost, which gives out again what is not
\* acknowledged; the process goes on, and its acknowledgement reaches nobody.
Disconnect(w) ==
  /\ unacked[w]
  /\ Mishap
  /\ Requeue(held[w])
  /\ unacked' = [unacked EXCEPT ![w] = FALSE]
  /\ UNCHANGED <<held, process, result, counter, store, coroutine>>

\* task_soft_time_limit, raised out of the waiting loop: the task has failed,
\* the coroutine and its session stay.
Abandon(w) ==
  /\ phase[w] = "run"
  /\ Mishap
  /\ Proceed(w, "ack")
  /\ Recorded(Job(w), "over")
  /\ UNCHANGED <<queue, held, unacked, counter, store, coroutine>>

\* task_time_limit: the process is killed, the task has failed.
Kill(w) ==
  /\ phase[w] \in {"run", "answer"}
  /\ End(In(w))
  /\ Proceed(w, "ack")
  /\ Recorded(Job(w), "over")
  /\ UNCHANGED <<broker, counter, store>>

-----------------------------------------------------------------------------
(* CacheService.check_and_increment_rate                                   *)

\* Faulty variant: the count from before the increment.
AdmitsOneMore(value, limit) == value - 1 <= limit

Admits(value, limit) == value <= limit

\* Faulty variant: only the attempt that created the key sets its expiry.
NeedsExpiryIfFirst(value) == value = 1

\* The key has no TTL yet.
NeedsExpiry(value) == ~expires

\* RateLimitExceededError is nobody's to catch.
Gate(c, ok) ==
  \/ /\ ok /\ Goto(c, "cache")
     /\ allowed' = [allowed EXCEPT ![c] = FALSE]
     /\ UNCHANGED <<hash, flushed, process, result>>
  \/ ~ok /\ Raise(c)

\* INCR and TTL in one MULTI.
CountAttempt(c) ==
  LET value == count + 1
      ok == Admits(value, Limit[job[c]])
  IN
  /\ Does(c, "count")
  /\ count' = value
  /\ attempts' = attempts + 1
  /\ admitted' = IF ok THEN admitted \cup {[job |-> job[c], value |-> value]} ELSE admitted
  /\ IF NeedsExpiry(value)
     THEN /\ Goto(c, "expire") /\ allowed' = [allowed EXCEPT ![c] = ok]
          /\ UNCHANGED <<hash, flushed, process, result>>
     ELSE Gate(c, ok)
  /\ UNCHANGED <<broker, expires, store>>

\* EXPIRE does nothing to a key that is gone by now.
ExpireCounter(c) ==
  /\ Does(c, "expire")
  /\ expires' = (count > 0)
  /\ Gate(c, allowed[c])
  /\ UNCHANGED <<broker, count, admitted, attempts, store>>

CounterExpires ==
  /\ expires
  /\ count' = 0 /\ expires' = FALSE /\ admitted' = {}
  /\ UNCHANGED <<broker, process, result, attempts, store, coroutine>>

-----------------------------------------------------------------------------
(* The graph                                                               *)

\* An error code ends the graph: the engine raises RecipeGenerationError,
\* which the task result with a retry.
Fails(c) == Goto(c, "retry") /\ hash' = [hash EXCEPT ![c] = NoHash]

\* node_fetch_inventory, where no ingredients are an error, and node_check_cache,
\* Redis: a corrupt entry counts as none.
CheckRedis(c) ==
  /\ Does(c, "cache")
  /\ \/ \E h \in Hashes :
          /\ hash' = [hash EXCEPT ![c] = h]
          /\ (h \in cached /\ Goto(c, "commit")) \/ Goto(c, "lookup")
     \/ Fails(c)
  /\ UNCHANGED <<allowed, flushed, broker, process, result, counter, store>>

\* Faulty variant: the lookup finds nothing.
FindCachedNone(c) == Goto(c, "generate")

\* find_cached_recipe looks at the user's recipes of a source, whatever their
\* ingredients, and expects one row at most.
Found == IF OneSource THEN stored + foreign ELSE stored

FindCached(c) ==
  \/ Found = 0 /\ Goto(c, "generate")
  \/ Found = 1 /\ Goto(c, "backfill")

LookUpRecipe(c) ==
  /\ Does(c, "lookup")
  /\ FindCached(c)
  /\ UNCHANGED <<session, broker, process, result, counter, store>>

Backfill(c) ==
  /\ Does(c, "backfill")
  /\ cached' = cached \cup {hash[c]}
  /\ Goto(c, "commit")
  /\ UNCHANGED <<session, broker, process, result, counter, stored, foreign>>

\* node_generate and node_validate_output: a prompt too large, a refusal of
\* the provider, an output that does not parse or uses what is not there are
\* errors.  node_persist: the row is flushed, which nobody sees, then Redis is
\* written.
Generate(c) ==
  /\ Does(c, "generate")
  /\ \/ /\ Goto(c, "commit")
        /\ flushed' = [flushed EXCEPT ![c] = TRUE]
        /\ cached' = cached \cup {hash[c]}
        /\ UNCHANGED hash
     \/ Fails(c) /\ UNCHANGED <<flushed, cached>>
  /\ UNCHANGED <<allowed, broker, process, result, counter, stored, foreign>>

\* setex: an entry is gone after its TTL.
CacheExpires(h) ==
  /\ h \in cached
  /\ cached' = cached \ {h}
  /\ UNCHANGED <<broker, process, result, counter, stored, foreign, coroutine>>

-----------------------------------------------------------------------------
(* The task                                                                *)

\* The recipe and the log of its usage; the row may be there and the answer of
\* the database lost.
Commit(c) ==
  /\ Does(c, "commit")
  /\ stored' = IF flushed[c] THEN stored + 1 ELSE stored
  /\ \/ End({c}) /\ Leave(c, "answer") /\ UNCHANGED result
     \/ Raise(c)
  /\ UNCHANGED <<broker, counter, cached, foreign>>

\* The answer may not reach the backend; the message is acknowledged anyway.
Answer(w) ==
  /\ phase[w] = "answer"
  /\ Recorded(Job(w), "success") \/ Recorded(Job(w), "over")
  /\ Proceed(w, "ack")
  /\ UNCHANGED <<broker, counter, store, coroutine>>

\* Faulty variant: apply_async of the same task, in place of task.retry.
NextTryUncounted(m) == m

NextTry(m) == [m EXCEPT !.retries = @ + 1]

\* task.retry makes the next try from the request its process is serving, which
\* for a coroutine left behind is that of another job.
CanRetry(w) == held[w].retries < MaxRetries

\* The next try is a message of its own, published before this one is
\* acknowledged, and not due before the state RETRY is recorded, if it is.
Republish(c) ==
  /\ Does(c, "retry") /\ CanRetry(home[c])
  /\ Requeue(NextTry(held[home[c]]))
  /\ End({c})
  /\ Leave(c, "ack")
  /\ \/ Awaited(c) /\ Recorded(job[c], "pending")
     \/ UNCHANGED result
  /\ UNCHANGED <<held, unacked, mishaps, counter, store>>

\* apply_async raises: task.retry raises Reject, without requeue, and the
\* message is dropped without an answer.
RetryRefused(c) ==
  /\ Does(c, "retry") /\ CanRetry(home[c])
  /\ End({c})
  /\ Leave(c, "ack")
  /\ IF Awaited(c) THEN Recorded(job[c], "over") ELSE UNCHANGED result
  /\ UNCHANGED <<broker, counter, store>>

\* No try is left: task.retry raises the exception it was given.
RetriesExceeded(c) ==
  /\ Does(c, "retry") /\ ~CanRetry(home[c])
  /\ Raise(c)
  /\ UNCHANGED <<broker, counter, store>>

Retry(c) == Republish(c) \/ RetryRefused(c) \/ RetriesExceeded(c)

\* Any other exception: the limit of time while the coroutine itself runs,
\* Redis or the database, AITimeoutError, two recipes found.
Raises(c) ==
  /\ \E step \in Attempt : Does(c, step)
  /\ Raise(c)
  /\ UNCHANGED <<broker, counter, store>>

-----------------------------------------------------------------------------
(* The user                                                                *)

\* RecipeService.generate_from_inventory, in the request's own transaction.
GenerateFromInventory(n) ==
  /\ foreign + n <= MaxForeign
  /\ foreign' = foreign + n
  /\ UNCHANGED <<broker, process, result, counter, cached, stored, coroutine>>

\* RecipeService.delete_recipe.
DeleteRecipe ==
  /\ \/ stored > 0 /\ stored' = stored - 1 /\ UNCHANGED foreign
     \/ foreign > 0 /\ foreign' = foreign - 1 /\ UNCHANGED stored
  /\ UNCHANGED <<broker, process, result, counter, cached, coroutine>>

-----------------------------------------------------------------------------

Run(c) ==
  \/ CountAttempt(c) \/ ExpireCounter(c)
  \/ CheckRedis(c) \/ LookUpRecipe(c) \/ Backfill(c) \/ Generate(c)
  \/ Commit(c) \/ Retry(c) \/ Raises(c)

Work(w) == Answer(w) \/ Ack(w) \/ Crash(w) \/ Disconnect(w) \/ Abandon(w) \/ Kill(w)

Next ==
  \/ \E j \in Jobs : Post(j)
  \/ \E w \in Workers, m \in Messages, c \in Coroutines : Take(w, m, c)
  \/ \E w \in Workers : Work(w)
  \/ \E c \in Coroutines : Run(c)
  \/ CounterExpires \/ \E h \in Hashes : CacheExpires(h)
  \/ DeleteRecipe \/ \E n \in 1..MaxForeign : GenerateFromInventory(n)

Spec == Init /\ [][Next]_vars

-----------------------------------------------------------------------------
(* Properties                                                              *)

\* However many workers count at once, fail, die and try again, the attempts
\* a counter has let through with a limit of n or less are n at most, whatever
\* tier the other jobs of the user were posted with.
QuotaHolds ==
  \A j \in Jobs :
    Cardinality({a \in admitted : Limit[a.job] <= Limit[j]}) <= Limit[j]

\* A counter that lost its expiry to a crash between INCR and EXPIRE does not
\* stay without: whoever gets past the gate, or is turned away, leaves it with
\* one.
GateLeavesExpiry ==
  [][\A c \in Coroutines :
       /\ CountAttempt(c) \/ ExpireCounter(c)
       /\ pc'[c] # "expire"
       => count' = 0 \/ expires']_vars

Posted == {j \in Jobs : result[j] # "unposted"}

\* Late acknowledgement and retries multiply, but by no more than this: every
\* job posted is good for one chain of tries, and so is every process and every
\* connection lost, and every coroutine left behind, which may retry the job of
\* another.
AttemptsBounded ==
  attempts <= (MaxRetries + 1) * (Cardinality(Posted) + mishaps)

\* The lookup that precedes a generation keeps the recipes the pipeline stores
\* for a user below the number of its attempts that may be under way at once,
\* those left behind included, although it is far from the insert, and whatever
\* the other writer of recipes does; two are enough for the lookup to fail.
StoredBounded == stored <= Cardinality(Coroutines)

\* A job is lost only to an exchange that fails: unless its answer or its next
\* try could not be recorded, a job without an answer is queued, or with a
\* process that will acknowledge it only when it has answered or retried.  No
\* crash between two steps, lost connection or limit of time loses it.
InHand(j) ==
  \/ \E m \in Messages : m.job = j /\ queue[m] > 0
  \/ \E w \in Workers : unacked[w] /\ phase[w] \in {"run", "answer"} /\ Job(w) = j

NoJobIsLost == \A j \in Jobs : result[j] = "pending" => InHand(j)

-----------------------------------------------------------------------------
(* The inductive invariant                                                 *)

\* The values given out by one life of the counter differ.
CounterShape ==
  \A a \in admitted :
    /\ a.value <= count /\ a.value <= Limit[a.job]
    /\ \A b \in admitted : a.value = b.value => a = b

\* Whoever has looked in vain may still store.
PastLookup == {c \in Coroutines : At(c, "generate") \/ flushed[c]}

StoreShape == stored + Cardinality(PastLookup) <= Cardinality(Coroutines)

IInv == TypeOK /\ CounterShape /\ StoreShape /\ NoJobIsLost

\* The attempts that may still come of each copy of a message in the queue.
TriesQueued == UNION {({m} \X (1..queue[m])) \X (m.retries..MaxRetries) : m \in Messages}

\* What the message at w is still good for, without a mishap.
TriesLeft(w) ==
  IF phase[w] # "run" THEN {}
  ELSE IF At(awaits[w], "count") THEN held[w].retries..MaxRetries
  ELSE (held[w].retries + 1)..MaxRetries

TriesHeld == UNION {({w} \X {0}) \X TriesLeft(w) : w \in Workers}

\* A coroutine left behind may make its own attempt, and retry any job.
LeftBehind == {c \in Coroutines : home[c] # NoWorker /\ ~Awaited(c)}

TriesStray ==
  UNION {({c} \X {-1}) \X {i \in 0..MaxRetries : i = 0 => At(c, "count")} : c \in LeftBehind}

Tries == TriesQueued \cup TriesHeld \cup TriesStray

\* Attempts made and attempts to come, together, stay within the bound.
AttemptShape ==
  /\ IsFiniteSet(Posted) /\ IsFiniteSet(Tries)
  /\ attempts + Cardinality(Tries) <= (MaxRetries + 1) * (Cardinality(Posted) + mishaps)

=============================================================================
