-------------------------- MODULE RecipeJobsProofs --------------------------
(***************************************************************************)
(* IInv is an invariant of RecipeJobs for every number of processes, jobs, *)
(* retries and mishaps and every limit; the properties follow from it.     *)
(* The attempts are bounded by an invariant of their own, AttemptShape.    *)
(***************************************************************************)
EXTENDS RecipeJobs, FiniteSetTheorems, TLAPS

LEMMA InitInv == Init => IInv
<1> SUFFICES ASSUME Init PROVE IInv
  OBVIOUS
<1> USE DEF Init
<1>1. TypeOK
  <2>1. BrokerOK /\ ProcessOK
    BY RecipeJobsAssumption DEF BrokerOK, ProcessOK
  <2>2. CoroutineOK
    BY DEF CoroutineOK
  <2>3. CounterOK /\ StoreOK
    <3>1. CounterOK
      BY DEF CounterOK
    <3>2. StoreOK
      BY RecipeJobsAssumption DEF StoreOK
    <3>3. QED
      BY <3>1, <3>2
  <2>4. \A w \in Workers : WorkerShape(w)
    BY DEF WorkerShape
  <2>5. \A c \in Coroutines : CoroutineShape(c)
    BY DEF CoroutineShape
  <2>6. QED
    BY <2>1, <2>2, <2>3, <2>4, <2>5 DEF TypeOK
<1>2. CounterShape
  BY DEF CounterShape
<1>3. StoreShape
  <2>1. PastLookup = {}
    BY DEF PastLookup, At
  <2>2. Cardinality(PastLookup) = 0 /\ Cardinality(Coroutines) \in Nat
    BY <2>1, FS_EmptySet, FS_CardinalityType, RecipeJobsAssumption
  <2>3. QED
    BY <2>2 DEF StoreShape
<1>4. NoJobIsLost
  BY DEF NoJobIsLost
<1>5. QED
  BY <1>1, <1>2, <1>3, <1>4 DEF IInv

-----------------------------------------------------------------------------
(* Kinds of steps                                                          *)

USE DEF At, Goto, Job, Does

\* A coroutine under way is in the loop of a process, which has a message while
\* it runs.
LEMMA AtHome ==
  ASSUME TypeOK, NEW c \in Coroutines, ~At(c, "free")
  PROVE  home[c] \in Workers /\ job[c] \in Jobs
BY DEF TypeOK, CoroutineOK, CoroutineShape

LEMMA JobHeld ==
  ASSUME TypeOK, NEW w \in Workers, phase[w] # "idle"
  PROVE  held[w] \in Messages /\ held[w] # NoMessage /\ Job(w) \in Jobs
<1>1. held[w] \in Messages /\ held[w] # NoMessage
  BY DEF TypeOK, BrokerOK, WorkerShape
<1>2. QED
  BY <1>1 DEF Messages

\* Whoever a process waits for is in its loop, for the job of its message.
LEMMA WaitsAtHome ==
  ASSUME TypeOK, NEW w \in Workers, awaits[w] # NoCoroutine
  PROVE  /\ awaits[w] \in Coroutines /\ phase[w] = "run"
         /\ home[awaits[w]] = w /\ job[awaits[w]] = Job(w)
         /\ Awaited(awaits[w])
<1>1. /\ awaits[w] \in Coroutines /\ phase[w] = "run"
      /\ home[awaits[w]] = w /\ job[awaits[w]] = Job(w)
  BY DEF TypeOK, ProcessOK, WorkerShape
<1>2. QED
  BY <1>1, RecipeJobsAssumption DEF Awaited

\* A coroutine goes on in its place.
Moves(c) ==
  /\ ~At(c, "free") /\ phase[home[c]] = "run"
  /\ \E step \in (Attempt \ {"count"}) \cup {"retry"} : Goto(c, step)
  /\ UNCHANGED <<broker, process, result>>

\* It returns or raises, and the broker does not hear of it.
Leaves(c) ==
  /\ ~At(c, "free") /\ phase[home[c]] = "run"
  /\ End({c})
  /\ \/ Leave(c, "answer") /\ UNCHANGED result
     \/ ~Awaited(c) /\ Leave(c, "ack") /\ UNCHANGED result
     \/ Awaited(c) /\ Leave(c, "ack") /\ Recorded(job[c], "over")
  /\ UNCHANGED broker

LEMMA RaiseLeaves ==
  ASSUME NEW c \in Coroutines, ~At(c, "free"), phase[home[c]] = "run", Raise(c), UNCHANGED broker
  PROVE  Leaves(c)
BY DEF Raise, Leaves

LEMMA RunKinds ==
  ASSUME NEW c \in Coroutines, Run(c)
  PROVE  Moves(c) \/ Leaves(c) \/ Republish(c)
<1>1. CASE CountAttempt(c)
  <2>1. ~At(c, "free") /\ phase[home[c]] = "run" /\ UNCHANGED broker
    BY <1>1 DEF CountAttempt
  <2>2. CASE Raise(c)
    BY <2>1, <2>2, RaiseLeaves
  <2>3. CASE ~Raise(c)
    <3>1. /\ Goto(c, "expire") \/ Goto(c, "cache")
          /\ UNCHANGED <<process, result>>
      BY <1>1, <2>3 DEF CountAttempt, Gate
    <3>2. QED
      BY <2>1, <3>1 DEF Moves, Attempt
  <2>4. QED
    BY <2>2, <2>3
<1>2. CASE ExpireCounter(c)
  <2>1. ~At(c, "free") /\ phase[home[c]] = "run" /\ UNCHANGED broker
    BY <1>2 DEF ExpireCounter
  <2>2. CASE Raise(c)
    BY <2>1, <2>2, RaiseLeaves
  <2>3. CASE ~Raise(c)
    <3>1. Goto(c, "cache") /\ UNCHANGED <<process, result>>
      BY <1>2, <2>3 DEF ExpireCounter, Gate
    <3>2. QED
      BY <2>1, <3>1 DEF Moves, Attempt
  <2>4. QED
    BY <2>2, <2>3
<1>3. CASE CheckRedis(c) \/ LookUpRecipe(c)
  BY <1>3 DEF CheckRedis, LookUpRecipe, FindCached, Fails, Moves, Attempt
<1>4. CASE Backfill(c) \/ Generate(c)
  BY <1>4 DEF Backfill, Generate, Fails, Moves, Attempt
<1>5. CASE Commit(c)
  <2>1. ~At(c, "free") /\ phase[home[c]] = "run" /\ UNCHANGED broker
    BY <1>5 DEF Commit
  <2>2. QED
    BY <1>5, <2>1, RaiseLeaves DEF Commit, Leaves
<1>6. CASE RetryRefused(c)
  BY <1>6 DEF RetryRefused, Leaves
<1>7. CASE RetriesExceeded(c)
  <2>1. ~At(c, "free") /\ phase[home[c]] = "run" /\ UNCHANGED broker /\ Raise(c)
    BY <1>7 DEF RetriesExceeded
  <2>2. QED
    BY <2>1, RaiseLeaves
<1>8. CASE Raises(c)
  <2>1. ~At(c, "free") /\ phase[home[c]] = "run" /\ UNCHANGED broker /\ Raise(c)
    BY <1>8 DEF Raises, Attempt
  <2>2. QED
    BY <2>1, RaiseLeaves
<1>9. QED
  BY <1>1, <1>2, <1>3, <1>4, <1>5, <1>6, <1>7, <1>8 DEF Run, Retry

-----------------------------------------------------------------------------
(* Types                                                                   *)

\* A bag with one more of a message.
LEMMA OneMore ==
  ASSUME NEW S, NEW bag \in [S -> Nat], NEW x \in S
  PROVE  [bag EXCEPT ![x] = @ + 1] \in [S -> Nat]
OBVIOUS

LEMMA SameCounter ==
  ASSUME CounterOK, UNCHANGED counter
  PROVE  CounterOK'
BY DEF CounterOK, counter

LEMMA SameStore ==
  ASSUME StoreOK, UNCHANGED store
  PROVE  StoreOK'
BY DEF StoreOK, store

LEMMA SameProcess ==
  ASSUME TypeOK, UNCHANGED <<held, unacked, process, home, job>>
  PROVE  ProcessOK' /\ \A w \in Workers : WorkerShape(w)'
BY DEF TypeOK, ProcessOK, WorkerShape, process

LEMMA SameCoroutine ==
  ASSUME TypeOK, UNCHANGED coroutine
  PROVE  CoroutineOK' /\ \A c \in Coroutines : CoroutineShape(c)'
BY DEF TypeOK, CoroutineOK, CoroutineShape, coroutine, session

LEMMA RecordedType ==
  ASSUME TypeOK, NEW j \in Jobs, NEW state \in {"pending", "success", "over"}, Recorded(j, state)
  PROVE  result' \in [Jobs -> {"unposted", "pending", "success", "over"}]
BY DEF Recorded, TypeOK, BrokerOK

\* The coroutines that end are free, the others as they were.
LEMMA EndType ==
  ASSUME TypeOK, NEW ends, End(ends)
  PROVE  CoroutineOK' /\ \A c \in Coroutines : CoroutineShape(c)'
<1> USE DEF End, CloseSession, TypeOK, CoroutineOK
<1>1. CoroutineOK'
  OBVIOUS
<1>2. ASSUME NEW c \in Coroutines PROVE CoroutineShape(c)'
  <2>1. CASE c \in ends
    BY <2>1 DEF CoroutineShape
  <2>2. CASE c \notin ends
    BY <2>2 DEF CoroutineShape
  <2>3. QED
    BY <2>1, <2>2
<1>3. QED
  BY <1>1, <1>2

\* A coroutine that ends leaves its process with its message, and the others
\* with who they wait for.
LEMMA LeaveType ==
  ASSUME TypeOK, NEW c \in Coroutines, ~At(c, "free"), phase[home[c]] = "run",
         End({c}), NEW next \in {"answer", "ack"}, Leave(c, next), UNCHANGED <<held, unacked>>
  PROVE  ProcessOK' /\ \A w \in Workers : WorkerShape(w)'
<1>1. home[c] \in Workers
  BY AtHome
<1>2. \A b \in Coroutines \ {c} : home'[b] = home[b] /\ job'[b] = job[b]
  BY DEF End
<1>3. CASE Awaited(c)
  <2>1. /\ phase' = [phase EXCEPT ![home[c]] = next]
        /\ awaits' = [awaits EXCEPT ![home[c]] = NoCoroutine]
    BY <1>3 DEF Leave, Proceed
  <2>2. ProcessOK'
    BY <1>1, <2>1 DEF TypeOK, ProcessOK
  <2>3. ASSUME NEW w \in Workers PROVE WorkerShape(w)'
    <3>1. CASE w = home[c]
      BY <1>1, <2>1, <3>1 DEF TypeOK, ProcessOK, WorkerShape
    <3>2. CASE w # home[c]
      <4>1. phase'[w] = phase[w] /\ awaits'[w] = awaits[w]
        BY <2>1, <3>2 DEF TypeOK, ProcessOK
      <4>2. awaits[w] # NoCoroutine => awaits[w] \in Coroutines \ {c}
        BY <3>2, WaitsAtHome
      <4>3. QED
        BY <1>2, <4>1, <4>2 DEF TypeOK, WorkerShape
    <3>3. QED
      BY <3>1, <3>2
  <2>4. QED
    BY <2>2, <2>3
<1>4. CASE ~Awaited(c)
  <2>1. UNCHANGED <<phase, awaits>>
    BY <1>4 DEF Leave, process
  <2>2. \A w \in Workers : awaits[w] # NoCoroutine => awaits[w] \in Coroutines \ {c}
    BY <1>4, WaitsAtHome
  <2>3. QED
    BY <1>2, <2>1, <2>2 DEF TypeOK, ProcessOK, WorkerShape
<1>5. QED
  BY <1>3, <1>4

\* Broker, processes and what they are to each other.
Outer == BrokerOK /\ ProcessOK /\ \A w \in Workers : WorkerShape(w)

LEMMA MovesOuter ==
  ASSUME TypeOK, NEW c \in Coroutines, Moves(c)
  PROVE  Outer'
<1>1. BrokerOK'
  BY DEF Moves, broker, TypeOK, BrokerOK
<1>2. QED
  BY <1>1, SameProcess DEF Moves, broker, Outer

LEMMA LeavesOuter ==
  ASSUME TypeOK, NEW c \in Coroutines, Leaves(c)
  PROVE  Outer'
<1>1. result' \in [Jobs -> {"unposted", "pending", "success", "over"}]
  <2>1. CASE UNCHANGED result
    BY <2>1 DEF TypeOK, BrokerOK
  <2>2. CASE Recorded(job[c], "over")
    <3>1. job[c] \in Jobs
      BY AtHome DEF Leaves
    <3>2. QED
      BY <2>2, <3>1, RecordedType
  <2>3. QED
    BY <2>1, <2>2 DEF Leaves
<1>2. BrokerOK'
  BY <1>1 DEF Leaves, broker, TypeOK, BrokerOK
<1>3. ProcessOK' /\ \A w \in Workers : WorkerShape(w)'
  <2>1. PICK next \in {"answer", "ack"} : Leave(c, next)
    BY DEF Leaves
  <2>2. QED
    BY <2>1, LeaveType DEF Leaves, broker
<1>4. QED
  BY <1>2, <1>3 DEF Outer

\* The request a retry is made from, and the message it makes.
LEMMA NextTryType ==
  ASSUME TypeOK, NEW c \in Coroutines, Republish(c)
  PROVE  /\ home[c] \in Workers /\ job[c] \in Jobs
         /\ held[home[c]] \in Messages /\ NextTry(held[home[c]]) \in Messages
         /\ NextTry(held[home[c]]).job = Job(home[c])
         /\ NextTry(held[home[c]]).retries = held[home[c]].retries + 1
<1>1. home[c] \in Workers /\ job[c] \in Jobs
  BY AtHome DEF Republish
<1>2. held[home[c]] \in Messages
  BY <1>1, JobHeld DEF Republish
<1>3. held[home[c]].retries < MaxRetries /\ MaxRetries \in Nat
  BY RecipeJobsAssumption DEF Republish, CanRetry
<1>4. QED
  BY <1>1, <1>2, <1>3 DEF NextTry, Messages

LEMMA RepublishOuter ==
  ASSUME TypeOK, NEW c \in Coroutines, Republish(c)
  PROVE  Outer'
<1> USE DEF Republish
<1>1. result' \in [Jobs -> {"unposted", "pending", "success", "over"}]
  <2>1. CASE UNCHANGED result
    BY <2>1 DEF TypeOK, BrokerOK
  <2>2. CASE Recorded(job[c], "pending")
    BY <2>2, NextTryType, RecordedType
  <2>3. QED
    BY <2>1, <2>2
<1>2. queue' \in [Messages -> Nat]
  <2>1. queue \in [Messages -> Nat]
    BY DEF TypeOK, BrokerOK
  <2>2. QED
    BY ONLY <2>1, NextTryType, OneMore, Republish(c), TypeOK, c \in Coroutines DEF Requeue
<1>3. BrokerOK'
  BY <1>1, <1>2 DEF TypeOK, BrokerOK
<1>4. ProcessOK' /\ \A w \in Workers : WorkerShape(w)'
  BY LeaveType
<1>5. QED
  BY <1>3, <1>4 DEF Outer

LEMMA PostType ==
  ASSUME TypeOK, NEW j \in Jobs, Post(j)
  PROVE  TypeOK'
<1> USE DEF Post
<1>1. BrokerOK'
  <2>1. queue' \in [Messages -> Nat]
    <3>1. [job |-> j, retries |-> 0] \in Messages
      BY RecipeJobsAssumption DEF Messages
    <3>2. queue \in [Messages -> Nat]
      BY DEF TypeOK, BrokerOK
    <3>3. QED
      BY ONLY <3>1, <3>2, OneMore, Post(j) DEF Post, Requeue
  <2>2. result' \in [Jobs -> {"unposted", "pending", "success", "over"}]
    BY DEF TypeOK, BrokerOK
  <2>3. QED
    BY <2>1, <2>2 DEF TypeOK, BrokerOK
<1>2. ProcessOK' /\ \A w \in Workers : WorkerShape(w)'
  BY SameProcess DEF coroutine
<1>3. CoroutineOK' /\ \A c \in Coroutines : CoroutineShape(c)'
  BY SameCoroutine
<1>4. CounterOK' /\ StoreOK'
  BY SameCounter, SameStore DEF TypeOK
<1>5. QED
  BY <1>1, <1>2, <1>3, <1>4 DEF TypeOK

LEMMA TakeType ==
  ASSUME TypeOK, NEW w \in Workers, NEW m \in Messages, NEW c \in Coroutines, Take(w, m, c)
  PROVE  TypeOK'
<1> USE DEF Take
<1>1. m # NoMessage /\ m.job \in Jobs /\ m.job # NoJob /\ w # NoWorker /\ c # NoCoroutine
  BY RecipeJobsAssumption DEF Messages
<1>2. BrokerOK'
  BY DEF TypeOK, BrokerOK
<1>3. ProcessOK'
  BY DEF TypeOK, ProcessOK
<1>4. \A v \in Workers : WorkerShape(v)'
  <2> TAKE v \in Workers
  <2>1. CASE v = w
    <3>1. /\ phase'[v] = "run" /\ held'[v] = m /\ awaits'[v] = c
          /\ home'[c] = v /\ job'[c] = m.job
      BY <2>1 DEF TypeOK, BrokerOK, ProcessOK, CoroutineOK
    <3>2. QED
      BY <1>1, <3>1 DEF WorkerShape
  <2>2. CASE v # w
    <3>1. /\ phase'[v] = phase[v] /\ held'[v] = held[v] /\ awaits'[v] = awaits[v]
          /\ unacked'[v] = unacked[v]
      BY <2>2 DEF TypeOK, BrokerOK, ProcessOK
    <3>2. home[c] = NoWorker /\ NoWorker # v
      BY RecipeJobsAssumption DEF TypeOK, CoroutineShape
    <3>3. awaits[v] # NoCoroutine =>
            home'[awaits[v]] = home[awaits[v]] /\ job'[awaits[v]] = job[awaits[v]]
      BY <3>2, WaitsAtHome DEF TypeOK, CoroutineOK
    <3>4. QED
      BY <3>1, <3>3 DEF TypeOK, WorkerShape
  <2>3. QED
    BY <2>1, <2>2
<1>5. CoroutineOK'
  BY <1>1 DEF TypeOK, CoroutineOK, session, Attempt
<1>6. \A b \in Coroutines : CoroutineShape(b)'
  <2> TAKE b \in Coroutines
  <2>1. CASE b = c
    <3>1. /\ pc'[b] = "count" /\ home'[b] = w /\ job'[b] = m.job
          /\ flushed'[b] = flushed[b] /\ pc[b] = "free"
      BY <2>1 DEF TypeOK, CoroutineOK, session
    <3>2. ~flushed[b]
      BY <3>1 DEF TypeOK, CoroutineShape
    <3>3. QED
      BY <1>1, <3>1, <3>2 DEF CoroutineShape
  <2>2. CASE b # c
    BY <2>2 DEF TypeOK, CoroutineOK, CoroutineShape, session
  <2>3. QED
    BY <2>1, <2>2
<1>7. CounterOK' /\ StoreOK'
  BY SameCounter, SameStore DEF TypeOK
<1>8. QED
  BY <1>2, <1>3, <1>4, <1>5, <1>6, <1>7 DEF TypeOK

\* A process without a message, or whose coroutine is given up, is as any.
LEMMA ProcessLeft ==
  ASSUME TypeOK, NEW w \in Workers, NEW next \in {"idle", "answer", "ack"}, Proceed(w, next),
         \A v \in Workers \ {w} : held'[v] = held[v] /\ unacked'[v] = unacked[v],
         next = "idle" <=> held'[w] = NoMessage, unacked'[w] => held'[w] # NoMessage,
         \A c \in Coroutines : home[c] # w => home'[c] = home[c] /\ job'[c] = job[c]
  PROVE  ProcessOK' /\ \A v \in Workers : WorkerShape(v)'
<1> USE DEF Proceed
<1>1. ProcessOK'
  BY DEF TypeOK, ProcessOK
<1>2. WorkerShape(w)'
  BY DEF TypeOK, ProcessOK, WorkerShape
<1>3. ASSUME NEW v \in Workers \ {w} PROVE WorkerShape(v)'
  <2>1. phase'[v] = phase[v] /\ awaits'[v] = awaits[v]
    BY DEF TypeOK, ProcessOK
  <2>2. awaits[v] # NoCoroutine =>
          home'[awaits[v]] = home[awaits[v]] /\ job'[awaits[v]] = job[awaits[v]]
    BY WaitsAtHome
  <2>3. QED
    BY <2>1, <2>2 DEF TypeOK, WorkerShape
<1>4. QED
  BY <1>1, <1>2, <1>3

LEMMA CrashType ==
  ASSUME TypeOK, NEW w \in Workers, Crash(w)
  PROVE  TypeOK'
<1> USE DEF Crash
<1>1. BrokerOK'
  <2>1. mishaps' \in 0..MaxMishaps
    BY RecipeJobsAssumption DEF TypeOK, BrokerOK, Mishap
  <2>2. queue' \in [Messages -> Nat]
    <3>1. queue \in [Messages -> Nat]
      BY DEF TypeOK, BrokerOK
    <3>2. CASE unacked[w]
      <4>1. held[w] \in Messages
        BY <3>2 DEF TypeOK, BrokerOK, WorkerShape
      <4>2. QED
        BY ONLY <3>1, <3>2, <4>1, OneMore, Crash(w) DEF Crash, Requeue
    <3>3. QED
      BY <3>1, <3>2
  <2>3. QED
    BY <2>1, <2>2 DEF TypeOK, BrokerOK, Release
<1>2. ProcessOK' /\ \A v \in Workers : WorkerShape(v)'
  <2>1. \A v \in Workers \ {w} : held'[v] = held[v] /\ unacked'[v] = unacked[v]
    BY DEF Release, TypeOK, BrokerOK
  <2>2. held'[w] = NoMessage /\ ~unacked'[w] /\ Proceed(w, "idle")
    BY DEF Release, TypeOK, BrokerOK
  <2>3. \A c \in Coroutines : home[c] # w => home'[c] = home[c] /\ job'[c] = job[c]
    BY DEF End, In
  <2>4. QED
    BY <2>1, <2>2, <2>3, ProcessLeft
<1>3. CoroutineOK' /\ \A c \in Coroutines : CoroutineShape(c)'
  BY EndType
<1>4. CounterOK' /\ StoreOK'
  BY SameCounter, SameStore DEF TypeOK
<1>5. QED
  BY <1>1, <1>2, <1>3, <1>4 DEF TypeOK

LEMMA DisconnectType ==
  ASSUME TypeOK, NEW w \in Workers, Disconnect(w)
  PROVE  TypeOK'
<1> USE DEF Disconnect
<1>1. BrokerOK'
  <2>1. mishaps' \in 0..MaxMishaps
    BY RecipeJobsAssumption DEF TypeOK, BrokerOK, Mishap
  <2>2. queue' \in [Messages -> Nat]
    <3>1. queue \in [Messages -> Nat]
      BY DEF TypeOK, BrokerOK
    <3>2. held[w] \in Messages
      BY DEF TypeOK, BrokerOK, WorkerShape
    <3>3. QED
      BY ONLY <3>1, <3>2, OneMore, Disconnect(w) DEF Disconnect, Requeue
  <2>3. QED
    BY <2>1, <2>2 DEF TypeOK, BrokerOK
<1>2. ProcessOK' /\ \A v \in Workers : WorkerShape(v)'
  BY DEF TypeOK, BrokerOK, ProcessOK, WorkerShape, process, coroutine
<1>3. CoroutineOK' /\ \A c \in Coroutines : CoroutineShape(c)'
  BY SameCoroutine
<1>4. CounterOK' /\ StoreOK'
  BY SameCounter, SameStore DEF TypeOK
<1>5. QED
  BY <1>1, <1>2, <1>3, <1>4 DEF TypeOK

\* The other steps of a process: it acknowledges, answers, or gives up the
\* coroutine it waits for.
LEMMA WorkType ==
  ASSUME TypeOK, NEW w \in Workers, Ack(w) \/ Answer(w) \/ Abandon(w) \/ Kill(w)
  PROVE  TypeOK'
<1>1. phase[w] # "idle" /\ held[w] \in Messages /\ held[w] # NoMessage /\ Job(w) \in Jobs
  <2>1. phase[w] # "idle"
    BY DEF Ack, Answer, Abandon, Kill
  <2>2. QED
    BY <2>1, JobHeld
<1>2. BrokerOK'
  <2>1. CASE Ack(w)
    BY <2>1 DEF Ack, Release, TypeOK, BrokerOK
  <2>2. CASE Answer(w) \/ Abandon(w) \/ Kill(w)
    <3>1. Recorded(Job(w), "success") \/ Recorded(Job(w), "over")
      BY <2>2 DEF Answer, Abandon, Kill
    <3>2. result' \in [Jobs -> {"unposted", "pending", "success", "over"}]
      BY <1>1, <3>1, RecordedType
    <3>3. mishaps' \in 0..MaxMishaps /\ UNCHANGED <<queue, held, unacked>>
      BY <2>2, RecipeJobsAssumption
      DEF Answer, Abandon, Kill, Mishap, broker, TypeOK, BrokerOK
    <3>4. QED
      BY <3>2, <3>3 DEF TypeOK, BrokerOK
  <2>3. QED
    BY <2>1, <2>2
<1>3. ProcessOK' /\ \A v \in Workers : WorkerShape(v)'
  <2>1. \A c \in Coroutines : home[c] # w => home'[c] = home[c] /\ job'[c] = job[c]
    BY DEF Ack, Answer, Abandon, Kill, End, In, coroutine
  <2>2. CASE Ack(w)
    <3>1. \A v \in Workers \ {w} : held'[v] = held[v] /\ unacked'[v] = unacked[v]
      BY <2>2 DEF Ack, Release, TypeOK, BrokerOK
    <3>2. held'[w] = NoMessage /\ ~unacked'[w] /\ Proceed(w, "idle")
      BY <2>2 DEF Ack, Release, TypeOK, BrokerOK
    <3>3. QED
      BY <2>1, <3>1, <3>2, ProcessLeft
  <2>3. CASE Answer(w) \/ Abandon(w) \/ Kill(w)
    <3>1. Proceed(w, "ack") /\ UNCHANGED <<held, unacked>>
      BY <2>3 DEF Answer, Abandon, Kill, broker
    <3>2. QED
      BY <1>1, <2>1, <3>1, ProcessLeft
  <2>4. QED
    BY <2>2, <2>3
<1>4. CoroutineOK' /\ \A c \in Coroutines : CoroutineShape(c)'
  <2>1. CASE Kill(w)
    BY <2>1, EndType DEF Kill
  <2>2. CASE Ack(w) \/ Answer(w) \/ Abandon(w)
    BY <2>2, SameCoroutine DEF Ack, Answer, Abandon
  <2>3. QED
    BY <2>1, <2>2
<1>5. CounterOK' /\ StoreOK'
  BY SameCounter, SameStore DEF TypeOK, Ack, Answer, Abandon, Kill
<1>6. QED
  BY <1>2, <1>3, <1>4, <1>5 DEF TypeOK

\* Coroutines, after a step of one.
Inner == CoroutineOK /\ \A c \in Coroutines : CoroutineShape(c)

LEMMA LeavesInner ==
  ASSUME TypeOK, NEW c, End({c})
  PROVE  Inner'
BY EndType DEF Inner

\* A coroutine that goes on, its session up to date with where it is.
LEMMA MovesInner ==
  ASSUME TypeOK, NEW c \in Coroutines, ~At(c, "free"),
         NEW step \in Attempt \cup {"retry"}, Goto(c, step),
         allowed' \in [Coroutines -> BOOLEAN],
         hash' \in [Coroutines -> Hashes \cup {NoHash}],
         flushed' \in [Coroutines -> BOOLEAN],
         \A b \in Coroutines \ {c} : hash'[b] = hash[b] /\ flushed'[b] = flushed[b],
         flushed'[c] => step = "commit",
         step \in {"lookup", "backfill", "generate"} => hash'[c] # NoHash
  PROVE  Inner'
<1>1. CoroutineOK'
  BY DEF TypeOK, CoroutineOK
<1>2. ASSUME NEW b \in Coroutines PROVE CoroutineShape(b)'
  <2>1. CASE b = c
    <3>1. pc'[b] = step /\ home'[b] = home[b] /\ job'[b] = job[b] /\ step # "free"
      BY <2>1 DEF TypeOK, CoroutineOK, Attempt
    <3>2. QED
      BY <2>1, <3>1 DEF TypeOK, CoroutineShape
  <2>2. CASE b # c
    <3>1. pc'[b] = pc[b] /\ home'[b] = home[b] /\ job'[b] = job[b]
      BY <2>2 DEF TypeOK, CoroutineOK
    <3>2. QED
      BY <2>2, <3>1 DEF TypeOK, CoroutineShape
  <2>3. QED
    BY <2>1, <2>2
<1>3. QED
  BY <1>1, <1>2 DEF Inner

\* The gate.
LEMMA GateInner ==
  ASSUME TypeOK, NEW c \in Coroutines, CountAttempt(c) \/ ExpireCounter(c)
  PROVE  Inner'
<1>1. ~At(c, "free") /\ pc[c] \in {"count", "expire"}
  BY DEF CountAttempt, ExpireCounter
<1>2. CASE End({c})
  BY <1>2, LeavesInner
<1>3. CASE ~End({c})
  <2> DEFINE ok == count + 1 <= Limit[job[c]]
  <2>1. /\ Goto(c, "expire") \/ Goto(c, "cache")
        /\ UNCHANGED <<hash, flushed>>
        /\ \/ allowed' = [allowed EXCEPT ![c] = FALSE]
           \/ allowed' = [allowed EXCEPT ![c] = ok]
    BY <1>3 DEF CountAttempt, ExpireCounter, Gate, Raise, Admits
  <2>2. ok \in BOOLEAN
    OBVIOUS
  <2> HIDE DEF ok
  <2>3. allowed' \in [Coroutines -> BOOLEAN]
    BY <2>1, <2>2 DEF TypeOK, CoroutineOK
  <2>4. ~flushed[c] /\ hash \in [Coroutines -> Hashes \cup {NoHash}]
                    /\ flushed \in [Coroutines -> BOOLEAN]
    BY <1>1 DEF TypeOK, CoroutineOK, CoroutineShape
  <2>5. PICK step \in {"expire", "cache"} : Goto(c, step)
    BY <2>1
  <2>6. step \in Attempt \cup {"retry"} /\ step \notin {"lookup", "backfill", "generate"}
    BY DEF Attempt
  <2>7. QED
    BY <1>1, <2>1, <2>3, <2>4, <2>5, <2>6, MovesInner
<1>4. QED
  BY <1>2, <1>3

LEMMA GraphInner ==
  ASSUME TypeOK, NEW c \in Coroutines,
         CheckRedis(c) \/ LookUpRecipe(c) \/ Backfill(c) \/ Generate(c)
  PROVE  Inner'
<1>1. /\ allowed \in [Coroutines -> BOOLEAN]
      /\ hash \in [Coroutines -> Hashes \cup {NoHash}]
      /\ flushed \in [Coroutines -> BOOLEAN]
      /\ UNCHANGED allowed
  BY DEF TypeOK, CoroutineOK, CheckRedis, LookUpRecipe, Backfill, Generate, session
<1>2. /\ ~At(c, "free") /\ pc[c] \in {"cache", "lookup", "backfill", "generate"}
      /\ ~flushed[c]
      /\ pc[c] # "cache" => hash[c] # NoHash
  BY DEF TypeOK, CoroutineShape, CheckRedis, LookUpRecipe, Backfill, Generate
<1>3. NoHash \notin Hashes
  BY RecipeJobsAssumption
<1>4. PICK step \in {"lookup", "backfill", "generate", "commit", "retry"} : Goto(c, step)
  BY DEF CheckRedis, LookUpRecipe, FindCached, Backfill, Generate, Fails
<1>5. pc'[c] = step /\ step \in Attempt \cup {"retry"}
  BY <1>4 DEF TypeOK, CoroutineOK, Attempt
<1>6. /\ hash' \in [Coroutines -> Hashes \cup {NoHash}]
      /\ \A b \in Coroutines \ {c} : hash'[b] = hash[b]
      /\ step \in {"lookup", "backfill", "generate"} => hash'[c] # NoHash
  <2>1. CASE CheckRedis(c)
    BY <1>1, <1>3, <1>5, <2>1 DEF CheckRedis, Fails, TypeOK, CoroutineOK
  <2>2. CASE LookUpRecipe(c) \/ Backfill(c)
    BY <1>1, <1>2, <2>2 DEF LookUpRecipe, Backfill, session
  <2>3. CASE Generate(c)
    BY <1>1, <1>5, <2>3 DEF Generate, Fails, TypeOK, CoroutineOK
  <2>4. QED
    BY <2>1, <2>2, <2>3
<1>7. /\ flushed' \in [Coroutines -> BOOLEAN]
      /\ \A b \in Coroutines \ {c} : flushed'[b] = flushed[b]
      /\ flushed'[c] => step = "commit"
  <2>1. CASE UNCHANGED flushed
    BY <1>1, <1>2, <2>1
  <2>2. CASE ~UNCHANGED flushed
    <3>1. flushed' = [flushed EXCEPT ![c] = TRUE] /\ Goto(c, "commit")
      BY <2>2 DEF CheckRedis, LookUpRecipe, Backfill, Generate, session
    <3>2. QED
      BY <1>1, <1>5, <3>1 DEF TypeOK, CoroutineOK
  <2>3. QED
    BY <2>1, <2>2
<1>8. QED
  BY <1>1, <1>2, <1>4, <1>5, <1>6, <1>7, MovesInner

LEMMA RunCounterType ==
  ASSUME TypeOK, NEW c \in Coroutines, Run(c)
  PROVE  CounterOK'
<1>1. CASE CountAttempt(c)
  <2>1. job[c] \in Jobs
    BY <1>1, AtHome DEF CountAttempt
  <2>2. /\ count' = count + 1 /\ attempts' = attempts + 1
        /\ UNCHANGED expires
        /\ \/ UNCHANGED admitted
           \/ admitted' = admitted \cup {[job |-> job[c], value |-> count + 1]}
    BY <1>1 DEF CountAttempt
  <2>3. QED
    BY <2>1, <2>2 DEF TypeOK, CounterOK
<1>2. CASE ExpireCounter(c)
  BY <1>2 DEF ExpireCounter, TypeOK, CounterOK
<1>3. CASE ~CountAttempt(c) /\ ~ExpireCounter(c)
  <2>1. UNCHANGED counter
    BY <1>3 DEF Run, CheckRedis, LookUpRecipe, Backfill, Generate, Commit, Retry, Republish,
                RetryRefused, RetriesExceeded, Raises
  <2>2. QED
    BY <2>1, SameCounter DEF TypeOK
<1>4. QED
  BY <1>1, <1>2, <1>3

LEMMA RunStoreType ==
  ASSUME TypeOK, NEW c \in Coroutines, Run(c)
  PROVE  StoreOK'
<1>1. CASE Backfill(c) \/ Generate(c)
  <2>1. hash[c] \in Hashes
    BY <1>1 DEF Backfill, Generate, TypeOK, CoroutineOK, CoroutineShape
  <2>2. UNCHANGED cached \/ cached' = cached \cup {hash[c]}
    BY <1>1 DEF Backfill, Generate
  <2>3. UNCHANGED <<stored, foreign>>
    BY <1>1 DEF Backfill, Generate
  <2>4. QED
    BY <2>1, <2>2, <2>3 DEF TypeOK, StoreOK
<1>2. CASE Commit(c)
  BY <1>2 DEF Commit, TypeOK, StoreOK
<1>3. CASE ~Backfill(c) /\ ~Generate(c) /\ ~Commit(c)
  <2>1. UNCHANGED store
    BY <1>3 DEF Run, CountAttempt, ExpireCounter, CheckRedis, LookUpRecipe, Retry, Republish,
                RetryRefused, RetriesExceeded, Raises, store
  <2>2. QED
    BY <2>1, SameStore DEF TypeOK
<1>4. QED
  BY <1>1, <1>2, <1>3

LEMMA RunType ==
  ASSUME TypeOK, NEW c \in Coroutines, Run(c)
  PROVE  TypeOK'
<1>1. Outer'
  BY RunKinds, MovesOuter, LeavesOuter, RepublishOuter
<1>2. Inner'
  <2>1. CASE End({c})
    BY <2>1, LeavesInner
  <2>2. CASE ~End({c})
    BY <2>2, GateInner, GraphInner
    DEF Run, Commit, Retry, Republish, RetryRefused, RetriesExceeded, Raises, Raise
  <2>3. QED
    BY <2>1, <2>2
<1>3. QED
  BY <1>1, <1>2, RunCounterType, RunStoreType DEF TypeOK, Outer, Inner

\* The user's other requests, and what expires in Redis.
Outside ==
  \/ CounterExpires \/ \E h \in Hashes : CacheExpires(h)
  \/ DeleteRecipe \/ \E n \in 1..MaxForeign : GenerateFromInventory(n)

LEMMA OutsideUnchanged ==
  ASSUME Outside
  PROVE  UNCHANGED <<broker, process, result, coroutine>>
BY DEF Outside, CounterExpires, CacheExpires, DeleteRecipe, GenerateFromInventory

LEMMA SameOuter ==
  ASSUME TypeOK, UNCHANGED <<broker, process, result, coroutine>>
  PROVE  Outer' /\ Inner'
<1>1. BrokerOK'
  BY DEF TypeOK, BrokerOK, broker
<1>2. QED
  BY <1>1, SameProcess, SameCoroutine DEF Outer, Inner, broker, coroutine

LEMMA OutsideType ==
  ASSUME TypeOK, Outside
  PROVE  TypeOK'
<1>1. Outer' /\ Inner'
  BY OutsideUnchanged, SameOuter
<1>2. CounterOK'
  <2>1. CASE CounterExpires
    BY <2>1 DEF TypeOK, CounterOK, CounterExpires
  <2>2. CASE ~CounterExpires
    BY <2>2, SameCounter DEF TypeOK, Outside, CacheExpires, DeleteRecipe, GenerateFromInventory
  <2>3. QED
    BY <2>1, <2>2
<1>3. StoreOK'
  <2>1. CASE CounterExpires
    BY <2>1, SameStore DEF TypeOK, CounterExpires
  <2>2. CASE \E h \in Hashes : CacheExpires(h)
    BY <2>2 DEF TypeOK, StoreOK, CacheExpires
  <2>3. CASE DeleteRecipe
    BY <2>3, RecipeJobsAssumption DEF TypeOK, StoreOK, DeleteRecipe
  <2>4. CASE \E n \in 1..MaxForeign : GenerateFromInventory(n)
    BY <2>4, RecipeJobsAssumption DEF TypeOK, StoreOK, GenerateFromInventory
  <2>5. QED
    BY <2>1, <2>2, <2>3, <2>4 DEF Outside
<1>4. QED
  BY <1>1, <1>2, <1>3 DEF TypeOK, Outer, Inner

LEMMA NextKinds ==
  ASSUME Next
  PROVE  \/ \E j \in Jobs : Post(j)
         \/ \E w \in Workers, m \in Messages, c \in Coroutines : Take(w, m, c)
         \/ \E w \in Workers : Work(w)
         \/ \E c \in Coroutines : Run(c)
         \/ Outside
BY DEF Next, Outside

LEMMA NextType ==
  ASSUME TypeOK, Next
  PROVE  TypeOK'
<1>1. ASSUME NEW w \in Workers, Work(w) PROVE TypeOK'
  BY <1>1, CrashType, DisconnectType, WorkType DEF Work
<1>2. QED
  BY <1>1, NextKinds, PostType, TakeType, RunType, OutsideType

-----------------------------------------------------------------------------
(* The counter                                                             *)

LEMMA CountAttemptShape ==
  ASSUME TypeOK, CounterShape, NEW c \in Coroutines, CountAttempt(c)
  PROVE  CounterShape'
<1>1. count \in Nat /\ \A a \in admitted : a.value \in Nat
  BY DEF TypeOK, CounterOK
<1>2. count' = count + 1
  BY DEF CountAttempt
<1>3. CASE UNCHANGED admitted
  BY <1>1, <1>2, <1>3 DEF CounterShape
<1>4. CASE ~UNCHANGED admitted
  <2> DEFINE new == [job |-> job[c], value |-> count + 1]
  <2>1. admitted' = admitted \cup {new} /\ count + 1 <= Limit[job[c]]
    BY <1>4 DEF CountAttempt, Admits
  <2>2. \A a \in admitted : a.value < new.value
    BY <1>1 DEF CounterShape
  <2>3. \A a \in admitted' : a.value <= count + 1 /\ a.value <= Limit[a.job]
    BY <1>1, <2>1 DEF CounterShape
  <2>4. \A a, b \in admitted' : a.value = b.value => a = b
    <3> HIDE DEF new
    <3> QED
      BY <1>1, <2>1, <2>2 DEF CounterShape
  <2>5. QED
    BY <1>2, <2>3, <2>4 DEF CounterShape
<1>5. QED
  BY <1>3, <1>4

LEMMA NextCounterShape ==
  ASSUME TypeOK, CounterShape, Next
  PROVE  CounterShape'
<1>1. CASE \E c \in Coroutines : CountAttempt(c)
  BY <1>1, CountAttemptShape
<1>2. CASE CounterExpires
  BY <1>2 DEF CounterExpires, CounterShape
<1>3. CASE ~CounterExpires /\ \A c \in Coroutines : ~CountAttempt(c)
  <2>1. CASE \E c \in Coroutines : Run(c)
    BY <1>3, <2>1
    DEF Run, ExpireCounter, CheckRedis, LookUpRecipe, Backfill, Generate, Commit, Retry, Republish,
        RetryRefused, RetriesExceeded, Raises, counter, CounterShape
  <2>2. CASE \E w \in Workers : Work(w)
    BY <2>2 DEF Work, Answer, Ack, Crash, Disconnect, Abandon, Kill, counter, CounterShape
  <2>3. CASE ~(\E c \in Coroutines : Run(c)) /\ ~(\E w \in Workers : Work(w))
    BY <1>3, <2>3
    DEF Next, Post, Take, CacheExpires, DeleteRecipe, GenerateFromInventory, counter, CounterShape
  <2>4. QED
    BY <2>1, <2>2, <2>3
<1>4. QED
  BY <1>1, <1>2, <1>3

-----------------------------------------------------------------------------
(* The store                                                               *)

\* Fewer coroutines that may store, and no more recipes.
LEMMA StoreShrinks ==
  ASSUME TypeOK, StoreShape, stored' \in Nat, stored' <= stored,
         PastLookup' \subseteq PastLookup
  PROVE  StoreShape'
<1>1. PastLookup \subseteq Coroutines
  BY DEF PastLookup
<1>2. IsFiniteSet(PastLookup)
  BY <1>1, FS_Subset, RecipeJobsAssumption
<1>3. IsFiniteSet(PastLookup') /\ Cardinality(PastLookup') <= Cardinality(PastLookup)
  BY <1>2, FS_Subset
<1>4. /\ Cardinality(PastLookup) \in Nat /\ Cardinality(PastLookup') \in Nat
      /\ Cardinality(Coroutines) \in Nat
  BY <1>2, <1>3, FS_CardinalityType, RecipeJobsAssumption
<1>5. QED
  BY <1>3, <1>4 DEF StoreShape, TypeOK, StoreOK

\* Coroutines that end may no longer store.
LEMMA EndShrinks ==
  ASSUME TypeOK, NEW ends, End(ends)
  PROVE  PastLookup' \subseteq PastLookup
BY DEF End, CloseSession, PastLookup, TypeOK, CoroutineOK

\* A coroutine that has found nothing joins those that may store.
LEMMA LookUpStore ==
  ASSUME TypeOK, StoreShape, NEW c \in Coroutines, LookUpRecipe(c)
  PROVE  StoreShape'
<1>1. CASE stored = 0
  <2>1. stored' = 0
    BY <1>1 DEF LookUpRecipe, store
  <2>2. PastLookup' \subseteq Coroutines
    BY DEF PastLookup
  <2>3. /\ Cardinality(PastLookup') <= Cardinality(Coroutines)
        /\ Cardinality(PastLookup') \in Nat
    BY <2>2, FS_Subset, FS_CardinalityType, RecipeJobsAssumption
  <2>4. QED
    BY <2>1, <2>3 DEF StoreShape
<1>2. CASE stored # 0
  <2>1. Goto(c, "backfill") /\ UNCHANGED <<stored, flushed>>
    <3>1. Found # 0
      BY <1>2, RecipeJobsAssumption DEF Found, TypeOK, StoreOK
    <3>2. QED
      BY <3>1 DEF LookUpRecipe, FindCached, session, store
  <2>2. PastLookup' \subseteq PastLookup
    BY <2>1 DEF PastLookup, TypeOK, CoroutineOK
  <2>3. QED
    BY <2>1, <2>2, StoreShrinks DEF TypeOK, StoreOK
<1>3. QED
  BY <1>1, <1>2

\* Who stores is no longer about to.
LEMMA CommitStore ==
  ASSUME TypeOK, StoreShape, NEW c \in Coroutines, Commit(c)
  PROVE  StoreShape'
<1>1. End({c})
  BY DEF Commit, Raise
<1>2. CASE flushed[c]
  <2>1. stored' = stored + 1 /\ stored \in Nat
    BY <1>2 DEF Commit, TypeOK, StoreOK
  <2>2. c \in PastLookup /\ PastLookup \subseteq Coroutines
    BY <1>2 DEF PastLookup
  <2>3. PastLookup' = PastLookup \ {c}
    BY <1>1 DEF End, CloseSession, PastLookup, TypeOK, CoroutineOK
  <2>4. IsFiniteSet(PastLookup)
    BY <2>2, FS_Subset, RecipeJobsAssumption
  <2>5. Cardinality(PastLookup') = Cardinality(PastLookup) - 1
    BY <2>2, <2>3, <2>4, FS_RemoveElement
  <2>6. /\ Cardinality(PastLookup) \in Nat /\ Cardinality(PastLookup') \in Nat
        /\ Cardinality(Coroutines) \in Nat
    BY <2>3, <2>4, FS_RemoveElement, FS_CardinalityType, RecipeJobsAssumption
  <2>7. QED
    BY <2>1, <2>5, <2>6 DEF StoreShape
<1>3. CASE ~flushed[c]
  <2>1. UNCHANGED stored
    BY <1>3 DEF Commit
  <2>2. QED
    BY <1>1, <2>1, EndShrinks, StoreShrinks DEF TypeOK, StoreOK
<1>4. QED
  BY <1>2, <1>3

\* The other steps of a coroutine.
LEMMA OtherStore ==
  ASSUME TypeOK, StoreShape, NEW c \in Coroutines, Run(c), ~LookUpRecipe(c), ~Commit(c)
  PROVE  StoreShape'
<1>1. UNCHANGED stored
  BY DEF Run, CountAttempt, ExpireCounter, CheckRedis, Backfill, Generate, Retry, Republish,
         RetryRefused, RetriesExceeded, Raises, store
<1>2. PastLookup' \subseteq PastLookup
  <2>1. CASE End({c})
    BY <2>1, EndShrinks
  <2>2. CASE ~End({c}) /\ (CountAttempt(c) \/ ExpireCounter(c))
    <3>1. (Goto(c, "expire") \/ Goto(c, "cache")) /\ UNCHANGED flushed
      BY <2>2 DEF CountAttempt, ExpireCounter, Gate, Raise
    <3>2. QED
      BY <3>1 DEF PastLookup, TypeOK, CoroutineOK
  <2>3. CASE CheckRedis(c) \/ Backfill(c) \/ Generate(c)
    <3>1. \/ (Goto(c, "lookup") \/ Goto(c, "commit") \/ Goto(c, "retry")) /\ UNCHANGED flushed
          \/ At(c, "generate") /\ Goto(c, "commit") /\ flushed' = [flushed EXCEPT ![c] = TRUE]
      BY <2>3 DEF CheckRedis, Backfill, Generate, Fails, session
    <3>2. QED
      BY <3>1 DEF PastLookup, TypeOK, CoroutineOK
  <2>4. QED
    BY <2>1, <2>2, <2>3
    DEF Run, Retry, Republish, RetryRefused, RetriesExceeded, Raises, Raise
<1>3. QED
  BY <1>1, <1>2, StoreShrinks DEF TypeOK, StoreOK

LEMMA NextStoreShape ==
  ASSUME TypeOK, StoreShape, Next
  PROVE  StoreShape'
<1>1. CASE \E j \in Jobs : Post(j)
  BY <1>1 DEF Post, coroutine, session, store, StoreShape, PastLookup
<1>2. CASE \E w \in Workers, m \in Messages, c \in Coroutines : Take(w, m, c)
  <2>1. UNCHANGED stored
    BY <1>2 DEF Take, store
  <2>2. PastLookup' \subseteq PastLookup
    BY <1>2 DEF Take, session, PastLookup, TypeOK, CoroutineOK
  <2>3. QED
    BY <2>1, <2>2, StoreShrinks DEF TypeOK, StoreOK
<1>3. ASSUME NEW w \in Workers, Work(w) PROVE StoreShape'
  <2>1. UNCHANGED stored
    BY <1>3 DEF Work, Answer, Ack, Crash, Disconnect, Abandon, Kill, store
  <2>2. PastLookup' \subseteq PastLookup
    <3>1. CASE Crash(w) \/ Kill(w)
      BY <3>1, EndShrinks DEF Crash, Kill
    <3>2. CASE Answer(w) \/ Ack(w) \/ Disconnect(w) \/ Abandon(w)
      BY <3>2 DEF Answer, Ack, Disconnect, Abandon, coroutine, session, PastLookup
    <3>3. QED
      BY <1>3, <3>1, <3>2 DEF Work
  <2>3. QED
    BY <2>1, <2>2, StoreShrinks DEF TypeOK, StoreOK
<1>4. CASE \E c \in Coroutines : Run(c)
  BY <1>4, LookUpStore, CommitStore, OtherStore
<1>5. CASE Outside
  <2>1. PastLookup' \subseteq PastLookup
    BY <1>5, OutsideUnchanged DEF coroutine, session, PastLookup
  <2>2. stored' \in Nat /\ stored' <= stored
    BY <1>5
    DEF Outside, CounterExpires, CacheExpires, DeleteRecipe, GenerateFromInventory, store,
        TypeOK, StoreOK
  <2>3. QED
    BY <2>1, <2>2, StoreShrinks
<1>6. QED
  BY <1>1, <1>2, <1>3, <1>4, <1>5, NextKinds

-----------------------------------------------------------------------------
(* The jobs                                                                *)

\* A process with what it will acknowledge only when it is done.
Minds(w) == unacked[w] /\ phase[w] \in {"run", "answer"}

\* The messages in the queue stay, a process goes on or puts its job into other
\* hands, and a job that is posted is in someone's.
LEMMA KeepsJobs ==
  ASSUME NoJobIsLost,
         \A m \in Messages : queue[m] > 0 => queue'[m] > 0,
         \A w \in Workers : Minds(w) =>
           \/ Minds(w)' /\ Job(w)' = Job(w)
           \/ result'[Job(w)] # "pending"
           \/ \E m \in Messages : m.job = Job(w) /\ queue'[m] > 0,
         \A j \in Jobs : result'[j] = "pending" => result[j] = "pending" \/ InHand(j)'
  PROVE  NoJobIsLost'
<1> SUFFICES ASSUME NEW j \in Jobs, result'[j] = "pending", InHand(j)
             PROVE  InHand(j)'
  BY DEF NoJobIsLost
<1>1. CASE \E m \in Messages : m.job = j /\ queue[m] > 0
  BY <1>1 DEF InHand
<1>2. CASE \E w \in Workers : Minds(w) /\ Job(w) = j
  <2>1. PICK w \in Workers : Minds(w) /\ Job(w) = j
    BY <1>2
  <2>2. CASE Minds(w)' /\ Job(w)' = j
    BY <2>2 DEF InHand, Minds
  <2>3. CASE \E m \in Messages : m.job = j /\ queue'[m] > 0
    BY <2>3 DEF InHand
  <2>4. QED
    BY <2>1, <2>2, <2>3
<1>3. QED
  BY <1>1, <1>2 DEF InHand, Minds

LEMMA MoreQueued ==
  ASSUME TypeOK, NEW m \in Messages, Requeue(m)
  PROVE  queue'[m] > 0 /\ \A n \in Messages : queue[n] > 0 => queue'[n] > 0
<1>1. queue \in [Messages -> Nat]
  BY DEF TypeOK, BrokerOK
<1>2. QED
  BY <1>1 DEF Requeue

\* What is recorded is no job that comes to wait, but for the state RETRY.
LEMMA RecordedJobs ==
  ASSUME TypeOK, NEW i \in Jobs, NEW state \in {"pending", "success", "over"}, Recorded(i, state)
  PROVE  /\ state # "pending" => result'[i] # "pending"
         /\ \A j \in Jobs : result'[j] = "pending" => result[j] = "pending" \/ j = i
         /\ state # "pending" =>
              \A j \in Jobs : result'[j] = "pending" => result[j] = "pending"
BY DEF Recorded, TypeOK, BrokerOK

LEMMA PostJobs ==
  ASSUME TypeOK, NoJobIsLost, NEW i \in Jobs, Post(i)
  PROVE  NoJobIsLost'
<1> DEFINE new == [job |-> i, retries |-> 0]
<1>1. new \in Messages /\ new.job = i
  BY RecipeJobsAssumption DEF Messages
<1>2. Requeue(new) /\ UNCHANGED <<held, unacked, phase>>
  BY DEF Post, process
<1> HIDE DEF new
<1>3. queue'[new] > 0 /\ \A n \in Messages : queue[n] > 0 => queue'[n] > 0
  BY <1>1, <1>2, MoreQueued
<1>4. InHand(i)'
  BY <1>1, <1>3 DEF InHand
<1>5. \A j \in Jobs : result'[j] = "pending" => result[j] = "pending" \/ j = i
  BY DEF Post, TypeOK, BrokerOK
<1>6. \A w \in Workers : Minds(w) => Minds(w)' /\ Job(w)' = Job(w)
  BY <1>2 DEF Minds
<1>7. QED
  BY <1>3, <1>4, <1>5, <1>6, KeepsJobs

LEMMA TakeJobs ==
  ASSUME TypeOK, NoJobIsLost, NEW w \in Workers, NEW m \in Messages, NEW c \in Coroutines,
         Take(w, m, c)
  PROVE  NoJobIsLost'
<1> SUFFICES ASSUME NEW j \in Jobs, result'[j] = "pending"
             PROVE  InHand(j)'
  BY DEF NoJobIsLost
<1>1. /\ queue \in [Messages -> Nat] /\ held \in [Workers -> Messages \cup {NoMessage}]
      /\ unacked \in [Workers -> BOOLEAN]
      /\ phase \in [Workers -> {"idle", "run", "answer", "ack"}]
  BY DEF TypeOK, BrokerOK, ProcessOK
<1>2. /\ queue' = [queue EXCEPT ![m] = @ - 1] /\ held' = [held EXCEPT ![w] = m]
      /\ unacked' = [unacked EXCEPT ![w] = TRUE]
      /\ phase' = [phase EXCEPT ![w] = "run"] /\ phase[w] = "idle"
  BY DEF Take
<1>3. InHand(j)
  BY DEF Take, NoJobIsLost
<1>4. CASE m.job = j
  <2>1. unacked'[w] /\ phase'[w] = "run" /\ held'[w] = m
    BY <1>1, <1>2
  <2>2. QED
    BY <1>4, <2>1 DEF InHand
<1>5. CASE m.job # j
  <2>1. CASE \E n \in Messages : n.job = j /\ queue[n] > 0
    BY <1>1, <1>2, <1>5, <2>1 DEF InHand
  <2>2. CASE \E v \in Workers : Minds(v) /\ Job(v) = j
    BY <1>1, <1>2, <2>2 DEF InHand, Minds
  <2>3. QED
    BY <1>3, <2>1, <2>2 DEF InHand, Minds
<1>6. QED
  BY <1>4, <1>5

LEMMA CrashJobs ==
  ASSUME TypeOK, NoJobIsLost, NEW w \in Workers, Crash(w)
  PROVE  NoJobIsLost'
<1>1. /\ UNCHANGED result
      /\ \A v \in Workers \ {w} :
           unacked'[v] = unacked[v] /\ phase'[v] = phase[v] /\ held'[v] = held[v]
  BY DEF Crash, Release, Proceed, TypeOK, BrokerOK, ProcessOK
<1>2. CASE unacked[w]
  <2>1. held[w] \in Messages /\ Requeue(held[w])
    BY <1>2 DEF Crash, TypeOK, BrokerOK, WorkerShape
  <2>2. queue'[held[w]] > 0 /\ \A n \in Messages : queue[n] > 0 => queue'[n] > 0
    BY <2>1, MoreQueued
  <2>3. QED
    BY <1>1, <2>1, <2>2, KeepsJobs DEF Minds
<1>3. CASE ~unacked[w]
  <2>1. UNCHANGED queue
    BY <1>3 DEF Crash
  <2>2. QED
    BY <1>1, <1>3, <2>1, KeepsJobs DEF Minds
<1>4. QED
  BY <1>2, <1>3

LEMMA DisconnectJobs ==
  ASSUME TypeOK, NoJobIsLost, NEW w \in Workers, Disconnect(w)
  PROVE  NoJobIsLost'
<1>1. /\ UNCHANGED <<result, held, phase>>
      /\ \A v \in Workers \ {w} : unacked'[v] = unacked[v]
  BY DEF Disconnect, process, TypeOK, BrokerOK
<1>2. held[w] \in Messages /\ Requeue(held[w])
  BY DEF Disconnect, TypeOK, BrokerOK, WorkerShape
<1>3. queue'[held[w]] > 0 /\ \A n \in Messages : queue[n] > 0 => queue'[n] > 0
  BY <1>2, MoreQueued
<1>4. QED
  BY <1>1, <1>2, <1>3, KeepsJobs DEF Minds

\* A process that acknowledges has answered or tried again.
LEMMA WorkJobs ==
  ASSUME TypeOK, NoJobIsLost, NEW w \in Workers, Ack(w) \/ Answer(w) \/ Abandon(w) \/ Kill(w)
  PROVE  NoJobIsLost'
<1>1. phase[w] # "idle" /\ Job(w) \in Jobs
  <2>1. phase[w] # "idle"
    BY DEF Ack, Answer, Abandon, Kill
  <2>2. QED
    BY <2>1, JobHeld
<1>2. UNCHANGED queue
  BY DEF Ack, Answer, Abandon, Kill, broker
<1>3. \A v \in Workers \ {w} :
        unacked'[v] = unacked[v] /\ phase'[v] = phase[v] /\ held'[v] = held[v]
  BY DEF Ack, Answer, Abandon, Kill, Release, Proceed, broker, TypeOK, BrokerOK, ProcessOK
<1>4. CASE Ack(w)
  <2>1. UNCHANGED result /\ phase[w] = "ack"
    BY <1>4 DEF Ack
  <2>2. QED
    BY <1>2, <1>3, <2>1, KeepsJobs DEF Minds
<1>5. CASE Answer(w) \/ Abandon(w) \/ Kill(w)
  <2>1. Recorded(Job(w), "success") \/ Recorded(Job(w), "over")
    BY <1>5 DEF Answer, Abandon, Kill
  <2>2. /\ result'[Job(w)] # "pending"
        /\ \A j \in Jobs : result'[j] = "pending" => result[j] = "pending"
    BY <1>1, <2>1, RecordedJobs
  <2>3. QED
    BY <1>2, <1>3, <2>2, KeepsJobs DEF Minds
<1>6. QED
  BY <1>4, <1>5

\* The processes, when a coroutine ends: the one that waits for it goes on.
LEMMA LeaveProcesses ==
  ASSUME TypeOK, NEW c \in Coroutines, ~At(c, "free"), NEW next, Leave(c, next)
  PROVE  /\ \A w \in Workers : (Awaited(c) /\ w = home[c]) \/ phase'[w] = phase[w]
         /\ Awaited(c) => phase'[home[c]] = next /\ job[c] = Job(home[c])
<1>1. home[c] \in Workers
  BY AtHome
<1>2. CASE Awaited(c)
  <2>1. awaits[home[c]] = c /\ c # NoCoroutine
    BY <1>2, RecipeJobsAssumption DEF Awaited
  <2>2. job[c] = Job(home[c])
    BY <1>1, <2>1, WaitsAtHome
  <2>3. phase' = [phase EXCEPT ![home[c]] = next]
    BY <1>2 DEF Leave, Proceed
  <2>4. QED
    BY <1>1, <1>2, <2>2, <2>3 DEF TypeOK, ProcessOK
<1>3. CASE ~Awaited(c)
  BY <1>3 DEF Leave, process
<1>4. QED
  BY <1>2, <1>3

LEMMA LeavesJobs ==
  ASSUME TypeOK, NoJobIsLost, NEW c \in Coroutines, Leaves(c)
  PROVE  NoJobIsLost'
<1>1. UNCHANGED <<queue, held, unacked>> /\ ~At(c, "free")
  BY DEF Leaves, broker
<1>2. job[c] \in Jobs
  BY <1>1, AtHome
<1>3. \A j \in Jobs : result'[j] = "pending" => result[j] = "pending"
  BY <1>2, RecordedJobs DEF Leaves
<1>4. CASE Leave(c, "answer")
  <2>1. \A w \in Workers : phase[w] \in {"run", "answer"} => phase'[w] \in {"run", "answer"}
    BY <1>1, <1>4, LeaveProcesses
  <2>2. QED
    BY <1>1, <1>3, <2>1, KeepsJobs DEF Minds
<1>5. CASE Leave(c, "ack")
  <2>1. \A w \in Workers : (Awaited(c) /\ w = home[c]) \/ phase'[w] = phase[w]
    BY <1>1, <1>5, LeaveProcesses
  <2>2. Awaited(c) => job[c] = Job(home[c])
    BY <1>1, <1>5, LeaveProcesses
  <2>3. Awaited(c) => result'[job[c]] # "pending" \/ Leave(c, "answer")
    BY <1>2, RecordedJobs DEF Leaves
  <2>4. QED
    BY <1>1, <1>3, <1>4, <2>1, <2>2, <2>3, KeepsJobs DEF Minds
<1>6. QED
  BY <1>4, <1>5 DEF Leaves

LEMMA RepublishJobs ==
  ASSUME TypeOK, NoJobIsLost, NEW c \in Coroutines, Republish(c)
  PROVE  NoJobIsLost'
<1> DEFINE m == NextTry(held[home[c]])
<1>1. m \in Messages /\ m.job = Job(home[c]) /\ job[c] \in Jobs
  BY NextTryType
<1>2. Requeue(m) /\ ~At(c, "free") /\ Leave(c, "ack") /\ UNCHANGED <<held, unacked>>
  BY DEF Republish
<1> HIDE DEF m
<1>3. queue'[m] > 0 /\ \A n \in Messages : queue[n] > 0 => queue'[n] > 0
  BY <1>1, <1>2, MoreQueued
<1>4. /\ \A w \in Workers : (Awaited(c) /\ w = home[c]) \/ phase'[w] = phase[w]
      /\ Awaited(c) => job[c] = Job(home[c])
  BY <1>2, LeaveProcesses
<1>5. \A j \in Jobs : result'[j] = "pending" => result[j] = "pending" \/ InHand(j)'
  <2>1. CASE UNCHANGED result
    BY <2>1
  <2>2. CASE Awaited(c) /\ Recorded(job[c], "pending")
    <3>1. PICK i \in Jobs : i = job[c]
      BY <1>1
    <3>2. InHand(i)'
      BY <1>1, <1>3, <1>4, <2>2, <3>1 DEF InHand
    <3>3. \A j \in Jobs : result'[j] = "pending" => result[j] = "pending" \/ j = i
      BY <2>2, <3>1, RecordedJobs
    <3>4. QED
      BY <3>2, <3>3
  <2>3. QED
    BY <2>1, <2>2 DEF Republish
<1>6. QED
  BY <1>1, <1>2, <1>3, <1>4, <1>5, KeepsJobs DEF Minds

LEMMA NextJobs ==
  ASSUME TypeOK, NoJobIsLost, Next
  PROVE  NoJobIsLost'
<1>1. ASSUME NEW w \in Workers, Work(w) PROVE NoJobIsLost'
  BY <1>1, CrashJobs, DisconnectJobs, WorkJobs DEF Work
<1>2. ASSUME NEW c \in Coroutines, Run(c) PROVE NoJobIsLost'
  <2>1. CASE Moves(c)
    BY <2>1 DEF Moves, broker, process, NoJobIsLost, InHand
  <2>2. QED
    BY <1>2, <2>1, RunKinds, LeavesJobs, RepublishJobs
<1>3. CASE Outside
  BY <1>3, OutsideUnchanged DEF broker, process, NoJobIsLost, InHand
<1>4. QED
  BY <1>1, <1>2, <1>3, NextKinds, PostJobs, TakeJobs

-----------------------------------------------------------------------------
(* The theorems                                                            *)

LEMMA NextInv ==
  ASSUME IInv, [Next]_vars
  PROVE  IInv'
<1> USE DEF IInv
<1>1. CASE UNCHANGED vars
  <2>1. TypeOK'
    <3>1. Outer' /\ Inner'
      BY <1>1, SameOuter DEF vars
    <3>2. CounterOK' /\ StoreOK'
      BY <1>1, SameCounter, SameStore DEF TypeOK, vars
    <3>3. QED
      BY <3>1, <3>2 DEF TypeOK, Outer, Inner
  <2>2. CounterShape' /\ StoreShape'
    BY <1>1 DEF vars, counter, store, coroutine, session, CounterShape, StoreShape, PastLookup
  <2>3. NoJobIsLost'
    BY <1>1 DEF vars, broker, process, NoJobIsLost, InHand
  <2>4. QED
    BY <2>1, <2>2, <2>3
<1>2. CASE Next
  BY <1>2, NextType, NextCounterShape, NextStoreShape, NextJobs
<1>3. QED
  BY <1>1, <1>2

\* The inductive invariant holds of every behaviour of the processes, whatever
\* they are interrupted by and whatever is left in their loops.
THEOREM JobsInvariance == Spec => []IInv
<1>1. Init => IInv
  BY InitInv
<1>2. IInv /\ [Next]_vars => IInv'
  BY NextInv
<1>3. QED
  BY <1>1, <1>2, PTL DEF Spec

\* Every variable keeps its type; a process waits for a coroutine of its own
\* loop, called for its message, and what a coroutine has flushed, left behind
\* or not, is about to be committed or given up with it.
THEOREM TypeCorrect == Spec => []TypeOK
<1>1. IInv => TypeOK
  BY DEF IInv
<1>2. QED
  BY <1>1, JobsInvariance, PTL

\* The daily limit is kept by check_and_increment_rate for every number of
\* processes and mixture of limits: the attempts let through have different
\* values, none above the limit.
THEOREM QuotaKept == Spec => []QuotaHolds
<1>1. IInv => QuotaHolds
  <2> SUFFICES ASSUME IInv, NEW j \in Jobs
               PROVE  Cardinality({a \in admitted : Limit[a.job] <= Limit[j]}) <= Limit[j]
    BY DEF QuotaHolds
  <2> DEFINE S == {a \in admitted : Limit[a.job] <= Limit[j]}
             T == 1..Limit[j]
             value == [a \in S |-> a.value]
  <2>1. Limit[j] \in Nat
    BY RecipeJobsAssumption
  <2>2. \A a \in admitted : a.value \in Nat \ {0} /\ Limit[a.job] \in Nat
    BY RecipeJobsAssumption DEF IInv, TypeOK, CounterOK
  <2>3. \A a \in S : a.value \in T
    BY <2>1, <2>2 DEF IInv, CounterShape
  <2>4. \A a, b \in S : value[a] = value[b] => a = b
    BY DEF IInv, CounterShape
  <2>5. value \in Injection(S, T)
    <3>1. value \in [S -> T]
      BY <2>3
    <3>2. IsInjective(value)
      BY <2>4 DEF IsInjective
    <3>3. QED
      BY <3>1, <3>2 DEF Injection
  <2>6. IsFiniteSet(T) /\ Cardinality(T) = Limit[j]
    BY <2>1, FS_Interval
  <2>7. Cardinality(S) <= Cardinality(T)
    BY <2>5, <2>6, FS_Injection
  <2>8. QED
    BY <2>6, <2>7
<1>2. QED
  BY <1>1, JobsInvariance, PTL

\* The lookup before a generation bounds the recipes that the pipeline keeps
\* for a user by the coroutines alive at once, those left behind in a loop
\* included, although it and the insert are not atomic and another request
\* stores recipes of its own.
THEOREM StoresBounded == Spec => []StoredBounded
<1>1. IInv => StoredBounded
  <2> SUFFICES ASSUME IInv PROVE StoredBounded
    OBVIOUS
  <2>1. PastLookup \subseteq Coroutines
    BY DEF PastLookup
  <2>2. Cardinality(PastLookup) \in Nat /\ Cardinality(Coroutines) \in Nat
    BY <2>1, FS_Subset, FS_CardinalityType, RecipeJobsAssumption
  <2>3. QED
    BY <2>2 DEF IInv, TypeOK, StoreOK, StoreShape, StoredBounded
<1>2. QED
  BY <1>1, JobsInvariance, PTL

\* A posted job that no failed exchange has given up is queued, or with a
\* process that acknowledges it only after answering or retrying, whenever
\* processes die, connections are lost and time runs out.
THEOREM NoJobLost == Spec => []NoJobIsLost
<1>1. IInv => NoJobIsLost
  BY DEF IInv
<1>2. QED
  BY <1>1, JobsInvariance, PTL

\* No attempt leaves the gate of the counter without the counter having an
\* expiry, for any interleaving of INCR, EXPIRE, crashes and the expiry itself.
THEOREM ExpiryLeft == Spec => GateLeavesExpiry
<1> DEFINE Left(c) ==
      /\ CountAttempt(c) \/ ExpireCounter(c)
      /\ pc'[c] # "expire"
      => count' = 0 \/ expires'
<1>1. IInv /\ [Next]_vars => [\A c \in Coroutines : Left(c)]_vars
  <2> SUFFICES ASSUME IInv, NEW c \in Coroutines, CountAttempt(c) \/ ExpireCounter(c),
                      pc'[c] # "expire"
               PROVE  count' = 0 \/ expires'
    OBVIOUS
  <2>1. CASE CountAttempt(c)
    <3>1. ~NeedsExpiry(count + 1)
      BY <2>1 DEF CountAttempt, IInv, TypeOK, CoroutineOK
    <3>2. QED
      BY <2>1, <3>1 DEF CountAttempt, NeedsExpiry
  <2>2. CASE ExpireCounter(c)
    <3>1. count \in Nat /\ count' = count /\ expires' = (count > 0)
      BY <2>2 DEF ExpireCounter, IInv, TypeOK, CounterOK
    <3>2. CASE count > 0
      BY <3>1, <3>2
    <3>3. CASE count = 0
      BY <3>1, <3>3
    <3>4. QED
      BY <3>1, <3>2, <3>3
  <2>3. QED
    BY <2>1, <2>2
<1>2. QED
  BY <1>1, JobsInvariance, PTL DEF Spec, GateLeavesExpiry

-----------------------------------------------------------------------------
(* Attempts                                                                *)

Bound == (MaxRetries + 1) * (Cardinality(Posted) + mishaps)

LEMMA QueuedTry ==
  ASSUME NEW x
  PROVE  x \in TriesQueued <=>
           \E m \in Messages : \E k \in 1..queue[m], i \in m.retries..MaxRetries :
             x = <<<<m, k>>, i>>
BY DEF TriesQueued

LEMMA HeldTry ==
  ASSUME NEW x
  PROVE  x \in TriesHeld <=> \E w \in Workers : \E i \in TriesLeft(w) : x = <<<<w, 0>>, i>>
BY DEF TriesHeld

LEMMA StrayTry ==
  ASSUME NEW x
  PROVE  x \in TriesStray <=>
           \E c \in LeftBehind : \E i \in 0..MaxRetries :
             (i = 0 => At(c, "count")) /\ x = <<<<c, -1>>, i>>
BY DEF TriesStray

\* The attempts one copy of a message is good for.
LEMMA CopyCount ==
  ASSUME NEW x, NEW r \in 0..(MaxRetries + 1)
  PROVE  /\ IsFiniteSet({x} \X (r..MaxRetries))
         /\ Cardinality({x} \X (r..MaxRetries)) = MaxRetries + 1 - r
<1>1. r \in Int /\ MaxRetries \in Nat
  BY RecipeJobsAssumption
<1>2. /\ IsFiniteSet(r..MaxRetries)
      /\ Cardinality(r..MaxRetries) = IF r > MaxRetries THEN 0 ELSE MaxRetries - r + 1
  BY <1>1, FS_Interval
<1>3. IsFiniteSet({x}) /\ Cardinality({x}) = 1
  BY FS_Singleton
<1>4. /\ IsFiniteSet({x} \X (r..MaxRetries))
      /\ Cardinality({x} \X (r..MaxRetries)) = 1 * Cardinality(r..MaxRetries)
  BY <1>2, <1>3, FS_Product
<1>5. QED
  BY <1>1, <1>2, <1>4

\* Part of a set is replaced by as many elements, give or take.
LEMMA Exchange ==
  ASSUME NEW S, NEW T, NEW A, NEW B, NEW more \in Nat,
         IsFiniteSet(S), IsFiniteSet(B), A \subseteq S, T \subseteq (S \ A) \cup B,
         Cardinality(B) <= Cardinality(A) + more
  PROVE  IsFiniteSet(T) /\ Cardinality(T) <= Cardinality(S) + more
<1>1. IsFiniteSet(A) /\ S \cap A = A
  BY FS_Subset
<1>2. IsFiniteSet(S \ A) /\ Cardinality(S \ A) = Cardinality(S) - Cardinality(A)
  BY <1>1, FS_Difference
<1>3. /\ IsFiniteSet((S \ A) \cup B)
      /\ Cardinality((S \ A) \cup B) =
           Cardinality(S \ A) + Cardinality(B) - Cardinality((S \ A) \cap B)
  BY <1>2, FS_Union
<1>4. IsFiniteSet((S \ A) \cap B)
  BY <1>2, FS_Intersection
<1>5. IsFiniteSet(T) /\ Cardinality(T) <= Cardinality((S \ A) \cup B)
  BY <1>3, FS_Subset
<1>6. /\ Cardinality(S) \in Nat /\ Cardinality(A) \in Nat /\ Cardinality(B) \in Nat
      /\ Cardinality((S \ A) \cap B) \in Nat /\ Cardinality(T) \in Nat
  BY <1>1, <1>4, <1>5, FS_CardinalityType
<1>7. QED
  BY <1>2, <1>3, <1>5, <1>6

\* The jobs that are posted stay so.
LEMMA PostedStay ==
  ASSUME TypeOK, IsFiniteSet(Posted), NEW i \in Jobs,
         NEW state \in {"pending", "success", "over"},
         UNCHANGED result \/ Recorded(i, state)
  PROVE  IsFiniteSet(Posted') /\ Cardinality(Posted) <= Cardinality(Posted')
<1>1. Posted' \subseteq Posted \cup {i} /\ Posted \subseteq Posted'
  BY DEF Posted, Recorded, TypeOK, BrokerOK
<1>2. IsFiniteSet(Posted \cup {i})
  BY FS_AddElement
<1>3. IsFiniteSet(Posted')
  BY <1>1, <1>2, FS_Subset
<1>4. QED
  BY <1>1, <1>3, FS_Subset

\* Every job posted and every mishap is good for one chain of tries.
LEMMA BoundGrows ==
  ASSUME TypeOK, AttemptShape, IsFiniteSet(Posted'), mishaps' \in Nat, NEW d \in Nat,
         Cardinality(Posted') + mishaps' >= Cardinality(Posted) + mishaps + d
  PROVE  Bound \in Int /\ Bound' \in Int /\ Bound' >= Bound + (MaxRetries + 1) * d
<1> DEFINE r == MaxRetries + 1
           a == Cardinality(Posted) + mishaps
           b == Cardinality(Posted') + mishaps'
           e == b - a - d
<1>1. r \in Nat /\ a \in Nat /\ b \in Nat /\ e \in Nat /\ b = a + d + e
  <2>1. IsFiniteSet(Posted) /\ mishaps \in Nat /\ MaxRetries \in Nat
    BY RecipeJobsAssumption DEF AttemptShape, TypeOK, BrokerOK
  <2>2. Cardinality(Posted) \in Nat /\ Cardinality(Posted') \in Nat
    BY <2>1, FS_CardinalityType
  <2>3. QED
    BY <2>1, <2>2
<1>2. Bound = r * a /\ Bound' = r * b
  BY DEF Bound
<1> HIDE DEF r, a, b, e
<1>3. r * b = r * a + r * d + r * e /\ r * e \in Nat /\ r * a \in Nat /\ r * d \in Nat
  BY <1>1
<1>4. Bound' >= Bound + r * d
  BY <1>1, <1>2, <1>3
<1>5. QED
  BY <1>2, <1>3, <1>4 DEF r

\* The attempts to come change hands, and one chain more of them joins when a
\* job is posted or something is lost.
LEMMA TriesMove ==
  ASSUME TypeOK, AttemptShape, UNCHANGED attempts, NEW A, NEW B, NEW d \in {0, 1},
         IsFiniteSet(B), A \subseteq Tries, Tries' \subseteq (Tries \ A) \cup B,
         Cardinality(B) <= Cardinality(A) + (MaxRetries + 1) * d,
         IsFiniteSet(Posted'), mishaps' \in Nat,
         Cardinality(Posted') + mishaps' >= Cardinality(Posted) + mishaps + d
  PROVE  AttemptShape'
<1> DEFINE more == (MaxRetries + 1) * d
<1>1. more \in Nat
  BY RecipeJobsAssumption
<1>2. IsFiniteSet(Tries) /\ attempts + Cardinality(Tries) <= Bound
  BY DEF AttemptShape, Bound
<1>3. IsFiniteSet(Tries') /\ Cardinality(Tries') <= Cardinality(Tries) + more
  BY <1>1, <1>2, Exchange
<1>4. Bound \in Int /\ Bound' \in Int /\ Bound' >= Bound + more
  BY BoundGrows
<1>5. /\ Cardinality(Tries) \in Nat /\ Cardinality(Tries') \in Nat
      /\ attempts \in Nat
  BY <1>2, <1>3, FS_CardinalityType DEF TypeOK, CounterOK
<1> HIDE DEF more
<1>6. attempts' + Cardinality(Tries') <= Bound'
  BY <1>1, <1>2, <1>3, <1>4, <1>5
<1>7. QED
  BY <1>3, <1>6 DEF AttemptShape, Bound

\* Most steps give no message anything to hope for.
LEMMA TriesShrink ==
  ASSUME TypeOK, AttemptShape, UNCHANGED attempts, Tries' \subseteq Tries,
         IsFiniteSet(Posted'), mishaps' \in Nat,
         Cardinality(Posted') + mishaps' >= Cardinality(Posted) + mishaps
  PROVE  AttemptShape'
<1>1. IsFiniteSet({}) /\ Cardinality({}) = 0
  BY FS_EmptySet
<1>2. Cardinality({}) <= Cardinality({}) + (MaxRetries + 1) * 0
  BY <1>1, RecipeJobsAssumption
<1>3. Cardinality(Posted) \in Nat /\ Cardinality(Posted') \in Nat /\ mishaps \in Nat
  BY FS_CardinalityType, RecipeJobsAssumption DEF AttemptShape, TypeOK, BrokerOK
<1>4. Cardinality(Posted') + mishaps' >= Cardinality(Posted) + mishaps + 0
  BY <1>3
<1>5. Tries' \subseteq (Tries \ {}) \cup {} /\ {} \subseteq Tries
  OBVIOUS
<1>6. QED
  BY <1>1, <1>2, <1>4, <1>5, TriesMove

\* No process and no coroutine left behind hopes for more than before.
Fade ==
  /\ \A w \in Workers : TriesLeft(w)' \subseteq TriesLeft(w)
  /\ \A c \in LeftBehind' : c \in LeftBehind /\ (At(c, "count")' => At(c, "count"))

LEMMA FadeTries ==
  ASSUME Fade
  PROVE  TriesHeld' \subseteq TriesHeld /\ TriesStray' \subseteq TriesStray
<1>1. TriesHeld' \subseteq TriesHeld
  BY DEF Fade, TriesHeld
<1>2. ASSUME NEW x \in TriesStray' PROVE x \in TriesStray
  <2>1. PICK c \in LeftBehind' : \E i \in 0..MaxRetries :
               (i = 0 => pc'[c] = "count") /\ x = <<<<c, -1>>, i>>
    BY <1>2 DEF TriesStray
  <2>2. c \in LeftBehind /\ (pc'[c] = "count" => pc[c] = "count")
    BY DEF Fade
  <2>3. QED
    BY <2>1, <2>2, StrayTry
<1>3. QED
  BY <1>1, <1>2

\* A process that goes on with its message, and does not begin anew.
LEMMA LeftFades ==
  ASSUME TypeOK, NEW w \in Workers,
         \/ phase'[w] # "run"
         \/ /\ phase'[w] = phase[w] /\ held'[w] = held[w] /\ awaits'[w] = awaits[w]
            /\ phase[w] = "run" => (pc'[awaits[w]] = "count" => pc[awaits[w]] = "count")
  PROVE  TriesLeft(w)' \subseteq TriesLeft(w)
<1>1. CASE phase'[w] # "run"
  BY <1>1 DEF TriesLeft
<1>2. CASE phase'[w] = "run"
  <2>1. phase[w] = "run" /\ held'[w] = held[w] /\ awaits'[w] = awaits[w]
    BY <1>2
  <2>2. held[w].retries \in Nat /\ MaxRetries \in Nat
    BY <2>1, JobHeld, RecipeJobsAssumption DEF Messages
  <2>3. QED
    BY <1>2, <2>1, <2>2 DEF TriesLeft
<1>3. QED
  BY <1>1, <1>2

LEMMA MovesFade ==
  ASSUME TypeOK, NEW c \in Coroutines, Moves(c)
  PROVE  Fade
<1>1. \A b \in Coroutines : pc'[b] = "count" => pc[b] = "count"
  BY DEF Moves, Attempt, TypeOK, CoroutineOK
<1>2. UNCHANGED <<phase, held, awaits, home>>
  BY DEF Moves, broker, process
<1>3. ASSUME NEW w \in Workers PROVE TriesLeft(w)' \subseteq TriesLeft(w)
  <2>1. phase[w] = "run" => awaits[w] \in Coroutines
    BY DEF TypeOK, ProcessOK, WorkerShape
  <2>2. QED
    BY <1>1, <1>2, <2>1, LeftFades
<1>4. \A b \in Coroutines : Awaited(b)' <=> Awaited(b)
  BY <1>2 DEF Awaited
<1>5. QED
  BY <1>1, <1>2, <1>3, <1>4 DEF Fade, LeftBehind

\* A coroutine that ends takes what was hoped of it along.
LEMMA LeaveFades ==
  ASSUME TypeOK, NEW c \in Coroutines, ~At(c, "free"), End({c}),
         NEW next \in {"answer", "ack"}, Leave(c, next), UNCHANGED held
  PROVE  /\ Fade /\ c \notin LeftBehind'
         /\ \A w \in Workers : Awaited(c) /\ w = home[c] => TriesLeft(w)' = {}
<1>1. /\ home[c] \in Workers /\ c # NoCoroutine
      /\ \A b \in Coroutines \ {c} : home'[b] = home[b] /\ pc'[b] = pc[b]
      /\ home'[c] = NoWorker
  BY AtHome, RecipeJobsAssumption DEF End
<1>2. \A w \in Workers :
        \/ Awaited(c) /\ w = home[c] /\ phase'[w] = next /\ awaits'[w] = NoCoroutine
        \/ phase'[w] = phase[w] /\ awaits'[w] = awaits[w] /\ awaits[w] # c
  <2> TAKE w \in Workers
  <2>1. CASE Awaited(c)
    <3>1. /\ phase' = [phase EXCEPT ![home[c]] = next]
          /\ awaits' = [awaits EXCEPT ![home[c]] = NoCoroutine]
      BY <2>1 DEF Leave, Proceed
    <3>2. awaits[w] = c => w = home[c]
      BY <1>1, WaitsAtHome
    <3>3. QED
      BY <1>1, <2>1, <3>1, <3>2 DEF TypeOK, ProcessOK
  <2>2. CASE ~Awaited(c)
    <3>1. awaits[w] # c
      BY <1>1, <2>2, WaitsAtHome
    <3>2. QED
      BY <2>2, <3>1 DEF Leave, process
  <2>3. QED
    BY <2>1, <2>2
<1>3. ASSUME NEW w \in Workers PROVE TriesLeft(w)' \subseteq TriesLeft(w)
  <2>1. phase[w] = "run" => awaits[w] \in Coroutines
    BY DEF TypeOK, ProcessOK, WorkerShape
  <2>2. QED
    BY <1>1, <1>2, <2>1, LeftFades
<1>4. ASSUME NEW b \in LeftBehind' PROVE b \in LeftBehind /\ (pc'[b] = "count" => pc[b] = "count")
  <2>1. b \in Coroutines \ {c} /\ home'[b] # NoWorker /\ ~Awaited(b)'
    BY <1>1, <1>4 DEF LeftBehind
  <2>2. home[b] \in Workers /\ home'[b] = home[b] /\ pc'[b] = pc[b]
    BY <1>1, <2>1 DEF TypeOK, CoroutineOK
  <2>3. ~Awaited(b)
    <3>1. SUFFICES ASSUME awaits[home[b]] = b PROVE FALSE
      BY <2>2 DEF Awaited
    <3>2. awaits'[home[b]] = b
      BY <1>1, <1>2, <2>1, <2>2, <3>1 DEF Awaited
    <3>3. QED
      BY <2>1, <2>2, <3>2 DEF Awaited
  <2>4. QED
    BY <2>1, <2>2, <2>3 DEF LeftBehind
<1>5. c \notin LeftBehind'
  BY <1>1 DEF LeftBehind
<1>6. \A w \in Workers : Awaited(c) /\ w = home[c] => TriesLeft(w)' = {}
  <2> SUFFICES ASSUME NEW w \in Workers, Awaited(c), w = home[c]
               PROVE  TriesLeft(w)' = {}
    OBVIOUS
  <2>1. phase'[w] = next \/ awaits[w] # c
    BY <1>1, <1>2
  <2>2. phase'[w] = next
    BY <2>1 DEF Awaited
  <2>3. QED
    BY <2>2 DEF TriesLeft
<1>7. QED
  BY <1>3, <1>4, <1>5, <1>6 DEF Fade

\* What does not count, post or put into the queue.
LEMMA FadeAttempts ==
  ASSUME TypeOK, AttemptShape, Fade, UNCHANGED <<queue, attempts>>,
         NEW i \in Jobs, NEW state \in {"pending", "success", "over"},
         UNCHANGED result \/ Recorded(i, state),
         mishaps' \in Nat, mishaps' >= mishaps
  PROVE  AttemptShape'
<1>1. TriesQueued' = TriesQueued
  BY DEF TriesQueued
<1>2. Tries' \subseteq Tries
  BY <1>1, FadeTries DEF Tries
<1>3. IsFiniteSet(Posted') /\ Cardinality(Posted) <= Cardinality(Posted')
  BY PostedStay DEF AttemptShape
<1>4. Cardinality(Posted') + mishaps' >= Cardinality(Posted) + mishaps
  <2>1. Cardinality(Posted) \in Nat /\ Cardinality(Posted') \in Nat /\ mishaps \in Nat
    BY <1>3, FS_CardinalityType, RecipeJobsAssumption DEF AttemptShape, TypeOK, BrokerOK
  <2>2. QED
    BY <1>3, <2>1
<1>5. QED
  BY <1>2, <1>3, <1>4, TriesShrink

LEMMA MishapType ==
  ASSUME TypeOK, Mishap
  PROVE  mishaps \in Nat /\ mishaps' \in Nat /\ mishaps' = mishaps + 1
BY RecipeJobsAssumption DEF Mishap, TypeOK, BrokerOK

\* Counting spends the first of the attempts the message, or the coroutine
\* left behind, is good for.
LEMMA CountSpends ==
  ASSUME TypeOK, AttemptShape, NEW c \in Coroutines, CountAttempt(c), Moves(c) \/ Leaves(c)
  PROVE  AttemptShape'
<1>1. /\ At(c, "count") /\ phase[home[c]] = "run" /\ attempts' = attempts + 1
      /\ UNCHANGED <<queue, held, mishaps>>
  BY DEF CountAttempt, broker
<1>2. home[c] \in Workers /\ job[c] \in Jobs
  BY <1>1, AtHome
<1>3. PICK w \in Workers : w = home[c]
  BY <1>2
<1>4. held[w].retries \in 0..MaxRetries /\ MaxRetries \in Nat
  BY <1>1, <1>3, JobHeld, RecipeJobsAssumption DEF Messages
<1>5. /\ Fade
      /\ \/ ~At(c, "count")' /\ UNCHANGED <<phase, awaits, held>>
         \/ c \notin LeftBehind' /\ (Awaited(c) => TriesLeft(w)' = {})
  <2>1. CASE Moves(c)
    <3>1. Fade /\ UNCHANGED <<phase, awaits, held>>
      BY <2>1, MovesFade DEF Moves, broker, process
    <3>2. ~At(c, "count")'
      BY <2>1 DEF Moves, Attempt, TypeOK, CoroutineOK
    <3>3. QED
      BY <3>1, <3>2
  <2>2. CASE Leaves(c)
    <3>1. PICK next \in {"answer", "ack"} : Leave(c, next)
      BY <2>2 DEF Leaves
    <3>2. Fade /\ c \notin LeftBehind'
      BY <1>1, <2>2, <3>1, LeaveFades DEF Leaves
    <3>3. Awaited(c) => TriesLeft(w)' = {}
      BY <1>1, <1>3, <2>2, <3>1, LeaveFades DEF Leaves
    <3>4. QED
      BY <3>2, <3>3
  <2>3. QED
    BY <2>1, <2>2
<1>6. TriesQueued' = TriesQueued
  BY <1>1 DEF TriesQueued
<1>7. Tries' \subseteq Tries
  BY <1>5, <1>6, FadeTries DEF Tries
<1>8. \E x \in Tries : x \notin Tries'
  <2>1. CASE Awaited(c)
    <3> DEFINE x == <<<<w, 0>>, held[w].retries>>
    <3>1. awaits[w] = c
      BY <1>3, <2>1 DEF Awaited
    <3>2. x \in Tries
      <4>1. held[w].retries \in TriesLeft(w)
        BY <1>1, <1>3, <1>4, <3>1 DEF TriesLeft
      <4>2. QED
        BY <4>1, HeldTry DEF Tries
    <3>3. held[w].retries \notin TriesLeft(w)'
      BY <1>1, <1>3, <1>4, <1>5, <2>1, <3>1 DEF TriesLeft
    <3>4. x \notin TriesHeld'
      BY <3>3 DEF TriesHeld
    <3>5. x \notin TriesQueued'
      <4>1. \A m \in Messages : \A k \in 1..queue[m], i \in m.retries..MaxRetries :
              x # <<<<m, k>>, i>>
        OBVIOUS
      <4>2. QED
        BY <1>6, <4>1, QueuedTry
    <3>6. x \notin TriesStray'
      BY DEF TriesStray
    <3>7. QED
      BY <3>2, <3>4, <3>5, <3>6 DEF Tries
  <2>2. CASE ~Awaited(c)
    <3> DEFINE x == <<<<c, -1>>, 0>>
    <3>1. c \in LeftBehind
      BY <1>2, <2>2, RecipeJobsAssumption DEF LeftBehind
    <3>2. x \in Tries
      <4>1. 0 \in 0..MaxRetries
        BY <1>4
      <4>2. QED
        BY <1>1, <3>1, <4>1, StrayTry DEF Tries
    <3>3. x \notin TriesStray'
      <4>1. c \notin LeftBehind' \/ pc'[c] # "count"
        BY <1>5
      <4>2. QED
        BY <4>1 DEF TriesStray
    <3>4. x \notin TriesQueued'
      <4>1. \A m \in Messages : \A k \in 1..queue[m], i \in m.retries..MaxRetries :
              x # <<<<m, k>>, i>>
        OBVIOUS
      <4>2. QED
        BY <1>6, <4>1, QueuedTry
    <3>5. x \notin TriesHeld'
      BY DEF TriesHeld
    <3>6. QED
      BY <3>2, <3>3, <3>4, <3>5 DEF Tries
  <2>3. QED
    BY <2>1, <2>2
<1>9. PICK x \in Tries : x \notin Tries'
  BY <1>8
<1>10. IsFiniteSet(Tries) /\ attempts + Cardinality(Tries) <= Bound
  BY DEF AttemptShape, Bound
<1>11. IsFiniteSet(Tries \ {x}) /\ Cardinality(Tries \ {x}) = Cardinality(Tries) - 1
  BY <1>9, <1>10, FS_RemoveElement
<1>12. IsFiniteSet(Tries') /\ Cardinality(Tries') <= Cardinality(Tries) - 1
  <2>1. Tries' \subseteq Tries \ {x}
    BY <1>7, <1>9
  <2>2. QED
    BY <1>11, <2>1, FS_Subset
<1>13. IsFiniteSet(Posted') /\ Cardinality(Posted) <= Cardinality(Posted')
  <2>1. UNCHANGED result \/ Recorded(job[c], "over")
    BY DEF Moves, Leaves
  <2>2. QED
    BY <1>2, <2>1, PostedStay DEF AttemptShape
<1>14. Bound \in Int /\ Bound' \in Int /\ Bound' >= Bound
  <2>1. /\ Cardinality(Posted) \in Nat /\ Cardinality(Posted') \in Nat
        /\ mishaps \in Nat /\ mishaps' = mishaps
    BY <1>1, <1>13, FS_CardinalityType, RecipeJobsAssumption DEF AttemptShape, TypeOK, BrokerOK
  <2>2. Cardinality(Posted') + mishaps' >= Cardinality(Posted) + mishaps + 0
    BY <1>13, <2>1
  <2>3. Bound' >= Bound + (MaxRetries + 1) * 0 /\ Bound \in Int /\ Bound' \in Int
    BY <1>13, <2>1, <2>2, BoundGrows
  <2>4. QED
    BY <1>4, <2>3
<1>15. attempts' + Cardinality(Tries') <= Bound'
  <2>1. attempts \in Nat /\ Cardinality(Tries) \in Nat /\ Cardinality(Tries') \in Nat
    BY <1>10, <1>12, FS_CardinalityType DEF TypeOK, CounterOK
  <2>2. QED
    BY <1>1, <1>10, <1>12, <1>14, <2>1
<1>16. QED
  BY <1>12, <1>13, <1>15 DEF AttemptShape, Bound

\* The attempts of one more copy of m in the queue.
Copy(m) == {<<m, queue[m] + 1>>} \X (m.retries..MaxRetries)

LEMMA QueueAdds ==
  ASSUME TypeOK, NEW m \in Messages, Requeue(m)
  PROVE  TriesQueued' \subseteq TriesQueued \cup Copy(m)
<1>1. queue \in [Messages -> Nat] /\ queue' = [queue EXCEPT ![m] = @ + 1]
  BY DEF TypeOK, BrokerOK, Requeue
<1>2. ASSUME NEW x \in TriesQueued'
      PROVE  x \in TriesQueued \cup Copy(m)
  <2>1. PICK n \in Messages : \E k \in 1..queue'[n], i \in n.retries..MaxRetries :
               x = <<<<n, k>>, i>>
    BY <1>2 DEF TriesQueued
  <2>2. PICK k \in 1..queue'[n], i \in n.retries..MaxRetries : x = <<<<n, k>>, i>>
    BY <2>1
  <2>3. CASE k \in 1..queue[n]
    BY <2>2, <2>3, QueuedTry
  <2>4. CASE k \notin 1..queue[n]
    <3>1. n = m /\ k = queue[m] + 1
      BY <1>1, <2>2, <2>4
    <3>2. QED
      BY <2>2, <3>1 DEF Copy
  <2>5. QED
    BY <2>3, <2>4
<1>3. QED
  BY <1>2

LEMMA CopySize ==
  ASSUME NEW m \in Messages
  PROVE  /\ IsFiniteSet(Copy(m))
         /\ Cardinality(Copy(m)) = MaxRetries + 1 - m.retries
         /\ Cardinality(Copy(m)) <= MaxRetries + 1
<1>1. m.retries \in 0..(MaxRetries + 1) /\ m.retries \in Nat /\ MaxRetries \in Nat
  BY RecipeJobsAssumption DEF Messages
<1>2. IsFiniteSet(Copy(m)) /\ Cardinality(Copy(m)) = MaxRetries + 1 - m.retries
  BY <1>1, CopyCount DEF Copy
<1>3. MaxRetries + 1 - m.retries <= MaxRetries + 1
  BY <1>1
<1>4. QED
  BY <1>2, <1>3

\* One more message in the queue is one more chain of tries.
LEMMA ChainJoins ==
  ASSUME TypeOK, AttemptShape, UNCHANGED attempts, Fade, NEW m \in Messages, Requeue(m),
         IsFiniteSet(Posted'), mishaps' \in Nat,
         Cardinality(Posted') + mishaps' >= Cardinality(Posted) + mishaps + 1
  PROVE  AttemptShape'
<1>1. /\ IsFiniteSet(Copy(m)) /\ Cardinality(Copy(m)) <= MaxRetries + 1
      /\ Cardinality(Copy(m)) \in Nat
  BY CopySize, FS_CardinalityType
<1>2. Cardinality({}) = 0 /\ MaxRetries \in Nat
  BY FS_EmptySet, RecipeJobsAssumption
<1>3. Cardinality(Copy(m)) <= Cardinality({}) + (MaxRetries + 1) * 1
  BY <1>1, <1>2
<1>4. Tries' \subseteq (Tries \ {}) \cup Copy(m) /\ {} \subseteq Tries
  BY FadeTries, QueueAdds DEF Tries
<1>5. QED
  BY <1>1, <1>3, <1>4, TriesMove

LEMMA PostAttempts ==
  ASSUME TypeOK, AttemptShape, NEW j \in Jobs, Post(j)
  PROVE  AttemptShape'
<1> DEFINE m == [job |-> j, retries |-> 0]
<1>1. m \in Messages
  BY RecipeJobsAssumption DEF Messages
<1>2. Requeue(m) /\ UNCHANGED <<attempts, held, phase, awaits, home, pc, mishaps>>
  BY DEF Post, process, counter, coroutine
<1> HIDE DEF m
<1>3. Fade
  BY <1>2 DEF Fade, TriesLeft, LeftBehind, Awaited
<1>4. Posted' = Posted \cup {j} /\ j \notin Posted
  BY DEF Post, Posted, TypeOK, BrokerOK
<1>5. IsFiniteSet(Posted') /\ Cardinality(Posted') = Cardinality(Posted) + 1
  BY <1>4, FS_AddElement DEF AttemptShape
<1>6. Cardinality(Posted) \in Nat /\ mishaps \in Nat
  BY FS_CardinalityType, RecipeJobsAssumption DEF AttemptShape, TypeOK, BrokerOK
<1>7. Cardinality(Posted') + mishaps' >= Cardinality(Posted) + mishaps + 1
  BY <1>2, <1>5, <1>6
<1>8. QED
  BY <1>1, <1>2, <1>3, <1>5, <1>6, <1>7, ChainJoins

\* Nothing is recorded, and one thing more is lost.
LEMMA MishapCounts ==
  ASSUME TypeOK, AttemptShape, Mishap,
         NEW i \in Jobs, NEW state \in {"pending", "success", "over"},
         UNCHANGED result \/ Recorded(i, state)
  PROVE  /\ IsFiniteSet(Posted') /\ mishaps' \in Nat
         /\ Cardinality(Posted') + mishaps' >= Cardinality(Posted) + mishaps + 1
<1>1. mishaps \in Nat /\ mishaps' \in Nat /\ mishaps' = mishaps + 1
  BY MishapType
<1>2. IsFiniteSet(Posted') /\ Cardinality(Posted) <= Cardinality(Posted')
  BY PostedStay DEF AttemptShape
<1>3. Cardinality(Posted) \in Nat /\ Cardinality(Posted') \in Nat
  BY <1>2, FS_CardinalityType DEF AttemptShape
<1>4. QED
  BY <1>1, <1>2, <1>3

\* Nothing is recorded of any job.
LEMMA MishapUnrecorded ==
  ASSUME TypeOK, AttemptShape, Mishap, UNCHANGED result
  PROVE  /\ IsFiniteSet(Posted') /\ mishaps' \in Nat
         /\ Cardinality(Posted') + mishaps' >= Cardinality(Posted) + mishaps + 1
<1>1. mishaps \in Nat /\ mishaps' \in Nat /\ mishaps' = mishaps + 1
  BY MishapType
<1>2. Posted' = Posted /\ IsFiniteSet(Posted) /\ Cardinality(Posted) \in Nat
  BY FS_CardinalityType DEF AttemptShape, Posted
<1>3. QED
  BY <1>1, <1>2

\* What ends with a process is hoped for no more.
LEMMA EndInFades ==
  ASSUME TypeOK, NEW w \in Workers, End(In(w)), NEW next \in {"idle", "answer", "ack"},
         Proceed(w, next), \A v \in Workers \ {w} : held'[v] = held[v]
  PROVE  Fade
<1>1. /\ \A c \in Coroutines : home[c] # w => home'[c] = home[c] /\ pc'[c] = pc[c]
      /\ \A c \in Coroutines : home[c] = w => home'[c] = NoWorker
  BY DEF End, In
<1>2. /\ phase'[w] = next
      /\ \A v \in Workers \ {w} : phase'[v] = phase[v] /\ awaits'[v] = awaits[v]
  BY DEF Proceed, TypeOK, ProcessOK
<1>3. ASSUME NEW v \in Workers PROVE TriesLeft(v)' \subseteq TriesLeft(v)
  <2>1. CASE v = w
    BY <1>2, <2>1, LeftFades
  <2>2. CASE v # w
    <3>1. phase[v] = "run" => pc'[awaits[v]] = pc[awaits[v]]
      BY <1>1, <2>2, WaitsAtHome DEF TypeOK, WorkerShape
    <3>2. QED
      BY <1>2, <2>2, <3>1, LeftFades
  <2>3. QED
    BY <2>1, <2>2
<1>4. ASSUME NEW c \in LeftBehind'
      PROVE  c \in LeftBehind /\ (pc'[c] = "count" => pc[c] = "count")
  <2>1. c \in Coroutines /\ home'[c] # NoWorker /\ awaits'[home'[c]] # c
    BY <1>4 DEF LeftBehind, Awaited
  <2>2. home[c] # w /\ home'[c] = home[c] /\ pc'[c] = pc[c]
    BY <1>1, <2>1
  <2>3. home[c] \in Workers \ {w}
    BY <2>1, <2>2 DEF TypeOK, CoroutineOK
  <2>4. awaits[home[c]] # c
    BY <1>2, <2>1, <2>2, <2>3
  <2>5. QED
    BY <2>1, <2>2, <2>4 DEF LeftBehind, Awaited
<1>5. QED
  BY <1>3, <1>4 DEF Fade

\* A lost process's message starts its chain of tries again.
LEMMA CrashAttempts ==
  ASSUME TypeOK, AttemptShape, NEW w \in Workers, Crash(w)
  PROVE  AttemptShape'
<1>1. /\ Mishap /\ UNCHANGED <<result, attempts>> /\ End(In(w)) /\ Proceed(w, "idle")
      /\ \A v \in Workers \ {w} : held'[v] = held[v]
  BY DEF Crash, Release, counter, TypeOK, BrokerOK
<1>2. Fade
  BY <1>1, EndInFades
<1>3. /\ IsFiniteSet(Posted') /\ mishaps' \in Nat
      /\ Cardinality(Posted') + mishaps' >= Cardinality(Posted) + mishaps + 1
  BY <1>1, MishapUnrecorded
<1>4. CASE unacked[w]
  <2>1. held[w] \in Messages /\ Requeue(held[w])
    BY <1>4 DEF Crash, TypeOK, BrokerOK, WorkerShape
  <2>2. QED
    BY <1>1, <1>2, <1>3, <2>1, ChainJoins
<1>5. CASE ~unacked[w]
  <2>1. Tries' \subseteq Tries
    <3>1. TriesQueued' = TriesQueued
      BY <1>5 DEF Crash, TriesQueued
    <3>2. QED
      BY <1>2, <3>1, FadeTries DEF Tries
  <2>2. Cardinality(Posted') + mishaps' >= Cardinality(Posted) + mishaps
    <3>1. /\ Cardinality(Posted) \in Nat /\ Cardinality(Posted') \in Nat
          /\ mishaps \in Nat
      BY <1>1, <1>3, FS_CardinalityType, MishapType DEF AttemptShape
    <3>2. QED
      BY <1>3, <3>1
  <2>3. QED
    BY <1>1, <1>3, <2>1, <2>2, TriesShrink
<1>6. QED
  BY <1>4, <1>5

\* So does a message given out again while its process goes on.
LEMMA DisconnectAttempts ==
  ASSUME TypeOK, AttemptShape, NEW w \in Workers, Disconnect(w)
  PROVE  AttemptShape'
<1>1. /\ Mishap /\ UNCHANGED <<result, attempts, held, phase, awaits, home, pc>>
      /\ Requeue(held[w]) /\ held[w] \in Messages
  BY DEF Disconnect, counter, process, coroutine, TypeOK, BrokerOK, WorkerShape
<1>2. Fade
  BY <1>1 DEF Fade, TriesLeft, LeftBehind, Awaited
<1>3. QED
  BY <1>1, <1>2, MishapUnrecorded, ChainJoins

\* A coroutine left behind is good for its own attempt and, in some job's
\* request, for all but the first of a chain.
LEMMA AbandonAttempts ==
  ASSUME TypeOK, AttemptShape, NEW w \in Workers, Abandon(w)
  PROVE  AttemptShape'
<1> DEFINE B == {<<awaits[w], -1>>} \X (0..MaxRetries)
<1>1. /\ phase[w] = "run" /\ Mishap /\ Proceed(w, "ack") /\ Recorded(Job(w), "over")
      /\ UNCHANGED <<queue, held, attempts, home, pc>>
  BY DEF Abandon, counter, coroutine
<1>2. Job(w) \in Jobs
  BY <1>1, JobHeld
<1>3. /\ phase'[w] = "ack"
      /\ \A v \in Workers \ {w} : phase'[v] = phase[v] /\ awaits'[v] = awaits[v]
  BY <1>1 DEF Proceed, TypeOK, ProcessOK
<1>4. \A v \in Workers : TriesLeft(v)' \subseteq TriesLeft(v)
  BY <1>1, <1>3, LeftFades
<1>5. TriesHeld' \subseteq TriesHeld /\ TriesQueued' = TriesQueued
  BY <1>1, <1>4 DEF TriesHeld, TriesQueued
<1>6. ASSUME NEW x \in TriesStray' PROVE x \in TriesStray \cup B
  <2>1. PICK c \in LeftBehind' : \E i \in 0..MaxRetries :
               (i = 0 => pc'[c] = "count") /\ x = <<<<c, -1>>, i>>
    BY <1>6 DEF TriesStray
  <2>2. CASE c = awaits[w]
    BY <2>1, <2>2
  <2>3. CASE c # awaits[w]
    <3>1. c \in Coroutines /\ home[c] \in Workers /\ awaits'[home[c]] # c
      BY <1>1 DEF LeftBehind, Awaited, TypeOK, CoroutineOK
    <3>2. awaits[home[c]] # c
      BY <1>3, <2>3, <3>1
    <3>3. c \in LeftBehind
      BY <3>1, <3>2, RecipeJobsAssumption DEF LeftBehind, Awaited
    <3>4. QED
      BY <1>1, <2>1, <3>3, StrayTry
  <2>4. QED
    BY <2>2, <2>3
<1>7. IsFiniteSet(B) /\ Cardinality(B) = MaxRetries + 1 /\ MaxRetries \in Nat
  <2>1. 0 \in 0..(MaxRetries + 1) /\ MaxRetries \in Nat
    BY RecipeJobsAssumption
  <2>2. IsFiniteSet(B) /\ Cardinality(B) = MaxRetries + 1 - 0
    BY <2>1, CopyCount
  <2>3. QED
    BY <2>1, <2>2
<1>8. Cardinality(B) <= Cardinality({}) + (MaxRetries + 1) * 1
  BY <1>7, FS_EmptySet
<1>9. Tries' \subseteq (Tries \ {}) \cup B /\ {} \subseteq Tries
  BY <1>5, <1>6 DEF Tries
<1>10. /\ IsFiniteSet(Posted') /\ mishaps' \in Nat
       /\ Cardinality(Posted') + mishaps' >= Cardinality(Posted) + mishaps + 1
  BY <1>1, <1>2, MishapCounts
<1> HIDE DEF B
<1>11. QED
  BY <1>1, <1>7, <1>8, <1>9, <1>10, TriesMove

\* A process that takes a message takes the attempts of one copy.
LEMMA TakeAttempts ==
  ASSUME TypeOK, AttemptShape, NEW w \in Workers, NEW m \in Messages, NEW c \in Coroutines,
         Take(w, m, c)
  PROVE  AttemptShape'
<1> DEFINE A == {<<m, queue[m]>>} \X (m.retries..MaxRetries)
           B == {<<w, 0>>} \X (m.retries..MaxRetries)
<1>1. /\ queue[m] > 0 /\ queue \in [Messages -> Nat]
      /\ queue' = [queue EXCEPT ![m] = @ - 1]
      /\ phase[w] = "idle" /\ At(c, "free") /\ c # NoCoroutine
      /\ UNCHANGED <<attempts, mishaps, result>>
  BY RecipeJobsAssumption DEF Take, counter, TypeOK, BrokerOK
<1>2. /\ held'[w] = m /\ phase'[w] = "run" /\ awaits'[w] = c
      /\ pc'[c] = "count" /\ home'[c] = w
      /\ \A v \in Workers \ {w} :
           held'[v] = held[v] /\ phase'[v] = phase[v] /\ awaits'[v] = awaits[v]
      /\ \A b \in Coroutines \ {c} : pc'[b] = pc[b] /\ home'[b] = home[b]
  BY DEF Take, TypeOK, BrokerOK, ProcessOK, CoroutineOK
<1>3. m.retries \in 0..(MaxRetries + 1) /\ MaxRetries \in Nat /\ m.retries \in Nat
  BY RecipeJobsAssumption DEF Messages
<1>4. /\ IsFiniteSet(A) /\ IsFiniteSet(B)
      /\ Cardinality(A) = MaxRetries + 1 - m.retries
      /\ Cardinality(B) = MaxRetries + 1 - m.retries
  BY <1>3, CopyCount
<1>5. ASSUME NEW x \in TriesQueued'
      PROVE  x \in TriesQueued /\ x \notin A
  <2>1. PICK n \in Messages : \E k \in 1..queue'[n], i \in n.retries..MaxRetries :
               x = <<<<n, k>>, i>>
    BY <1>5 DEF TriesQueued
  <2>2. PICK k \in 1..queue'[n], i \in n.retries..MaxRetries : x = <<<<n, k>>, i>>
    BY <2>1
  <2>3. k \in 1..queue[n] /\ (n = m => k # queue[m])
    BY <1>1, <2>2
  <2>4. QED
    BY <2>2, <2>3, QueuedTry
<1>6. ASSUME NEW x \in TriesHeld'
      PROVE  (x \in TriesHeld /\ x \notin A) \/ x \in B
  <2>1. PICK v \in Workers : \E i \in TriesLeft(v)' : x = <<<<v, 0>>, i>>
    BY <1>6 DEF TriesHeld
  <2>2. PICK i \in TriesLeft(v)' : x = <<<<v, 0>>, i>>
    BY <2>1
  <2>3. CASE v = w
    <3>1. i \in m.retries..MaxRetries
      BY <1>2, <2>2, <2>3 DEF TriesLeft
    <3>2. QED
      BY <2>2, <2>3, <3>1
  <2>4. CASE v # w
    <3>1. phase[v] = "run" => awaits[v] \in Coroutines /\ awaits[v] # c
      <4>1. home[c] = NoWorker /\ v # NoWorker
        BY <1>1, RecipeJobsAssumption DEF TypeOK, CoroutineShape
      <4>2. phase[v] = "run" => awaits[v] \in Coroutines /\ home[awaits[v]] = v
        BY WaitsAtHome DEF TypeOK, WorkerShape
      <4>3. QED
        BY <4>1, <4>2
    <3>2. TriesLeft(v)' = TriesLeft(v)
      BY <1>2, <2>4, <3>1 DEF TriesLeft
    <3>3. x \in TriesHeld
      BY <2>2, <3>2, HeldTry
    <3>4. x \notin A
      BY <1>1, <2>2
    <3>5. QED
      BY <3>3, <3>4
  <2>5. QED
    BY <2>3, <2>4
<1>7. ASSUME NEW x \in TriesStray'
      PROVE  x \in TriesStray /\ x \notin A
  <2>1. PICK b \in LeftBehind' : \E i \in 0..MaxRetries :
               (i = 0 => pc'[b] = "count") /\ x = <<<<b, -1>>, i>>
    BY <1>7 DEF TriesStray
  <2>2. b \in Coroutines /\ home'[b] # NoWorker /\ awaits'[home'[b]] # b
    BY DEF LeftBehind, Awaited
  <2>3. b # c
    BY <1>2, <2>2
  <2>4. home'[b] = home[b] /\ pc'[b] = pc[b] /\ home[b] \in Workers
    BY <1>2, <2>2, <2>3 DEF TypeOK, CoroutineOK
  <2>5. awaits[home[b]] # b
    <3>1. CASE home[b] = w
      <4>1. awaits[w] = NoCoroutine /\ b # NoCoroutine
        BY <1>1, <2>2, RecipeJobsAssumption DEF TypeOK, WorkerShape
      <4>2. QED
        BY <3>1, <4>1
    <3>2. CASE home[b] # w
      BY <1>2, <2>2, <2>4, <3>2
    <3>3. QED
      BY <3>1, <3>2
  <2>6. b \in LeftBehind
    BY <2>2, <2>4, <2>5 DEF LeftBehind, Awaited
  <2>7. x \in TriesStray
    BY <2>1, <2>4, <2>6, StrayTry
  <2>8. x \notin A
    BY <1>1, <2>1
  <2>9. QED
    BY <2>7, <2>8
<1>8. A \subseteq Tries
  <2>1. ASSUME NEW i \in m.retries..MaxRetries
        PROVE  <<<<m, queue[m]>>, i>> \in TriesQueued
    BY <1>1, QueuedTry
  <2>2. QED
    BY <2>1 DEF Tries
<1>9. Tries' \subseteq (Tries \ A) \cup B
  BY <1>5, <1>6, <1>7 DEF Tries
<1>10. Cardinality(B) <= Cardinality(A) + (MaxRetries + 1) * 0
  BY <1>3, <1>4
<1>11. Posted' = Posted /\ IsFiniteSet(Posted) /\ Cardinality(Posted) \in Nat /\ mishaps \in Nat
  BY <1>1, FS_CardinalityType, RecipeJobsAssumption DEF Posted, AttemptShape, TypeOK, BrokerOK
<1>12. Cardinality(Posted') + mishaps' >= Cardinality(Posted) + mishaps + 0
  BY <1>1, <1>11
<1> HIDE DEF A, B
<1>13. QED
  BY <1>1, <1>4, <1>8, <1>9, <1>10, <1>11, <1>12, TriesMove

\* A retry hands the attempts that are left, of the request it is made from or
\* of the coroutine left behind, to the next message.
LEMMA RepublishAttempts ==
  ASSUME TypeOK, AttemptShape, NEW c \in Coroutines, Republish(c)
  PROVE  AttemptShape'
<1>1. PICK w \in Workers : w = home[c]
  BY NextTryType
<1> DEFINE m == NextTry(held[w])
           A == IF Awaited(c) THEN {<<w, 0>>} \X ((held[w].retries + 1)..MaxRetries)
                ELSE {<<c, -1>>} \X (1..MaxRetries)
<1>2. /\ held[w] \in Messages /\ m \in Messages /\ m.retries = held[w].retries + 1
      /\ held[w].retries \in Nat /\ MaxRetries \in Nat /\ held[w].retries < MaxRetries
  BY <1>1, NextTryType, RecipeJobsAssumption DEF Republish, CanRetry, Messages
<1>3. /\ At(c, "retry") /\ phase[w] = "run" /\ Requeue(m) /\ End({c}) /\ Leave(c, "ack")
      /\ UNCHANGED <<held, attempts, mishaps>>
      /\ UNCHANGED result \/ Recorded(job[c], "pending")
  BY <1>1 DEF Republish, counter
<1>4. IsFiniteSet(Copy(m)) /\ Cardinality(Copy(m)) = MaxRetries + 1 - m.retries
  BY <1>2, CopySize
<1>5. Cardinality(Copy(m)) <= Cardinality(A) + (MaxRetries + 1) * 0
  <2>1. CASE Awaited(c)
    <3>1. held[w].retries + 1 \in 0..(MaxRetries + 1)
      BY <1>2
    <3>2. A = {<<w, 0>>} \X ((held[w].retries + 1)..MaxRetries)
      BY <2>1
    <3>3. Cardinality(A) = MaxRetries + 1 - (held[w].retries + 1)
      BY <3>1, <3>2, CopyCount
    <3>4. QED
      BY <1>2, <1>4, <3>3
  <2>2. CASE ~Awaited(c)
    <3>1. 1 \in 0..(MaxRetries + 1)
      BY <1>2
    <3>2. A = {<<c, -1>>} \X (1..MaxRetries)
      BY <2>2
    <3>3. Cardinality(A) = MaxRetries + 1 - 1
      BY <3>1, <3>2, CopyCount
    <3>4. QED
      BY <1>2, <1>4, <3>3
  <2>3. QED
    BY <2>1, <2>2
<1> HIDE DEF m
<1>6. /\ Fade /\ c \notin LeftBehind'
      /\ Awaited(c) => TriesLeft(w)' = {}
  BY <1>1, <1>3, LeaveFades
<1>7. /\ TriesHeld' \subseteq TriesHeld /\ TriesStray' \subseteq TriesStray
      /\ TriesQueued' \subseteq TriesQueued \cup Copy(m)
  BY <1>2, <1>3, <1>6, FadeTries, QueueAdds
<1>8. A \subseteq Tries /\ \A x \in A : x \notin TriesHeld' /\ x \notin TriesStray' /\ x \notin TriesQueued
  <2>1. CASE Awaited(c)
    <3>1. awaits[w] = c
      BY <1>1, <2>1 DEF Awaited
    <3>2. ASSUME NEW i \in (held[w].retries + 1)..MaxRetries
          PROVE  <<<<w, 0>>, i>> \in TriesHeld
      <4>1. i \in TriesLeft(w)
        BY <1>3, <3>1 DEF TriesLeft
      <4>2. QED
        BY <4>1, HeldTry
    <3>3. ASSUME NEW i PROVE <<<<w, 0>>, i>> \notin TriesHeld'
      BY <1>6, <2>1 DEF TriesHeld
    <3>4. ASSUME NEW i PROVE <<<<w, 0>>, i>> \notin TriesStray'
      BY DEF TriesStray
    <3>5. ASSUME NEW i PROVE <<<<w, 0>>, i>> \notin TriesQueued
      BY QueuedTry
    <3>6. QED
      BY <2>1, <3>2, <3>3, <3>4, <3>5 DEF Tries
  <2>2. CASE ~Awaited(c)
    <3>1. c \in LeftBehind
      BY <1>1, <2>2, RecipeJobsAssumption DEF LeftBehind
    <3>2. ASSUME NEW i \in 1..MaxRetries
          PROVE  <<<<c, -1>>, i>> \in TriesStray
      BY <3>1, StrayTry
    <3>3. ASSUME NEW i PROVE <<<<c, -1>>, i>> \notin TriesStray'
      BY <1>6 DEF TriesStray
    <3>4. ASSUME NEW i PROVE <<<<c, -1>>, i>> \notin TriesHeld'
      BY DEF TriesHeld
    <3>5. ASSUME NEW i PROVE <<<<c, -1>>, i>> \notin TriesQueued
      BY QueuedTry
    <3>6. QED
      BY <2>2, <3>2, <3>3, <3>4, <3>5 DEF Tries
  <2>3. QED
    BY <2>1, <2>2
<1> HIDE DEF A
<1>9. Tries' \subseteq (Tries \ A) \cup Copy(m)
  BY <1>7, <1>8 DEF Tries
<1>10. IsFiniteSet(Posted') /\ Cardinality(Posted) <= Cardinality(Posted')
  BY <1>3, NextTryType, PostedStay DEF AttemptShape
<1>11. /\ mishaps' \in Nat
       /\ Cardinality(Posted') + mishaps' >= Cardinality(Posted) + mishaps + 0
  <2>1. /\ Cardinality(Posted) \in Nat /\ Cardinality(Posted') \in Nat
        /\ mishaps \in Nat /\ mishaps' = mishaps
    BY <1>3, <1>10, FS_CardinalityType, RecipeJobsAssumption DEF AttemptShape, TypeOK, BrokerOK
  <2>2. QED
    BY <1>10, <2>1
<1>12. QED
  BY <1>3, <1>4, <1>5, <1>8, <1>9, <1>10, <1>11, TriesMove

\* A coroutine that neither counts nor is tried again.
LEMMA QuietAttempts ==
  ASSUME TypeOK, AttemptShape, NEW c \in Coroutines, Run(c), Moves(c) \/ Leaves(c),
         ~CountAttempt(c)
  PROVE  AttemptShape'
<1>1. UNCHANGED attempts
  BY DEF Run, ExpireCounter, CheckRedis, LookUpRecipe, Backfill, Generate, Commit, Retry,
         Republish, RetryRefused, RetriesExceeded, Raises, counter
<1>2. ~At(c, "free") /\ UNCHANGED <<queue, held, mishaps>>
  BY DEF Moves, Leaves, broker
<1>3. Fade
  <2>1. CASE Moves(c)
    BY <2>1, MovesFade
  <2>2. CASE Leaves(c)
    <3>1. PICK next \in {"answer", "ack"} : Leave(c, next)
      BY <2>2 DEF Leaves
    <3>2. QED
      BY <1>2, <2>2, <3>1, LeaveFades DEF Leaves
  <2>3. QED
    BY <2>1, <2>2
<1>4. UNCHANGED result \/ Recorded(job[c], "over")
  BY DEF Moves, Leaves
<1>5. job[c] \in Jobs
  BY <1>2, AtHome
<1>6. mishaps \in Nat
  BY RecipeJobsAssumption DEF TypeOK, BrokerOK
<1>7. QED
  BY <1>1, <1>2, <1>3, <1>4, <1>5, <1>6, FadeAttempts

LEMMA RunAttempts ==
  ASSUME TypeOK, AttemptShape, NEW c \in Coroutines, Run(c)
  PROVE  AttemptShape'
BY RunKinds, CountSpends, QuietAttempts, RepublishAttempts

\* A process that acknowledges, answers or is killed at its limit of time.
LEMMA WorkAttempts ==
  ASSUME TypeOK, AttemptShape, NEW w \in Workers, Ack(w) \/ Answer(w) \/ Kill(w)
  PROVE  AttemptShape'
<1>1. UNCHANGED <<queue, attempts, mishaps>>
  BY DEF Ack, Answer, Kill, broker, counter
<1>2. Job(w) \in Jobs
  <2>1. phase[w] # "idle"
    BY DEF Ack, Answer, Kill
  <2>2. QED
    BY <2>1, JobHeld
<1>3. UNCHANGED result \/ \E state \in {"success", "over"} : Recorded(Job(w), state)
  BY DEF Ack, Answer, Kill
<1>4. Fade
  <2>1. CASE Kill(w)
    BY <2>1, EndInFades DEF Kill, broker
  <2>2. CASE Ack(w) \/ Answer(w)
    <3>1. UNCHANGED <<home, pc>> /\ phase[w] \in {"ack", "answer"}
      BY <2>2 DEF Ack, Answer, coroutine
    <3>2. /\ phase'[w] # "run" /\ awaits[w] = NoCoroutine /\ awaits'[w] = NoCoroutine
          /\ \A v \in Workers \ {w} :
               phase'[v] = phase[v] /\ awaits'[v] = awaits[v] /\ held'[v] = held[v]
      BY <2>2, <3>1
      DEF Ack, Answer, Release, Proceed, broker, TypeOK, BrokerOK, ProcessOK, WorkerShape
    <3>3. \A v \in Workers : TriesLeft(v)' \subseteq TriesLeft(v)
      BY <3>1, <3>2, LeftFades
    <3>4. \A c \in LeftBehind' : c \in LeftBehind
      <4> TAKE c \in LeftBehind'
      <4>1. c \in Coroutines /\ home[c] \in Workers /\ awaits'[home[c]] # c
        BY <3>1 DEF LeftBehind, Awaited, TypeOK, CoroutineOK
      <4>2. awaits[home[c]] = awaits'[home[c]]
        BY <3>2, <4>1
      <4>3. QED
        BY <4>1, <4>2, RecipeJobsAssumption DEF LeftBehind, Awaited
    <3>5. QED
      BY <3>1, <3>3, <3>4 DEF Fade
  <2>3. QED
    BY <2>1, <2>2
<1>5. mishaps \in Nat
  BY RecipeJobsAssumption DEF TypeOK, BrokerOK
<1>6. QED
  BY <1>1, <1>2, <1>3, <1>4, <1>5, FadeAttempts

\* The user, what expires in Redis, and stuttering.
LEMMA OutsideAttempts ==
  ASSUME TypeOK, AttemptShape, Outside \/ UNCHANGED vars
  PROVE  AttemptShape'
<1>1. UNCHANGED <<queue, held, phase, awaits, home, pc, attempts, mishaps, result>>
  BY OutsideUnchanged
  DEF Outside, CounterExpires, CacheExpires, DeleteRecipe, GenerateFromInventory, broker, process,
      counter, coroutine, vars
<1>2. Tries' = Tries /\ Posted' = Posted
  BY <1>1 DEF Tries, TriesQueued, TriesHeld, TriesLeft, TriesStray, LeftBehind, Awaited, Posted
<1>3. QED
  BY <1>1, <1>2 DEF AttemptShape

LEMMA NextAttempts ==
  ASSUME TypeOK, AttemptShape, [Next]_vars
  PROVE  AttemptShape'
<1>1. ASSUME NEW w \in Workers, Work(w) PROVE AttemptShape'
  BY <1>1, WorkAttempts, CrashAttempts, DisconnectAttempts, AbandonAttempts DEF Work
<1>2. CASE Next
  BY <1>1, <1>2, NextKinds, PostAttempts, TakeAttempts, RunAttempts, OutsideAttempts
<1>3. QED
  BY <1>2, OutsideAttempts

LEMMA InitAttempts == Init => AttemptShape
<1> SUFFICES ASSUME Init PROVE AttemptShape
  OBVIOUS
<1>1. Posted = {} /\ Tries = {}
  <2>1. Posted = {}
    BY DEF Init, Posted
  <2>2. TriesQueued = {} /\ TriesHeld = {}
    BY DEF Init, TriesQueued, TriesHeld, TriesLeft
  <2>3. LeftBehind = {}
    BY DEF Init, LeftBehind
  <2>4. QED
    BY <2>1, <2>2, <2>3 DEF Tries, TriesStray
<1>2. /\ IsFiniteSet(Posted) /\ Cardinality(Posted) = 0
      /\ IsFiniteSet(Tries) /\ Cardinality(Tries) = 0
  BY <1>1, FS_EmptySet
<1>3. attempts = 0 /\ mishaps = 0 /\ MaxRetries \in Nat
  BY RecipeJobsAssumption DEF Init
<1>4. QED
  BY <1>2, <1>3 DEF AttemptShape

\* The attempts made and those the messages and the coroutines left behind are
\* still good for, copies at the broker and at the processes together, stay
\* within the bound.
THEOREM AttemptsInvariance == Spec => []AttemptShape
<1>1. TypeOK /\ AttemptShape /\ [Next]_vars => AttemptShape'
  BY NextAttempts
<1>2. QED
  BY <1>1, InitAttempts, TypeCorrect, PTL DEF Spec

\* Late acknowledgement and task.retry multiply the attempts by one chain of
\* tries for each process or connection lost and each coroutine left behind,
\* and no more, for every number of processes, jobs and retries: this is the
\* bound on what the jobs can take from the daily counter and the provider.
THEOREM AttemptsLimited == Spec => []AttemptsBounded
<1>1. TypeOK /\ AttemptShape => AttemptsBounded
  <2> SUFFICES ASSUME TypeOK, AttemptShape PROVE AttemptsBounded
    OBVIOUS
  <2>1. attempts + Cardinality(Tries) <= Bound
    BY DEF AttemptShape, Bound
  <2>2. Cardinality(Tries) \in Nat /\ Cardinality(Posted) \in Nat
    BY FS_CardinalityType DEF AttemptShape
  <2>3. attempts \in Nat /\ mishaps \in Nat /\ MaxRetries \in Nat
    BY RecipeJobsAssumption DEF TypeOK, CounterOK, BrokerOK
  <2>4. Bound \in Int
    BY <2>2, <2>3 DEF Bound
  <2>5. attempts <= Bound
    BY <2>1, <2>2, <2>3, <2>4
  <2>6. QED
    BY <2>5 DEF AttemptsBounded, Bound
<1>2. QED
  BY <1>1, AttemptsInvariance, TypeCorrect, PTL
=============================================================================
