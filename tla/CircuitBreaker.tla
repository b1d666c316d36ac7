--------------------------- MODULE CircuitBreaker ---------------------------
(***************************************************************************)
(* The circuit breaker in front of OpenAI and the retry loop of            *)
(* structured_completion.  One breaker is shared by every call of the      *)
(* process; the event loop interleaves the calls at each await, so between *)
(* the moment a call is let through and the moment its answer is recorded  *)
(* any number of other calls may have moved the breaker.                   *)
(***************************************************************************)
EXTENDS Integers

CONSTANTS
  Calls,       \* the calls of structured_completion
  Threshold,   \* CB_FAILURE_THRESHOLD
  Recovery,    \* CB_RECOVERY_TIMEOUT_S, in clock units
  MaxRetries,  \* OPENAI_MAX_RETRIES
  Never,       \* _opened_at is None
  MaxTime      \* bound on the clock

ASSUME BreakerAssumption ==
  /\ Threshold \in Nat \ {0} /\ MaxRetries \in Nat \ {0}
  /\ Recovery \in Nat /\ MaxTime \in Nat
  /\ Never \notin Nat

VARIABLES
  clock,     \* time.monotonic()
  state,     \* _state
  failures,  \* _failures
  openedAt,  \* _opened_at
  pc,        \* where each call is, or how it ended
  attempt    \* the loop variable of each call

breaker == <<state, failures, openedAt>>
vars == <<clock, breaker, pc, attempt>>

\* "unavailable", "timeout" and "invalid" are the exceptions of the service.
Ended == {"ok", "refused", "unavailable", "timeout", "invalid"}

TypeOK ==
  /\ clock \in Nat
  /\ state \in {"closed", "open", "halfOpen"}
  /\ failures \in Nat
  /\ openedAt \in Nat \cup {Never}
  /\ pc \in [Calls -> {"new", "calling", "sleeping"} \cup Ended]
  /\ attempt \in [Calls -> Nat]

Init ==
  /\ clock = 0
  /\ state = "closed" /\ failures = 0 /\ openedAt = Never
  /\ pc = [c \in Calls |-> "new"]
  /\ attempt = [c \in Calls |-> 0]

-----------------------------------------------------------------------------
(* CircuitBreaker                                                          *)

Elapsed == openedAt # Never /\ clock - openedAt >= Recovery

\* The property "state", which moves the machine when it is read.
Observed == IF state = "open" /\ Elapsed THEN "halfOpen" ELSE state

\* Faulty variant: a success takes one failure back.
SuccessTakesOneBack ==
  /\ failures' = failures - 1
  /\ IF failures' < Threshold
     THEN state' = "closed" /\ openedAt' = Never
     ELSE UNCHANGED <<state, openedAt>>

Success ==
  /\ failures' = 0
  /\ state' = "closed"
  /\ openedAt' = Never

\* Faulty variant: trips one failure late.
FailureTripsLate ==
  /\ failures' = failures + 1
  /\ IF failures' > Threshold
     THEN state' = "open" /\ openedAt' = clock
     ELSE UNCHANGED <<state, openedAt>>

\* Faulty variant: the count starts again when the breaker trips.
FailureRestartsCount ==
  IF failures + 1 >= Threshold
  THEN failures' = 0 /\ state' = "open" /\ openedAt' = clock
  ELSE failures' = failures + 1 /\ UNCHANGED <<state, openedAt>>

Failure ==
  /\ failures' = failures + 1
  /\ IF failures' >= Threshold
     THEN state' = "open" /\ openedAt' = clock
     ELSE UNCHANGED <<state, openedAt>>

-----------------------------------------------------------------------------
(* structured_completion                                                   *)

Moves(c, to) == pc' = [pc EXCEPT ![c] = to]

\* Faulty variant: the guard looks at _state and lets an open breaker that
\* was tripped in the past through at once.
AdmitAtOnce(c) ==
  /\ pc[c] = "new"
  /\ state' = IF state = "open" THEN "halfOpen" ELSE state
  /\ Moves(c, "calling")
  /\ UNCHANGED <<clock, failures, openedAt, attempt>>

Admit(c) ==
  /\ pc[c] = "new"
  /\ state' = Observed
  /\ Moves(c, IF Observed = "open" THEN "refused" ELSE "calling")
  /\ UNCHANGED <<clock, failures, openedAt, attempt>>

TimedOut(c) ==
  /\ pc[c] = "calling"
  /\ Failure
  /\ Moves(c, "timeout")
  /\ UNCHANGED <<clock, attempt>>

RateLimited(c) ==
  /\ pc[c] = "calling"
  /\ Moves(c, "sleeping")
  /\ UNCHANGED <<clock, breaker, attempt>>

ConnectionLost(c) ==
  /\ pc[c] = "calling"
  /\ Failure
  /\ Moves(c, IF attempt[c] < MaxRetries - 1 THEN "sleeping" ELSE "unavailable")
  /\ UNCHANGED <<clock, attempt>>

\* A bad request, and every exception the loop does not name (an HTTP 5xx,
\* a cancellation): the breaker hears nothing of it.
Rejected(c) ==
  /\ pc[c] = "calling"
  /\ Moves(c, "invalid")
  /\ UNCHANGED <<clock, breaker, attempt>>

Unparsed(c) ==
  /\ pc[c] = "calling"
  /\ Failure
  /\ Moves(c, "invalid")
  /\ UNCHANGED <<clock, attempt>>

Parsed(c) ==
  /\ pc[c] = "calling"
  /\ Success
  /\ Moves(c, "ok")
  /\ UNCHANGED <<clock, attempt>>

\* Faulty variant: the attempt is not counted.
WakeUncounted(c) ==
  /\ pc[c] = "sleeping"
  /\ Moves(c, "calling")
  /\ UNCHANGED <<clock, breaker, attempt>>

\* Faulty variant: running out of attempts is not reported to the breaker.
WakeUnreported(c) ==
  /\ pc[c] = "sleeping"
  /\ attempt' = [attempt EXCEPT ![c] = @ + 1]
  /\ Moves(c, IF attempt[c] + 1 < MaxRetries THEN "calling" ELSE "unavailable")
  /\ UNCHANGED <<clock, breaker>>

\* The sleep is over.  Without another attempt the loop falls through; with
\* one the provider is called again, whatever the breaker says by now.
Wake(c) ==
  /\ pc[c] = "sleeping"
  /\ attempt' = [attempt EXCEPT ![c] = @ + 1]
  /\ \/ attempt'[c] < MaxRetries /\ Moves(c, "calling") /\ UNCHANGED breaker
     \/ attempt'[c] >= MaxRetries /\ Moves(c, "unavailable") /\ Failure
  /\ UNCHANGED clock

Tick ==
  /\ clock < MaxTime
  /\ clock' = clock + 1
  /\ UNCHANGED <<breaker, pc, attempt>>

Answer(c) ==
  \/ TimedOut(c) \/ RateLimited(c) \/ ConnectionLost(c)
  \/ Rejected(c) \/ Unparsed(c) \/ Parsed(c)

Next == Tick \/ \E c \in Calls : Admit(c) \/ Answer(c) \/ Wake(c)

Spec == Init /\ [][Next]_vars

\* The client's timeout ends every request and asyncio.sleep returns.  Nothing
\* makes a caller call.
Fairness == \A c \in Calls : WF_vars(Answer(c) \/ Wake(c))

FairSpec == Spec /\ Fairness

-----------------------------------------------------------------------------
(* Properties                                                              *)

\* The three fields agree at all times: the breaker is closed exactly while
\* fewer than Threshold failures have been recorded since the last success,
\* and half open only once the recovery time is over.
FieldsAgree ==
  /\ state = "closed" <=> failures < Threshold
  /\ state = "closed" <=> openedAt = Never
  /\ state = "halfOpen" => Elapsed

\* A call is refused only within Recovery of a failure that found the breaker
\* at its threshold, and never let through then (allow).
GateFollowsBreaker ==
  [][\A c \in Calls :
       (pc[c] = "new" /\ pc'[c] # "new") =>
         (pc'[c] = "refused" <=> failures >= Threshold /\ ~Elapsed)]_vars

\* The first failure recorded while half open opens the breaker again: no run
\* of Threshold new failures is needed (HALF_OPEN, failure, OPEN).
ProbeFailureReopens ==
  [][(state = "halfOpen" /\ failures' > failures) =>
       state' = "open" /\ openedAt' = clock]_vars

\* A call never ends as unavailable or timed out behind the breaker's back.
OutageIsRecorded ==
  [][\A c \in Calls :
       (pc[c] \notin Ended /\ pc'[c] \in {"unavailable", "timeout"}) =>
         failures' = failures + 1]_vars

\* Every call that is let through ends: retries are bounded whatever the
\* provider answers.
CallsEnd == \A c \in Calls : pc[c] = "calling" ~> pc[c] \in Ended

\* The state machine of the class docstring: an open breaker goes to half open
\* and to nothing else.
OpenOnlyHalfOpens == [][state = "open" => state' # "closed"]_vars
=============================================================================
