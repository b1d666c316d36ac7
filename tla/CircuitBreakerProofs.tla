------------------------ MODULE CircuitBreakerProofs ------------------------
(***************************************************************************)
(* The breaker's fields agree for every threshold, recovery time, number   *)
(* of retries and number of concurrent calls.  TypeOK and FieldsAgree are  *)
(* inductive together; the action properties follow from them.             *)
(***************************************************************************)
EXTENDS CircuitBreaker, TLAPS

IInv == TypeOK /\ FieldsAgree

LEMMA InitInv == Init => IInv
BY BreakerAssumption DEF Init, IInv, TypeOK, FieldsAgree

\* What recording an outcome does to the fields.
LEMMA SuccessFields ==
  ASSUME IInv, Success, clock' = clock
  PROVE  FieldsAgree' /\ failures' \in Nat /\ openedAt' \in Nat \cup {Never}
         /\ state' \in {"closed", "open", "halfOpen"}
BY BreakerAssumption DEF IInv, TypeOK, FieldsAgree, Success

LEMMA FailureFields ==
  ASSUME IInv, Failure, clock' = clock
  PROVE  /\ FieldsAgree' /\ failures' \in Nat /\ openedAt' \in Nat \cup {Never}
         /\ state' \in {"closed", "open", "halfOpen"}
         /\ failures' = failures + 1
         /\ state = "halfOpen" => state' = "open" /\ openedAt' = clock
BY BreakerAssumption DEF IInv, TypeOK, FieldsAgree, Failure, Elapsed

LEMMA LaterIsLater ==
  ASSUME NEW now \in Nat, NEW later \in Nat, now <= later,
         NEW start \in Nat, NEW wait \in Nat, now - start >= wait
  PROVE  later - start >= wait
OBVIOUS

\* The steps of a call that do not read or write the breaker.
LEMMA QuietFields ==
  ASSUME IInv, UNCHANGED breaker, clock' \in Nat, clock <= clock'
  PROVE  FieldsAgree'
<1>1. Elapsed => Elapsed'
  <2>1. ASSUME openedAt \in Nat, clock - openedAt >= Recovery
        PROVE  clock' - openedAt >= Recovery
    <3>1. clock \in Nat /\ Recovery \in Nat
      BY BreakerAssumption DEF IInv, TypeOK
    <3>2. QED
      BY <2>1, <3>1, LaterIsLater
  <2>2. QED
    BY <2>1 DEF Elapsed, breaker, IInv, TypeOK
<1>2. QED
  BY <1>1 DEF IInv, FieldsAgree, breaker

\* Where a call goes, as far as types are concerned.
LEMMA MovesType ==
  ASSUME TypeOK, NEW c \in Calls,
         NEW to \in {"new", "calling", "sleeping"} \cup Ended, Moves(c, to)
  PROVE  pc' \in [Calls -> {"new", "calling", "sleeping"} \cup Ended]
BY DEF TypeOK, Moves

LEMMA AdmitInv == ASSUME IInv, NEW c \in Calls, Admit(c) PROVE IInv'
<1> USE DEF Admit
<1>1. pc' \in [Calls -> {"new", "calling", "sleeping"} \cup Ended]
  BY MovesType DEF IInv, Ended
<1>2. TypeOK'
  BY <1>1 DEF IInv, TypeOK, Observed
<1>3. FieldsAgree'
  BY BreakerAssumption DEF IInv, TypeOK, FieldsAgree, Observed, Elapsed
<1>4. QED
  BY <1>2, <1>3 DEF IInv

LEMMA AnswerInv == ASSUME IInv, NEW c \in Calls, Answer(c) PROVE IInv'
<1>1. clock' = clock /\ attempt' = attempt /\ TypeOK
  BY DEF IInv, Answer, TimedOut, RateLimited, ConnectionLost, Rejected,
         Unparsed, Parsed
<1>2. pc' \in [Calls -> {"new", "calling", "sleeping"} \cup Ended]
  BY <1>1, MovesType DEF Answer, TimedOut, RateLimited, ConnectionLost,
     Rejected, Unparsed, Parsed, Ended
<1>3. Success \/ Failure \/ UNCHANGED breaker
  BY DEF Answer, TimedOut, RateLimited, ConnectionLost, Rejected, Unparsed,
         Parsed
<1>4. /\ FieldsAgree' /\ failures' \in Nat /\ openedAt' \in Nat \cup {Never}
      /\ state' \in {"closed", "open", "halfOpen"}
  <2>1. CASE Success
    BY <1>1, <2>1, SuccessFields
  <2>2. CASE Failure
    BY <1>1, <2>2, FailureFields
  <2>3. CASE UNCHANGED breaker
    BY <1>1, <2>3, QuietFields DEF TypeOK, breaker
  <2>4. QED
    BY <1>3, <2>1, <2>2, <2>3
<1>5. QED
  BY <1>1, <1>2, <1>4 DEF IInv, TypeOK

LEMMA WakeInv == ASSUME IInv, NEW c \in Calls, Wake(c) PROVE IInv'
<1>1. TypeOK /\ clock' = clock
  BY DEF IInv, Wake
<1>2. attempt' \in [Calls -> Nat]
  BY <1>1 DEF TypeOK, Wake
<1>3. CASE Failure /\ Moves(c, "unavailable")
  <2>1. pc' \in [Calls -> {"new", "calling", "sleeping"} \cup Ended]
    BY <1>1, <1>3, MovesType DEF Ended
  <2>2. QED
    BY <1>1, <1>2, <1>3, <2>1, FailureFields DEF IInv, TypeOK
<1>4. CASE UNCHANGED breaker /\ Moves(c, "calling")
  <2>1. pc' \in [Calls -> {"new", "calling", "sleeping"} \cup Ended]
    BY <1>1, <1>4, MovesType
  <2>2. FieldsAgree'
    BY <1>1, <1>4, QuietFields DEF TypeOK
  <2>3. QED
    BY <1>1, <1>2, <1>4, <2>1, <2>2 DEF IInv, TypeOK, breaker
<1>5. QED
  BY <1>3, <1>4 DEF Wake

LEMMA NextInv == IInv /\ [Next]_vars => IInv'
<1> SUFFICES ASSUME IInv, [Next]_vars PROVE IInv'
  OBVIOUS
<1>1. CASE Tick
  BY <1>1, QuietFields DEF Tick, IInv, TypeOK, breaker
<1>2. CASE UNCHANGED vars
  BY <1>2, QuietFields DEF vars, breaker, IInv, TypeOK
<1>3. QED
  BY <1>1, <1>2, AdmitInv, AnswerInv, WakeInv DEF Next

\* TypeOK and FieldsAgree hold in every reachable state.
THEOREM BreakerInvariance == Spec => []IInv
BY InitInv, NextInv, PTL DEF Spec

\* The counter, the clock and every call keep their types and bounds.
THEOREM BreakerTypeCorrect == Spec => []TypeOK
<1>1. IInv => TypeOK
  BY DEF IInv
<1>2. QED
  BY <1>1, BreakerInvariance, PTL

\* Closed means fewer than Threshold failures since the last success, and half
\* open means the recovery time is over, however the calls interleave.
THEOREM BreakerFieldsAgree == Spec => []FieldsAgree
<1>1. IInv => FieldsAgree
  BY DEF IInv
<1>2. QED
  BY <1>1, BreakerInvariance, PTL

\* The count and the moment of a trip are only ever changed by an outcome.
LEMMA FieldSteps ==
  ASSUME [Next]_vars
  PROVE  \/ Success /\ clock' = clock
         \/ Failure /\ clock' = clock
         \/ UNCHANGED <<failures, openedAt>>
BY DEF Next, Tick, Admit, Answer, TimedOut, RateLimited, ConnectionLost,
       Rejected, Unparsed, Parsed, Wake, vars, breaker

\* One failure while half open opens the breaker again.
THEOREM HalfOpenFailureReopens == Spec => ProbeFailureReopens
<1>1. IInv /\ [Next]_vars =>
        [(state = "halfOpen" /\ failures' > failures) =>
           state' = "open" /\ openedAt' = clock]_vars
  <2> SUFFICES ASSUME IInv, [Next]_vars, state = "halfOpen",
                      failures' > failures
               PROVE  state' = "open" /\ openedAt' = clock
    OBVIOUS
  <2>1. failures \in Nat
    BY DEF IInv, TypeOK
  <2>2. ~Success /\ failures' # failures
    BY <2>1 DEF Success
  <2>3. Failure /\ clock' = clock
    BY <2>2, FieldSteps
  <2>4. QED
    BY <2>3, FailureFields
<1>2. QED
  BY <1>1, BreakerInvariance, PTL DEF Spec, ProbeFailureReopens

\* A call is let through or refused as the failures and the clock say.
THEOREM GateIsSound == Spec => GateFollowsBreaker
<1> DEFINE Gate(c) == (pc[c] = "new" /\ pc'[c] # "new") =>
                        (pc'[c] = "refused" <=> failures >= Threshold /\ ~Elapsed)
<1>1. IInv /\ [Next]_vars => [\A c \in Calls : Gate(c)]_vars
  <2> SUFFICES ASSUME IInv, [Next]_vars, NEW c \in Calls,
                      pc[c] = "new", pc'[c] # "new"
               PROVE  pc'[c] = "refused" <=> failures >= Threshold /\ ~Elapsed
    OBVIOUS
  <2>1. TypeOK /\ FieldsAgree
    BY DEF IInv
  <2>2. ASSUME NEW d \in Calls, Answer(d) \/ Wake(d) PROVE FALSE
    BY <2>1, <2>2 DEF TypeOK, Answer, TimedOut, RateLimited, ConnectionLost,
       Rejected, Unparsed, Parsed, Wake, Moves
  <2>3. Admit(c)
    BY <2>1, <2>2 DEF TypeOK, Next, Tick, vars, Admit, Moves
  <2>4. pc'[c] = IF Observed = "open" THEN "refused" ELSE "calling"
    BY <2>1, <2>3 DEF Admit, Moves, TypeOK
  <2>5. Observed = "open" <=> failures >= Threshold /\ ~Elapsed
    BY <2>1, BreakerAssumption DEF Observed, FieldsAgree, TypeOK
  <2>6. QED
    BY <2>4, <2>5
<1>2. QED
  BY <1>1, BreakerInvariance, PTL DEF Spec, GateFollowsBreaker

\* Whichever way a call ends as timed out or unavailable, the breaker has
\* counted it in the same step.
THEOREM OutageIsCounted == Spec => OutageIsRecorded
<1> DEFINE Lost(c) == pc[c] \notin Ended /\ pc'[c] \in {"unavailable", "timeout"}
<1>1. IInv /\ [Next]_vars => [\A c \in Calls : Lost(c) => failures' = failures + 1]_vars
  <2> SUFFICES ASSUME IInv, [Next]_vars, NEW c \in Calls, Lost(c)
               PROVE  failures' = failures + 1
    OBVIOUS
  <2>1. pc \in [Calls -> {"new", "calling", "sleeping"} \cup Ended]
    BY DEF IInv, TypeOK
  <2>2. pc'[c] # pc[c]
    BY DEF Ended
  <2>3. PICK d \in Calls : Admit(d) \/ Answer(d) \/ Wake(d)
    BY <2>2 DEF Next, Tick, vars
  <2>4. CASE Admit(d)
    BY <2>1, <2>2, <2>4 DEF Admit, Moves
  <2>5. CASE Answer(d)
    BY <2>1, <2>2, <2>5 DEF Answer, TimedOut, RateLimited, ConnectionLost, Rejected,
       Unparsed, Parsed, Moves, Failure
  <2>6. CASE Wake(d)
    BY <2>1, <2>2, <2>6 DEF Wake, Moves, Failure
  <2>7. QED
    BY <2>3, <2>4, <2>5, <2>6
<1>2. QED
  BY <1>1, BreakerInvariance, PTL DEF Spec, OutageIsRecorded
=============================================================================
