---------------------------- MODULE BreakerState ----------------------------
(***************************************************************************)
(* CircuitBreakerState (src/src/circuit_breaker/state.rs): the methods of  *)
(* one breaker as operators on the record behind its Mutex.  Every method  *)
(* holds the Mutex from its first line to its last, so each is atomic.     *)
(***************************************************************************)
EXTENDS Integers

CONSTANTS
    FailureThreshold,   \* failure_threshold
    SuccessThreshold,   \* success_threshold
    ResetTimeout,       \* reset_timeout, in ticks of the clock
    HalfOpenMaxCalls,   \* half_open_max_calls
    CounterMod          \* the number of values of the call counter's type (2^32)

ASSUME ThresholdAssumption ==
    /\ FailureThreshold \in Nat
    /\ SuccessThreshold \in Nat
    /\ ResetTimeout \in Nat
    /\ HalfOpenMaxCalls \in Nat

ASSUME CounterAssumption ==
    /\ CounterMod \in Nat
    /\ CounterMod > 1
    /\ HalfOpenMaxCalls < CounterMod

(* The state machine.  last_failure_time is read only through elapsed(), so *)
(* it is kept as its age: Never, or the ticks since, up to ResetTimeout.    *)

Never == -1

CircuitState == {"Closed", "Open", "HalfOpen"}

Inner == [state: CircuitState,
          failure_count: Nat,
          success_count: Nat,
          half_open_calls: Nat,
          last_failure_age: Int]

New == [state |-> "Closed", failure_count |-> 0, success_count |-> 0,
        half_open_calls |-> 0, last_failure_age |-> Never]

\* Assigns every field.
transition_to_open(g) ==
    [state |-> "Open", failure_count |-> 0, success_count |-> 0,
     half_open_calls |-> 0, last_failure_age |-> 0]

transition_to_half_open(g) ==
    [g EXCEPT !.state = "HalfOpen", !.success_count = 0, !.half_open_calls = 0]

transition_to_closed(g) ==
    [g EXCEPT !.state = "Closed", !.failure_count = 0, !.success_count = 0,
              !.half_open_calls = 0]

\* last_failure_time is Some(time) and time.elapsed() >= reset_timeout
ResetElapsed(g) ==
    /\ g.last_failure_age # Never
    /\ g.last_failure_age >= ResetTimeout

\* half_open_calls += 1 in a build without overflow checks
Count(n) == IF n + 1 = CounterMod THEN 0 ELSE n + 1

\* Defective variant: one probe too many.
AllowsOneMore(g) ==
    \/ g.state = "Closed"
    \/ g.state = "Open" /\ ResetElapsed(g)
    \/ g.state = "HalfOpen" /\ g.half_open_calls <= HalfOpenMaxCalls

\* The answer of should_allow.
Allows(g) ==
    \/ g.state = "Closed"
    \/ g.state = "Open" /\ ResetElapsed(g)
    \/ g.state = "HalfOpen" /\ g.half_open_calls < HalfOpenMaxCalls

\* What should_allow leaves behind: a half-open breaker counts the rejected
\* calls too.
should_allow(g) ==
    CASE g.state = "Closed" -> g
      [] g.state = "Open" /\ ResetElapsed(g) ->
            [transition_to_half_open(g) EXCEPT !.half_open_calls = Count(0)]
      [] g.state = "Open" /\ ~ResetElapsed(g) -> g
      [] g.state = "HalfOpen" -> [g EXCEPT !.half_open_calls = Count(@)]

\* Defective variant: the failure count decays.
RecordSuccessDecays(g) ==
    IF g.state = "Closed" THEN [g EXCEPT !.failure_count = @ - 1] ELSE g

record_success(g) ==
    CASE g.state = "Closed" -> [g EXCEPT !.failure_count = 0]
      [] g.state = "HalfOpen" ->
            IF g.success_count + 1 >= SuccessThreshold
            THEN transition_to_closed(g)
            ELSE [g EXCEPT !.success_count = @ + 1]
      [] g.state = "Open" -> g

\* Defective variants: an application error is ignored; it is a success.
RecordNeutralIgnored(g) == g

RecordNeutralAsSuccess(g) == record_success(g)

record_neutral(g) ==
    IF g.state = "Closed" THEN [g EXCEPT !.failure_count = 0] ELSE g

\* Defective variants: the circuit trips one failure late; a late failure moves
\* the window.
RecordFailureLate(g) ==
    CASE g.state = "Closed" ->
            IF g.failure_count + 1 > FailureThreshold
            THEN transition_to_open(g)
            ELSE [g EXCEPT !.failure_count = @ + 1]
      [] g.state = "HalfOpen" -> transition_to_open(g)
      [] g.state = "Open" -> g

RecordFailureRefreshes(g) ==
    IF g.state = "Closed" /\ g.failure_count + 1 < FailureThreshold
    THEN [g EXCEPT !.failure_count = @ + 1]
    ELSE transition_to_open(g)

record_failure(g) ==
    CASE g.state = "Closed" ->
            IF g.failure_count + 1 >= FailureThreshold
            THEN transition_to_open(g)
            ELSE [g EXCEPT !.failure_count = @ + 1]
      [] g.state = "HalfOpen" -> transition_to_open(g)
      [] g.state = "Open" -> g

is_fast_failing(g) ==
    /\ g.state = "Open"
    /\ g.last_failure_age # Never
    /\ g.last_failure_age < ResetTimeout

-----------------------------------------------------------------------------
\* A threshold of 0 acts as one of 1: the comparisons come after the count.
AtLeastOne(n) == IF n = 0 THEN 1 ELSE n

Saturate(n, top) == IF n < top THEN n + 1 ELSE top

Trip == AtLeastOne(FailureThreshold)
Recovery == AtLeastOne(SuccessThreshold)
Budget == AtLeastOne(HalfOpenMaxCalls)
=============================================================================
