--------------------------- MODULE CircuitBreaker ---------------------------
(***************************************************************************)
(* The circuit breaker of one target (src/src/circuit_breaker): the state  *)
(* machine `CircuitBreakerState`, driven by concurrent callers that run    *)
(* `guarded_call_with`.                                                    *)
(*                                                                         *)
(* Every method of the state machine holds one Mutex from its first line   *)
(* to its last, so each is one atomic operator on the record `inner`.  The *)
(* guarded future runs between two of them, unlocked: a caller is one step *)
(* of should_allow, and later, after any number of steps of the others,    *)
(* one step that records the outcome -- or none, when the future that      *)
(* holds the call is dropped.                                              *)
(***************************************************************************)
EXTENDS BreakerState, FiniteSets

CONSTANTS
    Callers,            \* tasks that call guarded_call_with on this target
    HasCallTimeout,     \* is call_timeout configured?
    Errors,             \* errors the guarded future may return
    Failures,           \* the errors the classifier is_failure answers true for
    Cancellable,        \* may the future that awaits the call be dropped?
    MaxHalfOpenCalls    \* bound: should_allow calls in one half-open episode

ASSUME ConfigAssumption ==
    /\ HasCallTimeout \in BOOLEAN
    /\ Failures \subseteq Errors
    /\ Cancellable \in BOOLEAN

ASSUME WidthAssumption ==
    /\ MaxHalfOpenCalls \in Nat
    /\ MaxHalfOpenCalls <= CounterMod

VARIABLES
    inner,      \* the Inner record behind the Mutex
    running,    \* callers whose guarded future has been admitted and is running
    degraded,   \* environment: is the target able to fail?
    streak,     \* history: failures recorded since the last other outcome
    probes,     \* history: calls admitted since the last Open -> HalfOpen
    good,       \* history: successes recorded since then or since a failure
    openFor     \* history: ticks since the last transition into Open

vars == <<inner, running, degraded, streak, probes, good, openFor>>

-----------------------------------------------------------------------------
\* The classifier of GuardedPool: only errors that say the database cannot be
\* reached are failures.  GuardedHttpClient counts every error (guarded_call).
sqlx_is_degradation(e) ==
    e \in {"Io", "Tls", "Protocol", "PoolTimedOut", "PoolClosed", "WorkerCrashed"}

-----------------------------------------------------------------------------
(* The history variables follow the outcomes and the admissions, never the *)
(* breaker's own counters.  They saturate one past the value that matters. *)

Opens == inner.state # "Open" /\ inner'.state = "Open"

-----------------------------------------------------------------------------
Init ==
    /\ inner = New
    /\ running = {}
    /\ degraded = FALSE
    /\ streak = 0
    /\ probes = 0
    /\ good = 0
    /\ openFor = 0

\* guarded_call_with up to the await: should_allow admits the call ...
Admit(c) ==
    /\ c \notin running
    /\ Allows(inner)
    /\ inner.state = "HalfOpen" => inner.half_open_calls < MaxHalfOpenCalls
    /\ inner' = should_allow(inner)
    /\ running' = running \cup {c}
    /\ probes' = CASE inner.state = "Closed" -> probes
                   [] inner.state = "Open" -> 1
                   [] inner.state = "HalfOpen" -> Saturate(probes, Budget + 1)
    /\ good' = IF inner.state = "Open" THEN 0 ELSE good
    /\ UNCHANGED <<degraded, streak, openFor>>

\* ... or answers CircuitOpen without polling the future.
Reject(c) ==
    /\ c \notin running
    /\ ~Allows(inner)
    /\ inner.state = "HalfOpen" => inner.half_open_calls < MaxHalfOpenCalls
    /\ inner' = should_allow(inner)
    /\ UNCHANGED <<running, degraded, streak, probes, good, openFor>>

\* The future returned Ok.
Succeed(c) ==
    /\ c \in running
    /\ inner' = record_success(inner)
    /\ running' = running \ {c}
    /\ streak' = 0
    /\ good' = Saturate(good, Recovery)
    /\ UNCHANGED <<degraded, probes, openFor>>

\* Whatever the classifier or the timeout calls a failure.
Fail(c) ==
    /\ c \in running
    /\ degraded
    /\ inner' = record_failure(inner)
    /\ running' = running \ {c}
    /\ streak' = Saturate(streak, Trip)
    /\ good' = 0
    /\ openFor' = IF Opens THEN 0 ELSE openFor
    /\ UNCHANGED <<degraded, probes>>

\* The future returned an error: the classifier decides what is recorded.
ReturnError(c, e) ==
    \/ /\ e \in Failures
       /\ Fail(c)
    \/ /\ e \notin Failures
       /\ c \in running
       /\ inner' = record_neutral(inner)
       /\ running' = running \ {c}
       /\ streak' = 0
       /\ UNCHANGED <<degraded, probes, good, openFor>>

\* tokio::time::timeout elapsed first: a failure whatever the classifier says.
TimeOut(c) ==
    /\ HasCallTimeout
    /\ Fail(c)

\* The task that awaits guarded_call_with is dropped (request timeout, client
\* gone): nothing is recorded.
Cancel(c) ==
    /\ Cancellable
    /\ c \in running
    /\ running' = running \ {c}
    /\ UNCHANGED <<inner, degraded, streak, probes, good, openFor>>

\* One unit of time passes.
Tick ==
    /\ inner.last_failure_age # Never
    /\ inner.last_failure_age < ResetTimeout \/ openFor < ResetTimeout
    /\ inner' = [inner EXCEPT !.last_failure_age = Saturate(@, ResetTimeout)]
    /\ openFor' = Saturate(openFor, ResetTimeout)
    /\ UNCHANGED <<running, degraded, streak, probes, good>>

\* Environment: the target becomes able to fail ...
Degrade ==
    /\ ~degraded
    /\ degraded' = TRUE
    /\ UNCHANGED <<inner, running, streak, probes, good, openFor>>

\* ... and recovers.
Heal ==
    /\ degraded
    /\ degraded' = FALSE
    /\ UNCHANGED <<inner, running, streak, probes, good, openFor>>

Next ==
    \/ \E c \in Callers :
         \/ Admit(c) \/ Reject(c)
         \/ Succeed(c) \/ TimeOut(c) \/ Cancel(c)
         \/ \E e \in Errors : ReturnError(c, e)
    \/ Tick
    \/ Degrade
    \/ Heal

Spec == Init /\ [][Next]_vars

-----------------------------------------------------------------------------
(* Properties *)

\* Type invariant of the breaker and of the history kept about it.
TypeOK ==
    /\ inner \in Inner
    /\ inner.half_open_calls < CounterMod
    /\ inner.last_failure_age \in Never .. ResetTimeout
    /\ running \subseteq Callers
    /\ degraded \in BOOLEAN
    /\ streak \in 0 .. Trip
    /\ probes \in 0 .. Budget + 1
    /\ good \in 0 .. Recovery
    /\ openFor \in 0 .. ResetTimeout

\* "Closed -> Open: after `failure_threshold` consecutive failures", never
\* later: a closed circuit has not seen that many failures in a row, whichever
\* callers recorded them and whatever happened in earlier episodes.
TripsInTime == inner.state = "Closed" => streak < Trip

\* ... and never earlier: a success or an application error recorded by any
\* caller in between starts the count again.
TripsOnlyOnStreak ==
    [][inner.state = "Closed" /\ inner'.state = "Open" => streak' = Trip]_vars

\* Open means fail fast: no call reaches the target until reset_timeout has
\* passed since the circuit opened, however many late outcomes arrive.
FailsFast ==
    [][inner.state = "Open" /\ openFor < ResetTimeout
            => running' \subseteq running]_vars

\* The window is measured from the moment the circuit opened: when it has
\* passed, the next caller is admitted and the health probe no longer reports
\* the target as failing (is_fast_failing), whatever late failures arrived.
OpenWindowIsExact ==
    inner.state = "Open" =>
        /\ Allows(inner) <=> openFor >= ResetTimeout
        /\ is_fast_failing(inner) <=> openFor < ResetTimeout

\* One half-open episode lets at most half_open_max_calls calls (and always
\* the one that started it) reach the target, however many callers race.
ProbeBudget == inner.state = "HalfOpen" => probes <= Budget

\* "HalfOpen -> Closed: after `success_threshold` successes": the circuit closes
\* only when that many successes were recorded since it became half-open, with
\* no failure in between; application errors do not count.
ClosesOnlyOnRecovery ==
    [][inner.state = "HalfOpen" /\ inner'.state = "Closed"
            => good' = Recovery]_vars

\* The breaker is a Gate.  What is left of the window is read off the age of
\* the last failure; the calls of a half-open episode that were rejected are
\* counted with the probes, beyond the budget.
GatePhase ==
    CASE inner.state = "Closed" -> "closed"
      [] inner.state = "Open" -> "open"
      [] inner.state = "HalfOpen" -> "trial"

Left == IF inner.state = "Open" THEN ResetTimeout - inner.last_failure_age ELSE 0

Spent == IF inner.half_open_calls < Budget THEN inner.half_open_calls ELSE Budget

G == INSTANCE Gate WITH
        Window <- ResetTimeout, phase <- GatePhase, wait <- Left, spent <- Spent

\* Every step of the callers, the clock and the target is a step of the Gate or
\* none at all: late outcomes, rejections, cancelled calls and timeouts do
\* nothing to it that a reader of Gate would not expect.
ImplementsGate == G!Spec

\* The inductive invariant behind the safety properties.  Each part ties one
\* counter of the breaker to the history it stands for, in the state in which
\* the breaker reads it; the counters are garbage in the other states.
StreakCounted == inner.state = "Closed" => inner.failure_count = streak

WindowDated == inner.state = "Open" => inner.last_failure_age = openFor

SuccessesCounted ==
    inner.state = "HalfOpen" => inner.success_count = good /\ good < Recovery

ProbesCounted == inner.state = "HalfOpen" => probes <= inner.half_open_calls

IInv ==
    /\ TypeOK
    /\ StreakCounted
    /\ TripsInTime
    /\ WindowDated
    /\ SuccessesCounted

\* The part that needs a counter that does not wrap within an episode.
BudgetInv == ProbesCounted /\ ProbeBudget

\* A half-open episode begins with a call.
Started == inner.state = "HalfOpen" => inner.half_open_calls >= 1

\* half_open_max_calls is the "maximum concurrent requests allowed in half-open
\* state": with no call in flight a half-open breaker has room for a probe.
IdleHalfOpenAdmits ==
    inner.state = "HalfOpen" /\ running = {} /\ HalfOpenMaxCalls > 0
        => Allows(inner)
=============================================================================
