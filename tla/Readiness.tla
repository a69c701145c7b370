----------------------------- MODULE Readiness ------------------------------
(***************************************************************************)
(* The registry of circuit breakers (src/src/circuit_breaker/registry.rs), *)
(* the guarded clients that look their breaker up in it (http_client.rs,   *)
(* database.rs), and the readiness probe that looks at the database's      *)
(* breaker without taking part in it (setup_readiness,                     *)
(* src/src/fluent/features.rs).                                            *)
(*                                                                         *)
(* An Arc<CircuitBreakerState> is an index into `arcs`.  A client keeps    *)
(* the Arc it looked up across the await of the guarded call.              *)
(***************************************************************************)
EXTENDS BreakerState, Sequences, FiniteSets, SequencesExt

CONSTANTS
    Targets,         \* names of targets, "database" among them
    Configured,      \* the ones with a section in the configuration
    Callers,         \* tasks of the application that make guarded calls
    Serves,          \* function on Callers: the target each of them calls
    Outcomes,        \* what a guarded call may come to
    MaxHalfOpenCalls \* bound: should_allow calls in one half-open episode

ASSUME RegistryAssumption ==
    /\ "database" \in Targets /\ Configured \subseteq Targets
    /\ IsFiniteSet(Configured)
    /\ Serves \in [Callers -> Targets]
    /\ Outcomes \subseteq {"ok", "failure", "neutral"}

VARIABLES
    arcs,     \* the breakers ever created
    breakers, \* CircuitBreakerRegistry::breakers: target -> index into arcs, or 0
    call,     \* caller -> [pc, arc]: where it is, and the breaker it holds
    degraded, \* environment: the targets that are able to fail
    accepts,  \* does the application's readiness check say Ready?
    probe,    \* where the readiness handler is
    answer,   \* what the last probe was told
    streak,   \* history: target -> failures since its last other outcome
    failed    \* history: targets that have ever failed

calling == <<arcs, breakers, call, streak, failed>>
probing == <<probe, answer>>
vars == <<calling, degraded, accepts, probing>>

NoBreaker == 0
Idle == [pc |-> "idle", arc |-> NoBreaker]

-----------------------------------------------------------------------------
\* CircuitBreakerRegistry::new creates the breakers of the configured targets.
Registered == SetToSeq(Configured)

Init ==
    /\ arcs = [i \in 1..Len(Registered) |-> New]
    /\ breakers = [t \in Targets |->
                     IF t \in Configured
                     THEN CHOOSE i \in DOMAIN Registered : Registered[i] = t
                     ELSE NoBreaker]
    /\ call = [c \in Callers |-> Idle]
    /\ degraded = {} /\ accepts = TRUE
    /\ probe = "idle" /\ answer = "none"
    /\ streak = [t \in Targets |-> 0] /\ failed = {}

\* Defective variants: the new breaker is not kept; all targets share one.
GetOrDefaultUnkept(t, i) ==
    \/ breakers[t] # NoBreaker /\ i = breakers[t] /\ UNCHANGED <<arcs, breakers>>
    \/ /\ breakers[t] = NoBreaker /\ i = Len(arcs) + 1
       /\ arcs' = Append(arcs, New) /\ UNCHANGED breakers

GetOrDefaultShared(t, i) ==
    \/ breakers[t] # NoBreaker /\ i = breakers[t] /\ UNCHANGED <<arcs, breakers>>
    \/ /\ breakers[t] = NoBreaker /\ i = 1
       /\ breakers' = [breakers EXCEPT ![t] = i] /\ UNCHANGED arcs

\* CircuitBreakerRegistry::get_or_default, under the lock of the map's entry:
\* i is the breaker of target t, which is created if it is not there.
get_or_default(t, i) ==
    \/ breakers[t] # NoBreaker /\ i = breakers[t] /\ UNCHANGED <<arcs, breakers>>
    \/ /\ breakers[t] = NoBreaker /\ i = Len(arcs) + 1
       /\ arcs' = Append(arcs, New) /\ breakers' = [breakers EXCEPT ![t] = i]

\* A client looks its breaker up ...
LookUp(c) ==
    /\ call[c].pc = "idle"
    /\ \E i \in 1..(Len(arcs) + 1) :
          /\ get_or_default(Serves[c], i)
          /\ call' = [call EXCEPT ![c] = [pc |-> "looked", arc |-> i]]
    /\ UNCHANGED <<degraded, accepts, probing, streak, failed>>

\* GuardedPool::query, GuardedHttpClient::request
query(c) == Serves[c] = "database" /\ LookUp(c)
request(c) == Serves[c] # "database" /\ LookUp(c)

\* ... asks it, and goes on to the call or returns CircuitOpen.
Ask(c) ==
    LET g == arcs[call[c].arc]
    IN  /\ call[c].pc = "looked"
        /\ g.state = "HalfOpen" => g.half_open_calls < MaxHalfOpenCalls
        /\ arcs' = [arcs EXCEPT ![call[c].arc] = should_allow(g)]
        /\ call' = [call EXCEPT ![c] = IF Allows(g) THEN [@ EXCEPT !.pc = "running"] ELSE Idle]
        /\ UNCHANGED <<breakers, degraded, accepts, probing, streak, failed>>

Recorded(outcome, g) ==
    CASE outcome = "ok" -> record_success(g)
      [] outcome = "neutral" -> record_neutral(g)
      [] outcome = "failure" -> record_failure(g)

\* The call is over; the outcome goes to the breaker the caller holds.
End(c) ==
    /\ call[c].pc = "running"
    /\ \E outcome \in Outcomes :
          /\ outcome = "failure" => Serves[c] \in degraded
          /\ arcs' = [arcs EXCEPT ![call[c].arc] = Recorded(outcome, @)]
          /\ streak' = [streak EXCEPT ![Serves[c]] =
                          IF outcome = "failure" THEN Saturate(@, Trip) ELSE 0]
          /\ failed' = IF outcome = "failure" THEN failed \union {Serves[c]} ELSE failed
    /\ call' = [call EXCEPT ![c] = Idle]
    /\ UNCHANGED <<breakers, degraded, accepts, probing>>

-----------------------------------------------------------------------------
\* The readiness handler.  First the application's own check, if there is one:
CheckApplication ==
    /\ probe = "idle"
    /\ \/ accepts /\ probe' = "peek" /\ UNCHANGED answer
       \/ ~accepts /\ answer' = "503" /\ UNCHANGED probe
    /\ UNCHANGED <<calling, degraded, accepts>>

\* Defective variants: the probe asks for the state, whatever the window; the
\* probe is admitted like a call.
PeekState ==
    /\ probe = "peek"
    /\ \E i \in 1..(Len(arcs) + 1) :
          /\ get_or_default("database", i)
          /\ \/ arcs'[i].state = "Open" /\ answer' = "503" /\ probe' = "idle"
             \/ arcs'[i].state # "Open" /\ probe' = "query" /\ UNCHANGED answer
    /\ UNCHANGED <<call, degraded, accepts, streak, failed>>

PeekAdmitted ==
    LET i == breakers["database"]
    IN  /\ probe = "peek" /\ i # NoBreaker
        /\ arcs[i].state = "HalfOpen" => arcs[i].half_open_calls < MaxHalfOpenCalls
        /\ arcs' = [arcs EXCEPT ![i] = should_allow(@)]
        /\ \/ ~Allows(arcs[i]) /\ answer' = "503" /\ probe' = "idle"
           \/ Allows(arcs[i]) /\ probe' = "query" /\ UNCHANGED answer
        /\ UNCHANGED <<breakers, call, degraded, accepts, streak, failed>>

\* then a look at the database's breaker, which leaves it as it is,
Peek ==
    /\ probe = "peek"
    /\ \E i \in 1..(Len(arcs) + 1) :
          /\ get_or_default("database", i)
          /\ \/ is_fast_failing(arcs'[i]) /\ answer' = "503" /\ probe' = "idle"
             \/ ~is_fast_failing(arcs'[i]) /\ probe' = "query" /\ UNCHANGED answer
    /\ UNCHANGED <<call, degraded, accepts, streak, failed>>

\* then SELECT 1 on the pool itself, outside the breaker.
SelectOne ==
    /\ probe = "query" /\ probe' = "idle"
    /\ \/ answer' = "200"
       \/ "database" \in degraded /\ answer' = "503"
    /\ UNCHANGED <<calling, degraded, accepts>>

-----------------------------------------------------------------------------
\* One unit of time passes for every breaker that waits.
Tick ==
    /\ \E i \in DOMAIN arcs : arcs[i].last_failure_age \in 0..(ResetTimeout - 1)
    /\ arcs' = [i \in DOMAIN arcs |->
                  IF arcs[i].last_failure_age = Never THEN arcs[i]
                  ELSE [arcs[i] EXCEPT !.last_failure_age = Saturate(@, ResetTimeout)]]
    /\ UNCHANGED <<breakers, call, degraded, accepts, probing, streak, failed>>

\* Environment: targets fail and recover, the application sheds load.
Degrade ==
    /\ \E t \in Targets : degraded' = (degraded \ {t}) \union ({t} \ degraded)
    /\ UNCHANGED <<calling, accepts, probing>>

Shed == accepts' = ~accepts /\ UNCHANGED <<calling, degraded, probing>>

Next ==
    \/ \E c \in Callers : query(c) \/ request(c) \/ Ask(c) \/ End(c)
    \/ CheckApplication \/ Peek \/ SelectOne
    \/ Tick \/ Degrade \/ Shed

\* The orchestrator keeps probing, SELECT 1 ends (a healthy database answers it,
\* the request timeout is outside the probe) and the clock advances.  The application need not call anything.
Fairness == WF_vars(CheckApplication \/ Peek \/ SelectOne) /\ WF_vars(Tick)

Spec == Init /\ [][Next]_vars /\ Fairness

\* The callers of the database come back and their calls end.
Traffic ==
    \A c \in Callers : Serves[c] = "database" => WF_vars(query(c) \/ Ask(c) \/ End(c))

-----------------------------------------------------------------------------
\* Every breaker is well-formed and every handle names one.
TypeOK ==
    /\ arcs \in Seq(Inner)
    /\ breakers \in [Targets -> 0..Len(arcs)]
    /\ call \in [Callers -> [pc : {"idle", "looked", "running"}, arc : 0..Len(arcs)]]
    /\ \A c \in Callers : call[c].pc = "idle" <=> call[c].arc = NoBreaker
    /\ degraded \subseteq Targets /\ failed \subseteq Targets /\ accepts \in BOOLEAN
    /\ probe \in {"idle", "peek", "query"} /\ answer \in {"none", "200", "503"}
    /\ streak \in [Targets -> 0..Trip]

\* All who call a target share its breaker, though each looks it up by itself
\* and the first may create it: failure_threshold failures of a target in a
\* row, whoever saw them, leave no closed circuit for it.
TripsPerTarget ==
    \A t \in Targets :
        streak[t] = Trip => breakers[t] # NoBreaker /\ arcs[breakers[t]].state # "Closed"

\* "Different targets have independent circuit breakers": whatever happens to
\* the others, a target that never failed is never refused a call.
Independent ==
    \A t \in Targets \ failed :
        breakers[t] # NoBreaker => arcs[breakers[t]].state = "Closed"

-----------------------------------------------------------------------------
\* The inductive invariant.  No two targets have one breaker; a client holds the
\* breaker its target is registered with; and while that is closed, it has
\* counted the failures of its target, of all its clients and no other's.
OneBreakerEach ==
    \A t, u \in Targets : breakers[t] = breakers[u] /\ breakers[t] # NoBreaker => t = u

HoldsItsOwn ==
    \A c \in Callers : call[c].pc # "idle" => call[c].arc = breakers[Serves[c]]

StreakCounted ==
    \A t \in Targets :
        /\ breakers[t] = NoBreaker => streak[t] = 0
        /\ breakers[t] # NoBreaker /\ arcs[breakers[t]].state = "Closed" =>
              arcs[breakers[t]].failure_count = streak[t] /\ streak[t] < Trip

IInv == TypeOK /\ OneBreakerEach /\ HoldsItsOwn /\ StreakCounted /\ Independent

-----------------------------------------------------------------------------
\* Readiness comes back by itself once the database and the application are
\* well, "even if no other traffic is driving the breaker".
ReadyAgain ==
    <>[](accepts /\ "database" \notin degraded) => <>[](answer = "200")

\* Probing does not starve recovery traffic: with half_open_max_calls covering
\* success_threshold and calls that all end in success or failure, a database
\* that stays healthy gets its circuit closed, however often it is probed.
Recovers ==
    Traffic /\ <>[]("database" \notin degraded) =>
        <>[](breakers["database"] # NoBreaker => arcs[breakers["database"]].state = "Closed")
=============================================================================
