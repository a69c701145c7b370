----------------------------- MODULE GateProofs -----------------------------
(***************************************************************************)
(* The circuit breaker implements Gate, for any number of callers and any  *)
(* thresholds, as long as its call counter does not wrap within a half-    *)
(* open episode.                                                           *)
(***************************************************************************)
EXTENDS CircuitBreakerProofs

USE DEF Never, CircuitState

\* What the mapping reads, and the types it needs.
LEMMA Mapped ==
    ASSUME IInv
    PROVE  /\ inner \in Inner /\ inner.half_open_calls \in Nat
           /\ inner.half_open_calls < CounterMod
           /\ inner.last_failure_age \in -1 .. ResetTimeout
           /\ inner.state = "Open" => inner.last_failure_age >= 0
           /\ inner.state \in {"Closed", "Open", "HalfOpen"}
  BY ThresholdAssumption DEF IInv, TypeOK, Inner, WindowDated

\* A step that leaves state, count and age alone leaves the gate alone.
LEMMA SameGate ==
    ASSUME inner'.state = inner.state,
           inner'.half_open_calls = inner.half_open_calls,
           inner'.last_failure_age = inner.last_failure_age
    PROVE  UNCHANGED <<GatePhase, Left, Spent>>
  BY DEF GatePhase, Left, Spent

\* An admitted call passes the gate.
LEMMA AdmitPasses ==
    ASSUME IInv, Started, MaxHalfOpenCalls < CounterMod,
           NEW c \in Callers, Admit(c)
    PROVE  G!Pass(c) /\ Started'
  <1> USE BoundTypes, ThresholdAssumption, CounterAssumption, WidthAssumption
  <1>0. /\ c \notin running /\ running' = running \cup {c}
        /\ Allows(inner) /\ inner' = should_allow(inner)
        /\ inner.state = "HalfOpen" => inner.half_open_calls < MaxHalfOpenCalls
    BY DEF Admit
  <1>1. CASE inner.state = "Open" /\ ResetElapsed(inner)
             /\ should_allow(inner)
                  = [transition_to_half_open(inner) EXCEPT !.half_open_calls = Count(0)]
    <2>1. inner'.state = "HalfOpen" /\ inner'.half_open_calls = 1
      <3>1. Count(0) = 1
        BY CountType
      <3>2. QED
        BY <1>0, <1>1, <3>1, Mapped, ToHalfOpen DEF Inner
    <2>2. GatePhase = "open" /\ Left = 0
      BY <1>1, Mapped DEF GatePhase, Left, ResetElapsed
    <2>3. GatePhase' = "trial" /\ Left' = 0 /\ Spent' = 1
      BY <2>1 DEF GatePhase, Left, Spent
    <2>4. QED
      BY <1>0, <2>1, <2>2, <2>3 DEF G!Pass, Started
  <1>2. CASE inner.state = "HalfOpen"
             /\ should_allow(inner) = [inner EXCEPT !.half_open_calls = Count(@)]
    <2>1. /\ inner'.state = "HalfOpen"
          /\ inner'.half_open_calls = Count(inner.half_open_calls)
      BY <1>0, <1>2, HalfOpenCounted
    <2>2. inner'.half_open_calls = inner.half_open_calls + 1
      BY <1>0, <1>2, <2>1, Mapped, CountType
    <2>3. inner.half_open_calls < Budget
      BY <1>0, <1>2, Mapped DEF Allows
    <2>4. GatePhase = "trial" /\ Left = 0 /\ Spent < Budget
      BY <1>2, <2>3 DEF GatePhase, Left, Spent
    <2>5. GatePhase' = "trial" /\ Left' = 0 /\ Spent' = Spent + 1
      BY <2>1, <2>2, <2>3, Mapped DEF GatePhase, Left, Spent
    <2>6. QED
      BY <1>0, <2>1, <2>2, <2>4, <2>5, Mapped DEF G!Pass, Started
  <1>3. CASE (inner.state = "Closed" \/ (inner.state = "Open" /\ ~ResetElapsed(inner)))
             /\ should_allow(inner) = inner
    <2>1. inner.state = "Closed" /\ inner' = inner
      BY <1>0, <1>3 DEF Allows
    <2>2. GatePhase = "closed" /\ UNCHANGED <<GatePhase, Left, Spent>>
      BY <2>1, SameGate DEF GatePhase
    <2>3. QED
      BY <1>0, <2>1, <2>2 DEF G!Pass, Started
  <1>4. QED
    BY <1>1, <1>2, <1>3, Mapped, ShouldAllow

\* A rejected call does not show at the gate: it is counted beyond the budget.
LEMMA RejectStutters ==
    ASSUME IInv, Started, MaxHalfOpenCalls < CounterMod,
           NEW c \in Callers, Reject(c)
    PROVE  UNCHANGED <<GatePhase, Left, Spent, running>> /\ Started'
  <1> USE BoundTypes, ThresholdAssumption, CounterAssumption, WidthAssumption
  <1>0. /\ ~Allows(inner) /\ inner' = should_allow(inner) /\ UNCHANGED running
        /\ inner.state = "HalfOpen" => inner.half_open_calls < MaxHalfOpenCalls
    BY DEF Reject
  <1>1. CASE inner.state = "HalfOpen"
             /\ should_allow(inner) = [inner EXCEPT !.half_open_calls = Count(@)]
    <2>1. /\ inner'.state = "HalfOpen"
          /\ inner'.half_open_calls = Count(inner.half_open_calls)
      BY <1>0, <1>1, HalfOpenCounted
    <2>2. inner'.half_open_calls = inner.half_open_calls + 1
      BY <1>0, <1>1, <2>1, Mapped, CountType
    <2>3. inner.half_open_calls >= Budget
      BY <1>0, <1>1, Mapped DEF Allows, Started
    <2>4. Spent' = Spent
      BY <2>2, <2>3, Mapped DEF Spent
    <2>5. QED
      BY <1>0, <1>1, <2>1, <2>2, <2>4, Mapped DEF GatePhase, Left, Started
  <1>2. CASE should_allow(inner) = inner
    BY <1>0, <1>2, SameGate DEF Started
  <1>3. QED
    BY <1>0, <1>1, <1>2, Mapped, ShouldAllow DEF Allows

\* The end of a call opens the gate, closes it, or leaves it as it is.
LEMMA FailEnds ==
    ASSUME IInv, Started, NEW c \in Callers, Fail(c)
    PROVE  G!End(c) /\ Started'
  <1> USE BoundTypes, ThresholdAssumption
  <1>0. c \in running /\ running' = running \ {c} /\ inner' = record_failure(inner)
    BY DEF Fail
  <1>1. CASE inner.state # "Open" /\ inner' = transition_to_open(inner)
    <2>1. /\ inner'.state = "Open" /\ inner'.half_open_calls = 0
          /\ inner'.last_failure_age = 0
      BY <1>1 DEF transition_to_open
    <2>2. GatePhase # "open"
      BY <1>1, Mapped DEF GatePhase
    <2>3. GatePhase' = "open" /\ Left' = ResetTimeout /\ Spent' = 0
      BY <2>1 DEF GatePhase, Left, Spent
    <2>4. QED
      BY <1>0, <2>1, <2>2, <2>3 DEF G!End, G!Opens, Started
  <1>2. CASE \/ inner' = [inner EXCEPT !.failure_count = @ + 1]
             \/ inner' = inner
    <2>1. /\ inner'.state = inner.state
          /\ inner'.half_open_calls = inner.half_open_calls
          /\ inner'.last_failure_age = inner.last_failure_age
      BY <1>2, Mapped DEF Inner
    <2>2. QED
      BY <1>0, <2>1, SameGate DEF G!End, Started
  <1>3. QED
    BY <1>0, <1>1, <1>2, Mapped, RecordFailure

LEMMA SucceedEnds ==
    ASSUME IInv, Started, NEW c \in Callers, Succeed(c)
    PROVE  G!End(c) /\ Started'
  <1> USE BoundTypes, ThresholdAssumption
  <1>0. c \in running /\ running' = running \ {c} /\ inner' = record_success(inner)
    BY DEF Succeed
  <1>1. CASE inner.state = "HalfOpen" /\ inner' = transition_to_closed(inner)
    <2>1. inner'.state = "Closed" /\ inner'.half_open_calls = 0
      BY <1>1, Mapped, ToClosed
    <2>2. GatePhase = "trial" /\ Left = 0
      BY <1>1 DEF GatePhase, Left
    <2>3. GatePhase' = "closed" /\ Left' = 0 /\ Spent' = 0
      BY <2>1 DEF GatePhase, Left, Spent
    <2>4. QED
      BY <1>0, <2>1, <2>2, <2>3 DEF G!End, G!Closes, Started
  <1>2. CASE \/ inner' = [inner EXCEPT !.failure_count = 0]
             \/ inner' = [inner EXCEPT !.success_count = @ + 1]
             \/ inner' = inner
    <2>1. /\ inner'.state = inner.state
          /\ inner'.half_open_calls = inner.half_open_calls
          /\ inner'.last_failure_age = inner.last_failure_age
      BY <1>2, Mapped DEF Inner
    <2>2. QED
      BY <1>0, <2>1, SameGate DEF G!End, Started
  <1>3. QED
    BY <1>0, <1>1, <1>2, Mapped, RecordSuccess

\* An application error, or a dropped caller: the call is over, no more.
LEMMA QuietEnd ==
    ASSUME IInv, Started, NEW c \in Callers,
           \/ Cancel(c)
           \/ \E e \in Errors : e \notin Failures /\ ReturnError(c, e)
    PROVE  G!End(c) /\ Started'
  <1>1. /\ c \in running /\ running' = running \ {c}
        /\ inner' = inner \/ inner' = record_neutral(inner)
    BY DEF Cancel, ReturnError
  <1>2. /\ inner'.state = inner.state
        /\ inner'.half_open_calls = inner.half_open_calls
        /\ inner'.last_failure_age = inner.last_failure_age
    BY <1>1, Mapped DEF record_neutral, Inner
  <1>3. QED
    BY <1>1, <1>2, SameGate DEF G!End, Started

\* Time runs the window down, and does nothing to a gate that is not open.
LEMMA TickWaits ==
    ASSUME IInv, Started, Tick
    PROVE  (G!Wait \/ UNCHANGED <<GatePhase, Left, Spent, running>>) /\ Started'
  <1> USE ThresholdAssumption
  <1>1. /\ UNCHANGED running
        /\ inner'.state = inner.state
        /\ inner'.half_open_calls = inner.half_open_calls
        /\ inner'.last_failure_age = Saturate(inner.last_failure_age, ResetTimeout)
    BY Mapped DEF Tick, Inner
  <1>2. GatePhase' = GatePhase /\ Spent' = Spent /\ Started'
    BY <1>1 DEF GatePhase, Spent, Started
  <1>3. CASE inner.state = "Open"
    <2>1. inner.last_failure_age \in 0 .. ResetTimeout - 1
      BY <1>3, Mapped DEF Tick, IInv, WindowDated, TypeOK
    <2>2. inner'.last_failure_age = inner.last_failure_age + 1
      BY <1>1, <2>1 DEF Saturate
    <2>3. GatePhase = "open" /\ Left > 0 /\ Left' = Left - 1
      BY <1>1, <1>3, <2>1, <2>2 DEF GatePhase, Left
    <2>4. QED
      BY <1>1, <1>2, <2>3 DEF G!Wait
  <1>4. CASE inner.state # "Open"
    BY <1>1, <1>2, <1>4 DEF Left
  <1>5. QED
    BY <1>3, <1>4

\* Every step of the breaker is a step of the gate, or none.
LEMMA StepIsGateStep ==
    ASSUME IInv, Started, MaxHalfOpenCalls < CounterMod, [Next]_vars
    PROVE  [G!Next]_(G!vars) /\ Started'
  <1>1. ASSUME NEW c \in Callers, Admit(c)
        PROVE  G!Next /\ Started'
    BY <1>1, AdmitPasses DEF G!Next
  <1>2. ASSUME NEW c \in Callers, Reject(c)
        PROVE  UNCHANGED G!vars /\ Started'
    BY <1>2, RejectStutters DEF G!vars
  <1>3. ASSUME NEW c \in Callers, Succeed(c)
        PROVE  G!Next /\ Started'
    BY <1>3, SucceedEnds DEF G!Next
  <1>4. ASSUME NEW c \in Callers, Fail(c)
        PROVE  G!Next /\ Started'
    BY <1>4, FailEnds DEF G!Next
  <1>5. ASSUME NEW c \in Callers, NEW e \in Errors, ReturnError(c, e)
        PROVE  G!Next /\ Started'
    <2>1. CASE e \in Failures
      BY <1>4, <1>5, <2>1 DEF ReturnError
    <2>2. CASE e \notin Failures
      BY <1>5, <2>2, QuietEnd DEF G!Next
    <2>3. QED
      BY <2>1, <2>2
  <1>6. ASSUME NEW c \in Callers, Cancel(c)
        PROVE  G!Next /\ Started'
    BY <1>6, QuietEnd DEF G!Next
  <1>7. ASSUME Tick
        PROVE  [G!Next]_(G!vars) /\ Started'
    BY <1>7, TickWaits DEF G!Next, G!vars
  <1>8. ASSUME Degrade \/ Heal \/ UNCHANGED vars
        PROVE  UNCHANGED G!vars /\ Started'
    <2>1. UNCHANGED <<inner, running>>
      BY <1>8 DEF Degrade, Heal, vars
    <2>2. QED
      BY <2>1, SameGate DEF G!vars, Started
  <1>9. QED
    BY <1>1, <1>2, <1>3, <1>4, <1>5, <1>6, <1>7, <1>8 DEF Next, TimeOut

\* The breaker implements the gate: whatever the callers, the clock and the
\* target do, nothing happens at the breaker that Gate does not allow.
THEOREM ImplementsGateHolds ==
    ASSUME MaxHalfOpenCalls < CounterMod
    PROVE  Spec => ImplementsGate
  <1>1. Init => G!Init /\ Started
    <2> SUFFICES ASSUME Init PROVE G!Init /\ Started
      OBVIOUS
    <2>1. inner.state = "Closed" /\ inner.half_open_calls = 0 /\ running = {}
      BY DEF Init, New
    <2>2. QED
      BY <2>1, BoundTypes DEF G!Init, GatePhase, Left, Spent, Started
  <1>2. IInv /\ Started /\ [Next]_vars => [G!Next]_(G!vars) /\ Started'
    BY StepIsGateStep
  <1>3. QED
    BY <1>1, <1>2, Invariance, PTL DEF Spec, ImplementsGate, G!Spec
=============================================================================
