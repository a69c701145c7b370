------------------------- MODULE CircuitBreakerProofs -------------------------
(***************************************************************************)
(* Proofs of the safety properties of CircuitBreaker for any number of     *)
(* callers and any thresholds, window, errors and classifier.              *)
(***************************************************************************)
EXTENDS CircuitBreaker, TLAPS

USE DEF Never, CircuitState

\* What the history bounds are.
LEMMA BoundTypes ==
    /\ Trip \in Nat /\ Trip >= 1 /\ Trip >= FailureThreshold
    /\ Trip = FailureThreshold \/ Trip = 1
    /\ Recovery \in Nat /\ Recovery >= 1 /\ Recovery >= SuccessThreshold
    /\ Recovery = SuccessThreshold \/ Recovery = 1
    /\ Budget \in Nat /\ Budget >= 1 /\ Budget >= HalfOpenMaxCalls
    /\ Budget = HalfOpenMaxCalls \/ Budget = 1
  BY ConfigAssumption, ThresholdAssumption DEF Trip, Recovery, Budget, AtLeastOne

\* The initial state satisfies the inductive invariant.
LEMMA InitIInv == Init => IInv /\ BudgetInv
  <1> SUFFICES ASSUME Init PROVE IInv /\ BudgetInv
    OBVIOUS
  <1> USE BoundTypes, ConfigAssumption, ThresholdAssumption, WidthAssumption, CounterAssumption
  <1>1. inner \in Inner
    BY DEF Init, New, Inner
  <1>2. /\ inner.state = "Closed" /\ inner.failure_count = 0
        /\ inner.half_open_calls = 0 /\ inner.last_failure_age = -1
    BY DEF Init, New
  <1>3. degraded \in BOOLEAN
    BY DEF Init
  <1>4. TypeOK
    BY <1>1, <1>2, <1>3 DEF Init, TypeOK
  <1>5. QED
    BY <1>2, <1>4 DEF Init, IInv, StreakCounted, TripsInTime, WindowDated,
        SuccessesCounted, BudgetInv, ProbesCounted, ProbeBudget

\* The three transitions, field by field.
LEMMA ToOpen ==
    ASSUME NEW g \in Inner
    PROVE  /\ transition_to_open(g) \in Inner
           /\ transition_to_open(g).state = "Open"
           /\ transition_to_open(g).last_failure_age = 0
           /\ transition_to_open(g).half_open_calls = 0
  BY DEF transition_to_open, Inner

LEMMA ToHalfOpen ==
    ASSUME NEW g \in Inner, NEW n \in Nat
    PROVE  LET h == [transition_to_half_open(g) EXCEPT !.half_open_calls = n]
           IN  /\ h \in Inner
               /\ h.state = "HalfOpen"
               /\ h.success_count = 0
               /\ h.half_open_calls = n
               /\ h.last_failure_age = g.last_failure_age
  BY DEF transition_to_half_open, Inner

LEMMA ToClosed ==
    ASSUME NEW g \in Inner
    PROVE  /\ transition_to_closed(g) \in Inner
           /\ transition_to_closed(g).state = "Closed"
           /\ transition_to_closed(g).failure_count = 0
           /\ transition_to_closed(g).half_open_calls = 0
           /\ transition_to_closed(g).last_failure_age = g.last_failure_age
  BY DEF transition_to_closed, Inner

\* record_failure opens the circuit, counts the failure, or does nothing.
LEMMA RecordFailure ==
    ASSUME NEW g \in Inner
    PROVE  \/ /\ \/ g.state = "Closed" /\ g.failure_count + 1 >= FailureThreshold
                 \/ g.state = "HalfOpen"
              /\ record_failure(g) = transition_to_open(g)
           \/ /\ g.state = "Closed" /\ g.failure_count + 1 < FailureThreshold
              /\ record_failure(g) = [g EXCEPT !.failure_count = @ + 1]
           \/ /\ g.state = "Open"
              /\ record_failure(g) = g
  BY ConfigAssumption, ThresholdAssumption DEF record_failure, Inner

\* Recording a failure: the one way the circuit opens.
LEMMA FailStep ==
    ASSUME IInv, NEW c \in Callers, Fail(c)
    PROVE  IInv' /\ (BudgetInv => BudgetInv')
  <1> USE BoundTypes, ConfigAssumption, ThresholdAssumption, WidthAssumption, CounterAssumption
  <1>0. /\ inner \in Inner
        /\ running' \subseteq Callers
        /\ streak' \in 0 .. Trip
        /\ degraded' \in BOOLEAN
    BY DEF IInv, TypeOK, Fail, Saturate
  <1>1. CASE /\ inner.state # "Open"
             /\ inner' = transition_to_open(inner)
    <2>1. /\ inner' \in Inner
          /\ inner'.state = "Open"
          /\ inner'.last_failure_age = 0
          /\ inner'.half_open_calls = 0
      BY <1>0, <1>1, ToOpen
    <2>2. openFor' = 0
      BY <1>1, <2>1 DEF Fail, Opens
    <2>3. TypeOK'
      BY <1>0, <2>1, <2>2 DEF Fail, IInv, TypeOK
    <2>4. QED
      BY <2>1, <2>2, <2>3 DEF IInv, StreakCounted, TripsInTime, WindowDated,
          SuccessesCounted, BudgetInv, ProbesCounted, ProbeBudget
  <1>2. CASE /\ inner.state = "Closed"
             /\ inner.failure_count + 1 < FailureThreshold
             /\ inner' = [inner EXCEPT !.failure_count = @ + 1]
    <2>1. /\ inner' \in Inner
          /\ inner'.state = "Closed"
          /\ inner'.failure_count = inner.failure_count + 1
          /\ inner'.half_open_calls = inner.half_open_calls
          /\ inner'.last_failure_age = inner.last_failure_age
      BY <1>0, <1>2 DEF Inner
    <2>2. openFor' = openFor
      BY <1>2, <2>1 DEF Fail, Opens
    <2>3. streak' = inner'.failure_count /\ streak' < Trip
      BY <1>2, <2>1 DEF Fail, IInv, TypeOK, StreakCounted, Saturate
    <2>4. TypeOK'
      BY <1>0, <2>1, <2>2 DEF Fail, IInv, TypeOK
    <2>5. QED
      BY <2>1, <2>2, <2>3, <2>4 DEF IInv, StreakCounted, TripsInTime, WindowDated,
          SuccessesCounted, BudgetInv, ProbesCounted, ProbeBudget
  <1>3. CASE inner.state = "Open" /\ inner' = inner
    <2>1. openFor' = openFor
      BY <1>3 DEF Fail, Opens
    <2>2. TypeOK'
      BY <1>0, <1>3, <2>1 DEF Fail, IInv, TypeOK
    <2>3. QED
      BY <1>3, <2>1, <2>2 DEF IInv, StreakCounted, TripsInTime, WindowDated,
          SuccessesCounted, BudgetInv, ProbesCounted, ProbeBudget
  <1>4. QED
    BY <1>0, <1>1, <1>2, <1>3, RecordFailure DEF Fail

\* record_success closes the circuit, counts the success, clears the streak or
\* does nothing.
LEMMA RecordSuccess ==
    ASSUME NEW g \in Inner
    PROVE  \/ /\ g.state = "Closed"
              /\ record_success(g) = [g EXCEPT !.failure_count = 0]
           \/ /\ g.state = "HalfOpen" /\ g.success_count + 1 >= SuccessThreshold
              /\ record_success(g) = transition_to_closed(g)
           \/ /\ g.state = "HalfOpen" /\ g.success_count + 1 < SuccessThreshold
              /\ record_success(g) = [g EXCEPT !.success_count = @ + 1]
           \/ /\ g.state = "Open"
              /\ record_success(g) = g
  BY ConfigAssumption, ThresholdAssumption DEF record_success, Inner

\* Recording a success: the one way the circuit closes.
LEMMA SucceedStep ==
    ASSUME IInv, NEW c \in Callers, Succeed(c)
    PROVE  IInv' /\ (BudgetInv => BudgetInv')
  <1> USE BoundTypes, ConfigAssumption, ThresholdAssumption, WidthAssumption, CounterAssumption
  <1>0. /\ inner \in Inner
        /\ running' \subseteq Callers
        /\ streak' = 0
        /\ good' \in 0 .. Recovery
        /\ degraded' \in BOOLEAN
    BY DEF IInv, TypeOK, Succeed, Saturate
  <1>1. CASE /\ inner.state = "Closed"
             /\ inner' = [inner EXCEPT !.failure_count = 0]
    <2>1. /\ inner' \in Inner
          /\ inner'.state = "Closed"
          /\ inner'.failure_count = 0
          /\ inner'.half_open_calls = inner.half_open_calls
          /\ inner'.last_failure_age = inner.last_failure_age
      BY <1>0, <1>1 DEF Inner
    <2>2. TypeOK'
      BY <1>0, <2>1 DEF Succeed, IInv, TypeOK
    <2>3. QED
      BY <1>0, <2>1, <2>2 DEF IInv, StreakCounted, TripsInTime, WindowDated,
          SuccessesCounted, BudgetInv, ProbesCounted, ProbeBudget
  <1>2. CASE /\ inner.state = "HalfOpen"
             /\ inner' = transition_to_closed(inner)
    <2>1. /\ inner' \in Inner
          /\ inner'.state = "Closed"
          /\ inner'.failure_count = 0
          /\ inner'.half_open_calls = 0
          /\ inner'.last_failure_age = inner.last_failure_age
      BY <1>0, <1>2, ToClosed
    <2>2. TypeOK'
      BY <1>0, <2>1 DEF Succeed, IInv, TypeOK
    <2>3. QED
      BY <1>0, <2>1, <2>2 DEF IInv, StreakCounted, TripsInTime, WindowDated,
          SuccessesCounted, BudgetInv, ProbesCounted, ProbeBudget
  <1>3. CASE /\ inner.state = "HalfOpen"
             /\ inner.success_count + 1 < SuccessThreshold
             /\ inner' = [inner EXCEPT !.success_count = @ + 1]
    <2>1. /\ inner' \in Inner
          /\ inner'.state = "HalfOpen"
          /\ inner'.success_count = inner.success_count + 1
          /\ inner'.half_open_calls = inner.half_open_calls
          /\ inner'.last_failure_age = inner.last_failure_age
      BY <1>0, <1>3 DEF Inner
    <2>2. inner'.success_count = good' /\ good' < Recovery
      BY <1>3, <2>1 DEF Succeed, IInv, TypeOK, SuccessesCounted, Saturate
    <2>3. TypeOK'
      BY <1>0, <2>1 DEF Succeed, IInv, TypeOK
    <2>4. probes' = probes
      BY DEF Succeed
    <2>5. QED
      BY <1>3, <2>1, <2>2, <2>3, <2>4 DEF IInv, StreakCounted, TripsInTime,
          WindowDated, SuccessesCounted, BudgetInv, ProbesCounted, ProbeBudget
  <1>4. CASE inner.state = "Open" /\ inner' = inner
    <2>1. TypeOK'
      BY <1>0, <1>4 DEF Succeed, IInv, TypeOK
    <2>2. QED
      BY <1>4, <2>1 DEF Succeed, IInv, StreakCounted, TripsInTime, WindowDated,
          SuccessesCounted, BudgetInv, ProbesCounted, ProbeBudget
  <1>5. QED
    BY <1>0, <1>1, <1>2, <1>3, <1>4, RecordSuccess DEF Succeed

\* Recording an application error.
LEMMA NeutralStep ==
    ASSUME IInv, NEW c \in Callers, NEW e \in Errors, ReturnError(c, e),
           e \notin Failures
    PROVE  IInv' /\ (BudgetInv => BudgetInv')
  <1> USE BoundTypes, ConfigAssumption, ThresholdAssumption, WidthAssumption, CounterAssumption
  <1>0. /\ inner \in Inner
        /\ running' \subseteq Callers
        /\ streak' = 0
        /\ UNCHANGED <<degraded, probes, good, openFor>>
        /\ inner' = record_neutral(inner)
    BY DEF IInv, TypeOK, ReturnError
  <1>1. /\ inner' \in Inner
        /\ inner'.state = inner.state
        /\ inner'.state = "Closed" => inner'.failure_count = 0
        /\ inner'.success_count = inner.success_count
        /\ inner'.half_open_calls = inner.half_open_calls
        /\ inner'.last_failure_age = inner.last_failure_age
    BY <1>0 DEF record_neutral, Inner
  <1>2. TypeOK'
    BY <1>0, <1>1 DEF IInv, TypeOK
  <1>3. QED
    BY <1>0, <1>1, <1>2 DEF IInv, StreakCounted, TripsInTime, WindowDated,
        SuccessesCounted, BudgetInv, ProbesCounted, ProbeBudget

\* The call counter stays within its type, and counts up while it does not wrap.
LEMMA CountType ==
    ASSUME NEW n \in Nat, n < CounterMod
    PROVE  /\ Count(n) \in Nat /\ Count(n) < CounterMod
           /\ n + 1 < CounterMod => Count(n) = n + 1
           /\ Count(0) = 1
  BY WidthAssumption, CounterAssumption DEF Count

\* should_allow starts a half-open episode, counts a call in one, or does nothing.
LEMMA ShouldAllow ==
    ASSUME NEW g \in Inner
    PROVE  \/ /\ g.state = "Open" /\ ResetElapsed(g)
              /\ should_allow(g)
                   = [transition_to_half_open(g) EXCEPT !.half_open_calls = Count(0)]
           \/ /\ g.state = "HalfOpen"
              /\ should_allow(g) = [g EXCEPT !.half_open_calls = Count(@)]
           \/ /\ g.state = "Closed" \/ (g.state = "Open" /\ ~ResetElapsed(g))
              /\ should_allow(g) = g
  BY DEF should_allow, Inner

\* A call counted by a half-open breaker, admitted or not.
LEMMA HalfOpenCounted ==
    ASSUME IInv, inner.state = "HalfOpen",
           inner' = [inner EXCEPT !.half_open_calls = Count(@)]
    PROVE  /\ inner' \in Inner
           /\ inner'.state = "HalfOpen"
           /\ inner'.success_count = inner.success_count
           /\ inner'.half_open_calls = Count(inner.half_open_calls)
           /\ inner'.half_open_calls < CounterMod
           /\ inner'.last_failure_age = inner.last_failure_age
  <1>1. inner \in Inner /\ inner.half_open_calls < CounterMod
    BY DEF IInv, TypeOK
  <1>2. inner.half_open_calls \in Nat
    BY <1>1 DEF Inner
  <1>3. /\ Count(inner.half_open_calls) \in Nat
        /\ Count(inner.half_open_calls) < CounterMod
    BY <1>1, <1>2, CountType
  <1>4. QED
    BY <1>1, <1>3 DEF Inner

\* should_allow admits the caller: in a half-open episode, as a probe.
LEMMA AdmitStep ==
    ASSUME IInv, NEW c \in Callers, Admit(c)
    PROVE  IInv' /\ (MaxHalfOpenCalls < CounterMod /\ BudgetInv => BudgetInv')
  <1> USE BoundTypes, ConfigAssumption, ThresholdAssumption, WidthAssumption, CounterAssumption
  <1>0. /\ inner \in Inner
        /\ running' \subseteq Callers
        /\ UNCHANGED <<degraded, streak, openFor>>
        /\ inner' = should_allow(inner)
        /\ Allows(inner)
    BY DEF IInv, TypeOK, Admit
  <1>1. CASE /\ inner.state = "Open"
             /\ inner' = [transition_to_half_open(inner) EXCEPT !.half_open_calls = Count(0)]
    <2>1. /\ inner' \in Inner
          /\ inner'.state = "HalfOpen"
          /\ inner'.success_count = 0
          /\ inner'.half_open_calls = 1
          /\ inner'.last_failure_age = inner.last_failure_age
      BY <1>0, <1>1, ToHalfOpen, CountType
    <2>2. probes' = 1 /\ good' = 0
      BY <1>1 DEF Admit
    <2>3. TypeOK'
      BY <1>0, <2>1, <2>2 DEF IInv, TypeOK
    <2>4. QED
      BY <2>1, <2>2, <2>3 DEF IInv, StreakCounted, TripsInTime, WindowDated,
          SuccessesCounted, BudgetInv, ProbesCounted, ProbeBudget
  <1>2. CASE /\ inner.state = "HalfOpen"
             /\ inner' = [inner EXCEPT !.half_open_calls = Count(@)]
    <2>1. /\ inner' \in Inner
          /\ inner'.state = "HalfOpen"
          /\ inner'.success_count = inner.success_count
          /\ inner'.half_open_calls = Count(inner.half_open_calls)
          /\ inner'.half_open_calls < CounterMod
          /\ inner'.last_failure_age = inner.last_failure_age
      BY <1>2, HalfOpenCounted
    <2>2. /\ probes' = Saturate(probes, Budget + 1)
          /\ good' = good
      BY <1>2 DEF Admit
    <2>3. probes \in 0 .. Budget + 1 /\ probes' \in 0 .. Budget + 1
      BY <2>2 DEF Saturate, IInv, TypeOK
    <2>4. TypeOK'
      BY <1>0, <2>1, <2>2, <2>3 DEF IInv, TypeOK
    <2>5. IInv'
      BY <1>0, <1>2, <2>1, <2>2, <2>4 DEF IInv, StreakCounted, TripsInTime,
          WindowDated, SuccessesCounted
    <2>6. ASSUME MaxHalfOpenCalls < CounterMod, BudgetInv
          PROVE  BudgetInv'
      <3>1. /\ inner.half_open_calls \in Nat
            /\ inner.half_open_calls < HalfOpenMaxCalls
            /\ inner.half_open_calls < MaxHalfOpenCalls
        BY <1>0, <1>2 DEF Admit, Allows, Inner
      <3>2. Count(inner.half_open_calls) = inner.half_open_calls + 1
        BY <2>6, <3>1, CountType
      <3>3. probes <= inner.half_open_calls /\ probes <= Budget
        BY <1>2, <2>6 DEF BudgetInv, ProbesCounted, ProbeBudget
      <3>4. probes' <= probes + 1
        BY <2>2, <2>3 DEF Saturate
      <3>5. probes' <= inner'.half_open_calls /\ probes' <= Budget
        BY <2>1, <2>3, <3>1, <3>2, <3>3, <3>4
      <3>6. QED
        BY <3>5 DEF BudgetInv, ProbesCounted, ProbeBudget
    <2>7. QED
      BY <2>5, <2>6
  <1>3. CASE inner.state = "Closed" /\ inner' = inner
    <2>1. probes' = probes /\ good' = good
      BY <1>3 DEF Admit
    <2>2. TypeOK'
      BY <1>0, <1>3, <2>1 DEF IInv, TypeOK
    <2>3. QED
      BY <1>0, <1>3, <2>1, <2>2 DEF IInv, StreakCounted, TripsInTime, WindowDated,
          SuccessesCounted, BudgetInv, ProbesCounted, ProbeBudget
  <1>4. QED
    BY <1>0, <1>1, <1>2, <1>3, ShouldAllow DEF Allows

\* should_allow rejects the caller; a half-open breaker counts it all the same.
LEMMA RejectStep ==
    ASSUME IInv, NEW c \in Callers, Reject(c)
    PROVE  IInv' /\ (MaxHalfOpenCalls < CounterMod /\ BudgetInv => BudgetInv')
  <1> USE BoundTypes, ConfigAssumption, ThresholdAssumption, WidthAssumption, CounterAssumption
  <1>0. /\ inner \in Inner
        /\ UNCHANGED <<running, degraded, streak, probes, good, openFor>>
        /\ inner' = should_allow(inner)
        /\ ~Allows(inner)
    BY DEF IInv, TypeOK, Reject
  <1>1. CASE inner' = inner
    BY <1>0, <1>1 DEF IInv, TypeOK, StreakCounted, TripsInTime, WindowDated,
        SuccessesCounted, BudgetInv, ProbesCounted, ProbeBudget
  <1>2. CASE /\ inner.state = "HalfOpen"
             /\ inner' = [inner EXCEPT !.half_open_calls = Count(@)]
    <2>1. /\ inner' \in Inner
          /\ inner'.state = "HalfOpen"
          /\ inner'.success_count = inner.success_count
          /\ inner'.half_open_calls = Count(inner.half_open_calls)
          /\ inner'.half_open_calls < CounterMod
          /\ inner'.last_failure_age = inner.last_failure_age
      BY <1>2, HalfOpenCounted
    <2>2. TypeOK'
      BY <1>0, <2>1 DEF IInv, TypeOK
    <2>3. IInv'
      BY <1>0, <1>2, <2>1, <2>2 DEF IInv, StreakCounted, TripsInTime,
          WindowDated, SuccessesCounted
    <2>4. ASSUME MaxHalfOpenCalls < CounterMod, BudgetInv
          PROVE  BudgetInv'
      <3>1. /\ inner.half_open_calls \in Nat
            /\ inner.half_open_calls < MaxHalfOpenCalls
        BY <1>0, <1>2 DEF Reject, Inner
      <3>2. Count(inner.half_open_calls) = inner.half_open_calls + 1
        BY <2>4, <3>1, CountType
      <3>3. probes <= inner.half_open_calls /\ probes <= Budget /\ probes \in Nat
        BY <1>2, <2>4 DEF BudgetInv, ProbesCounted, ProbeBudget, IInv, TypeOK
      <3>4. QED
        BY <1>0, <2>1, <3>1, <3>2, <3>3 DEF BudgetInv, ProbesCounted, ProbeBudget
    <2>5. QED
      BY <2>3, <2>4
  <1>3. QED
    BY <1>0, <1>1, <1>2, ShouldAllow DEF Allows

\* The steps that record nothing: a dropped call, the clock, the target's health.
LEMMA SilentStep ==
    ASSUME IInv,
           \/ \E c \in Callers : Cancel(c)
           \/ Tick
           \/ Degrade \/ Heal
           \/ UNCHANGED vars
    PROVE  IInv' /\ (BudgetInv => BudgetInv')
  <1> USE BoundTypes, ConfigAssumption, ThresholdAssumption, WidthAssumption, CounterAssumption
  <1>1. CASE Tick
    <2>1. /\ inner \in Inner
          /\ inner.last_failure_age \in 0 .. ResetTimeout
          /\ openFor \in 0 .. ResetTimeout
      BY <1>1 DEF Tick, IInv, TypeOK
    <2>2. /\ Saturate(inner.last_failure_age, ResetTimeout) \in 0 .. ResetTimeout
          /\ Saturate(openFor, ResetTimeout) \in 0 .. ResetTimeout
      BY <2>1 DEF Saturate
    <2>3. /\ inner' \in Inner
          /\ inner'.state = inner.state
          /\ inner'.failure_count = inner.failure_count
          /\ inner'.success_count = inner.success_count
          /\ inner'.half_open_calls = inner.half_open_calls
          /\ inner'.last_failure_age = Saturate(inner.last_failure_age, ResetTimeout)
      BY <1>1, <2>1, <2>2 DEF Tick, Inner
    <2>4. /\ openFor' = Saturate(openFor, ResetTimeout)
          /\ UNCHANGED <<running, degraded, streak, probes, good>>
      BY <1>1 DEF Tick
    <2>5. TypeOK'
      BY <2>2, <2>3, <2>4 DEF IInv, TypeOK
    <2>6. QED
      BY <2>3, <2>4, <2>5 DEF IInv, StreakCounted, TripsInTime, WindowDated,
          SuccessesCounted, BudgetInv, ProbesCounted, ProbeBudget
  <1>2. CASE UNCHANGED <<inner, streak, probes, good, openFor>>
             /\ running' \subseteq Callers /\ degraded' \in BOOLEAN
    BY <1>2 DEF IInv, TypeOK, StreakCounted, TripsInTime, WindowDated,
        SuccessesCounted, BudgetInv, ProbesCounted, ProbeBudget
  <1>3. ASSUME NEW c \in Callers, Cancel(c)
        PROVE  UNCHANGED <<inner, streak, probes, good, openFor>>
               /\ running' \subseteq Callers /\ degraded' \in BOOLEAN
    BY <1>3 DEF Cancel, IInv, TypeOK
  <1>4. ASSUME Degrade \/ Heal
        PROVE  UNCHANGED <<inner, streak, probes, good, openFor>>
               /\ running' \subseteq Callers /\ degraded' \in BOOLEAN
    <2>1. degraded' \in BOOLEAN
      BY <1>4, Zenon DEF Degrade, Heal
    <2>2. QED
      BY <1>4, <2>1 DEF Degrade, Heal, IInv, TypeOK
  <1>5. ASSUME UNCHANGED vars
        PROVE  UNCHANGED <<inner, streak, probes, good, openFor>>
               /\ running' \subseteq Callers /\ degraded' \in BOOLEAN
    BY <1>5 DEF vars, IInv, TypeOK
  <1>6. QED
    BY <1>1, <1>2, <1>3, <1>4, <1>5

\* Every step preserves the inductive invariant; the probe budget too, as long
\* as the call counter cannot wrap within one episode.
LEMMA NextIInv ==
    ASSUME IInv, [Next]_vars
    PROVE  IInv' /\ (MaxHalfOpenCalls < CounterMod /\ BudgetInv => BudgetInv')
  <1>1. ASSUME NEW c \in Callers, NEW e \in Errors, ReturnError(c, e)
        PROVE  IInv' /\ (BudgetInv => BudgetInv')
    <2>1. CASE e \in Failures
      <3>1. Fail(c)
        BY <1>1, <2>1 DEF ReturnError
      <3>2. QED
        BY <3>1, FailStep
    <2>2. CASE e \notin Failures
      BY <1>1, <2>2, NeutralStep
    <2>3. QED
      BY <2>1, <2>2
  <1>2. ASSUME NEW c \in Callers, TimeOut(c)
        PROVE  IInv' /\ (BudgetInv => BudgetInv')
    BY <1>2, FailStep DEF TimeOut
  <1>3. QED
    BY <1>1, <1>2, AdmitStep, RejectStep, SucceedStep, SilentStep DEF Next

\* The inductive invariant holds throughout: type correctness, and what each
\* counter of the breaker means in the state that reads it.
THEOREM Invariance == Spec => []IInv
  <1>1. Init => IInv
    BY InitIInv
  <1>2. IInv /\ [Next]_vars => IInv'
    BY NextIInv
  <1>3. QED
    BY <1>1, <1>2, PTL DEF Spec

\* Types: `Inner`, its u32 counters within their width, and the history.
THEOREM TypeCorrect == Spec => []TypeOK
  <1>1. IInv => TypeOK
    BY DEF IInv
  <1>2. QED
    BY <1>1, Invariance, PTL

\* Closed -> Open is never late: no closed circuit has seen failure_threshold
\* failures in a row.
THEOREM TripsInTimeHolds == Spec => []TripsInTime
  <1>1. IInv => TripsInTime
    BY DEF IInv
  <1>2. QED
    BY <1>1, Invariance, PTL

\* The open window is measured from the opening, for admission and for the
\* health probe alike.
THEOREM OpenWindowIsExactHolds == Spec => []OpenWindowIsExact
  <1>1. IInv => OpenWindowIsExact
    BY ConfigAssumption, ThresholdAssumption
    DEF IInv, TypeOK, WindowDated, OpenWindowIsExact, Allows, ResetElapsed, is_fast_failing
  <1>2. QED
    BY <1>1, Invariance, PTL

\* With fewer should_allow calls per half-open episode than the counter has
\* values, no episode admits more probes than its budget.
THEOREM ProbeBudgetHolds ==
    ASSUME MaxHalfOpenCalls < CounterMod
    PROVE  Spec => []ProbeBudget
  <1>1. Init => IInv /\ BudgetInv
    BY InitIInv
  <1>2. (IInv /\ BudgetInv) /\ [Next]_vars => (IInv /\ BudgetInv)'
    BY NextIInv
  <1>3. BudgetInv => ProbeBudget
    BY DEF BudgetInv
  <1>4. QED
    BY <1>1, <1>2, <1>3, PTL DEF Spec

\* Only a recorded failure opens the circuit, only a recorded success closes it,
\* and only an admitted call starts to run.
LEMMA WhoMoves ==
    ASSUME IInv, [Next]_vars
    PROVE  /\ inner.state = "Closed" /\ inner'.state = "Open"
                => \E c \in Callers : Fail(c)
           /\ inner.state = "HalfOpen" /\ inner'.state = "Closed"
                => \E c \in Callers : Succeed(c)
           /\ ~(running' \subseteq running) => \E c \in Callers : Admit(c)
  <1>0. inner \in Inner
    BY DEF IInv, TypeOK
  <1>1. ASSUME NEW c \in Callers, Admit(c) \/ Reject(c)
        PROVE  /\ ~(inner.state = "Closed" /\ inner'.state = "Open")
               /\ ~(inner.state = "HalfOpen" /\ inner'.state = "Closed")
    <2>1. inner' = should_allow(inner)
      BY <1>1 DEF Admit, Reject
    <2>2. CASE inner.state = "HalfOpen"
               /\ inner' = [inner EXCEPT !.half_open_calls = Count(@)]
      BY <1>0, <2>2 DEF Inner
    <2>3. QED
      BY <1>0, <2>1, <2>2, ShouldAllow
  <1>2. ASSUME NEW c \in Callers, Succeed(c)
        PROVE  ~(inner.state = "Closed" /\ inner'.state = "Open")
    <2>1. CASE inner.state = "Closed" /\ inner' = [inner EXCEPT !.failure_count = 0]
      BY <1>0, <2>1 DEF Inner
    <2>2. QED
      BY <1>0, <1>2, <2>1, RecordSuccess DEF Succeed
  <1>3. ASSUME NEW c \in Callers, Fail(c)
        PROVE  ~(inner.state = "HalfOpen" /\ inner'.state = "Closed")
    BY <1>0, <1>3, RecordFailure, ToOpen DEF Fail
  <1>4. ASSUME NEW c \in Callers, NEW e \in Errors, ReturnError(c, e)
        PROVE  Fail(c) \/ (inner'.state = inner.state /\ running' \subseteq running)
    BY <1>0, <1>4 DEF ReturnError, record_neutral, Inner
  <1>5. ASSUME \/ \E c \in Callers : Cancel(c)
               \/ Tick
               \/ Degrade \/ Heal
               \/ UNCHANGED vars
        PROVE  inner'.state = inner.state /\ running' \subseteq running
    BY <1>0, <1>5 DEF Cancel, Tick, Degrade, Heal, vars, Inner
  <1>6. ASSUME NEW c \in Callers, Fail(c) \/ Succeed(c) \/ Reject(c)
        PROVE  running' \subseteq running
    BY <1>6 DEF Fail, Succeed, Reject
  <1>7. ASSUME NEW c \in Callers, TimeOut(c)
        PROVE  Fail(c)
    BY <1>7 DEF TimeOut
  <1>8. QED
    BY <1>1, <1>2, <1>3, <1>4, <1>5, <1>6, <1>7 DEF Next

\* Closed -> Open is never early: it takes failure_threshold failures in a row.
THEOREM TripsOnlyOnStreakHolds == Spec => TripsOnlyOnStreak
  <1>1. ASSUME IInv, [Next]_vars, inner.state = "Closed", inner'.state = "Open"
        PROVE  streak' = Trip
    <2>1. PICK c \in Callers : Fail(c)
      BY <1>1, WhoMoves
    <2>2. /\ inner \in Inner /\ streak \in 0 .. Trip
          /\ inner.failure_count = streak /\ streak < Trip
      BY <1>1 DEF IInv, TypeOK, StreakCounted, TripsInTime
    <2>3. inner.failure_count + 1 >= FailureThreshold
      <3>1. CASE inner' = [inner EXCEPT !.failure_count = @ + 1]
        BY <1>1, <2>2, <3>1 DEF Inner
      <3>2. QED
        BY <1>1, <2>1, <2>2, <3>1, RecordFailure DEF Fail
    <2>4. streak' = Saturate(streak, Trip)
      BY <2>1 DEF Fail
    <2>5. QED
      BY <2>2, <2>3, <2>4, BoundTypes, ConfigAssumption, ThresholdAssumption DEF Saturate
  <1>2. IInv /\ [Next]_vars
          => [inner.state = "Closed" /\ inner'.state = "Open" => streak' = Trip]_vars
    BY <1>1
  <1>3. QED
    BY <1>2, Invariance, PTL DEF Spec, TripsOnlyOnStreak

\* HalfOpen -> Closed takes success_threshold successes of this episode.
THEOREM ClosesOnlyOnRecoveryHolds == Spec => ClosesOnlyOnRecovery
  <1>1. ASSUME IInv, [Next]_vars, inner.state = "HalfOpen", inner'.state = "Closed"
        PROVE  good' = Recovery
    <2>1. PICK c \in Callers : Succeed(c)
      BY <1>1, WhoMoves
    <2>2. /\ inner \in Inner /\ good \in 0 .. Recovery
          /\ inner.success_count = good /\ good < Recovery
      BY <1>1 DEF IInv, TypeOK, SuccessesCounted
    <2>3. inner.success_count + 1 >= SuccessThreshold
      <3>1. CASE inner' = [inner EXCEPT !.success_count = @ + 1]
        BY <1>1, <2>2, <3>1 DEF Inner
      <3>2. QED
        BY <1>1, <2>1, <2>2, <3>1, RecordSuccess DEF Succeed
    <2>4. good' = Saturate(good, Recovery)
      BY <2>1 DEF Succeed
    <2>5. QED
      BY <2>2, <2>3, <2>4, BoundTypes, ConfigAssumption, ThresholdAssumption DEF Saturate
  <1>2. IInv /\ [Next]_vars
          => [inner.state = "HalfOpen" /\ inner'.state = "Closed" => good' = Recovery]_vars
    BY <1>1
  <1>3. QED
    BY <1>2, Invariance, PTL DEF Spec, ClosesOnlyOnRecovery

\* No call reaches the target within reset_timeout of the circuit's opening.
THEOREM FailsFastHolds == Spec => FailsFast
  <1>1. ASSUME IInv, [Next]_vars, inner.state = "Open", openFor < ResetTimeout
        PROVE  running' \subseteq running
    <2>1. ASSUME NEW c \in Callers, Admit(c)
          PROVE  FALSE
      <3>1. Allows(inner)
        BY <2>1 DEF Admit
      <3>2. inner.last_failure_age = openFor /\ openFor \in 0 .. ResetTimeout
        BY <1>1 DEF IInv, TypeOK, WindowDated
      <3>3. QED
        BY <1>1, <3>1, <3>2, ConfigAssumption, ThresholdAssumption DEF Allows, ResetElapsed
    <2>2. QED
      BY <1>1, <2>1, WhoMoves
  <1>2. IInv /\ [Next]_vars
          => [inner.state = "Open" /\ openFor < ResetTimeout
                  => running' \subseteq running]_vars
    BY <1>1
  <1>3. QED
    BY <1>2, Invariance, PTL DEF Spec, FailsFast
===============================================================================
