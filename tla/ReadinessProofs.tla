--------------------------- MODULE ReadinessProofs ---------------------------
(***************************************************************************)
(* Proofs about the registry of breakers, for any targets and callers, any *)
(* assignment of the ones to the others, and any thresholds.               *)
(***************************************************************************)
EXTENDS Readiness, FiniteSetTheorems, SequenceTheorems, TLAPS

USE DEF Never, CircuitState, NoBreaker

LEMMA TripType == Trip \in Nat /\ Trip >= 1 /\ Trip >= FailureThreshold
  BY ThresholdAssumption DEF Trip, AtLeastOne

\* should_allow closes nothing and leaves a closed breaker alone.
LEMMA AllowKeeps ==
    ASSUME NEW g \in Inner
    PROVE  /\ should_allow(g) \in Inner
           /\ g.state = "Closed" => should_allow(g) = g
           /\ g.state # "Closed" => should_allow(g).state # "Closed"
  <1>1. \A n \in Nat : Count(n) \in Nat
    BY CounterAssumption DEF Count
  <1>2. QED
    BY <1>1 DEF should_allow, transition_to_half_open, Inner
\* A success or an application error leaves no closed breaker with failures.
LEMMA SuccessClears ==
    ASSUME NEW g \in Inner, NEW outcome \in {"ok", "neutral"}
    PROVE  /\ Recorded(outcome, g) \in Inner
           /\ Recorded(outcome, g).state = "Closed" => Recorded(outcome, g).failure_count = 0
           /\ g.state = "Closed" => Recorded(outcome, g).state = "Closed"
  <1>1. /\ record_success(g) \in Inner
        /\ record_success(g).state = "Closed" => record_success(g).failure_count = 0
        /\ g.state = "Closed" => record_success(g).state = "Closed"
    <2>1. CASE g.state = "Closed"
      <3>1. record_success(g) = [g EXCEPT !.failure_count = 0]
        BY <2>1 DEF record_success
      <3>2. QED
        BY <2>1, <3>1 DEF Inner
    <2>2. CASE g.state = "HalfOpen" /\ g.success_count + 1 >= SuccessThreshold
      <3>1. record_success(g) = transition_to_closed(g)
        BY <2>2 DEF record_success
      <3>2. /\ transition_to_closed(g) \in Inner
            /\ transition_to_closed(g).state = "Closed"
            /\ transition_to_closed(g).failure_count = 0
        BY DEF transition_to_closed, Inner
      <3>3. QED
        BY <2>2, <3>1, <3>2
    <2>3. CASE g.state = "HalfOpen" /\ ~(g.success_count + 1 >= SuccessThreshold)
      <3>1. record_success(g) = [g EXCEPT !.success_count = @ + 1]
        BY <2>3 DEF record_success
      <3>2. QED
        BY <2>3, <3>1 DEF Inner
    <2>4. CASE g.state = "Open"
      <3>1. record_success(g) = g
        BY <2>4 DEF record_success
      <3>2. QED
        BY <2>4, <3>1
    <2>5. QED
      BY <2>1, <2>2, <2>3, <2>4 DEF Inner
  <1>2. /\ record_neutral(g) \in Inner
        /\ record_neutral(g).state = "Closed" => record_neutral(g).failure_count = 0
        /\ g.state = "Closed" => record_neutral(g).state = "Closed"
    BY DEF record_neutral, Inner
  <1>3. CASE outcome = "ok"
    BY <1>1, <1>3 DEF Recorded
  <1>4. CASE outcome = "neutral"
    BY <1>2, <1>4 DEF Recorded
  <1>5. QED
    BY <1>3, <1>4

\* A failure that leaves the breaker closed was counted, below the threshold.
LEMMA FailureCounts ==
    ASSUME NEW g \in Inner
    PROVE  /\ Recorded("failure", g) \in Inner
           /\ Recorded("failure", g).state = "Closed" =>
                 /\ g.state = "Closed"
                 /\ g.failure_count + 1 < FailureThreshold
                 /\ Recorded("failure", g).failure_count = g.failure_count + 1
  <1>1. Recorded("failure", g) = record_failure(g)
    BY DEF Recorded
  <1>2. transition_to_open(g) \in Inner /\ transition_to_open(g).state = "Open"
    BY DEF transition_to_open, Inner
  <1>3. CASE g.state = "Closed" /\ g.failure_count + 1 < FailureThreshold
    <2>1. record_failure(g) = [g EXCEPT !.failure_count = @ + 1]
      BY <1>3, ThresholdAssumption DEF record_failure, Inner
    <2>2. QED
      BY <1>1, <1>3, <2>1 DEF Inner
  <1>4. CASE g.state = "Closed" /\ ~(g.failure_count + 1 < FailureThreshold)
    <2>1. record_failure(g) = transition_to_open(g)
      BY <1>4, ThresholdAssumption DEF record_failure, Inner
    <2>2. QED
      BY <1>1, <1>2, <2>1
  <1>5. CASE g.state = "HalfOpen"
    <2>1. record_failure(g) = transition_to_open(g)
      BY <1>5 DEF record_failure
    <2>2. QED
      BY <1>1, <1>2, <2>1
  <1>6. CASE g.state = "Open"
    <2>1. record_failure(g) = g
      BY <1>6 DEF record_failure
    <2>2. QED
      BY <1>1, <1>6, <2>1
  <1>7. QED
    BY <1>3, <1>4, <1>5, <1>6 DEF Inner

\* A new breaker is closed and has counted nothing.
LEMMA NewBreaker == New \in Inner /\ New.state = "Closed" /\ New.failure_count = 0
  BY DEF New, Inner

-----------------------------------------------------------------------------
\* The configured targets are numbered, each with a number of its own.
LEMMA Numbering ==
    /\ Len(Registered) \in Nat
    /\ DOMAIN Registered = 1..Len(Registered)
    /\ \A i \in DOMAIN Registered : Registered[i] \in Configured
    /\ \A t \in Configured : \E i \in DOMAIN Registered : Registered[i] = t
  <1> DEFINE n == Cardinality(Configured)
             Numbers == [1..n -> Configured]
  <1>1. n \in Nat /\ ExistsBijection(1..n, Configured)
    BY FS_CardinalityType, RegistryAssumption
  <1>2. PICK f \in Bijection(1..n, Configured) : TRUE
    BY <1>1 DEF ExistsBijection
  <1>3. f \in Numbers /\ IsInjective(f)
    BY <1>2 DEF Bijection, Injection
  <1>4. Registered \in Numbers /\ IsInjective(Registered)
    <2>1. Registered = CHOOSE g \in Numbers : IsInjective(g)
      BY DEF Registered, SetToSeq
    <2>2. QED
      BY <1>3, <2>1
  <1>5. Registered \in Injection(1..n, Configured)
    BY <1>4 DEF Injection
  <1>6. Registered \in Surjection(1..n, Configured)
    <2>1. IsFiniteSet(1..n) /\ Cardinality(1..n) = n
      BY <1>1, FS_Interval
    <2>2. QED
      BY <1>5, <2>1, FS_Injection, RegistryAssumption
  <1>7. DOMAIN Registered = 1..n
    BY <1>4
  <1>8. Len(Registered) = n
    <2>1. Registered \in Seq(Configured)
      BY <1>1, <1>4, SeqDef
    <2>2. QED
      BY <1>1, <1>7, <2>1, LenProperties
  <1>9. QED
    BY <1>1, <1>4, <1>6, <1>7, <1>8 DEF Surjection

\* The initial states.
LEMMA InitIInv == Init => IInv
  <1> SUFFICES ASSUME Init PROVE IInv
    OBVIOUS
  <1> USE TripType, RegistryAssumption
  <1>1. /\ arcs \in Seq(Inner) /\ Len(arcs) = Len(Registered)
        /\ \A i \in 1..Len(arcs) : arcs[i] = New
    <2>1. arcs \in [1..Len(Registered) -> Inner]
      BY NewBreaker DEF Init
    <2>2. arcs \in Seq(Inner)
      BY <2>1, Numbering, SeqDef
    <2>3. Len(arcs) = Len(Registered)
      BY <2>1, <2>2, Numbering, LenProperties
    <2>4. QED
      BY <2>2, <2>3 DEF Init
  <1>2. ASSUME NEW t \in Targets
        PROVE  /\ breakers[t] \in 0..Len(arcs)
               /\ breakers[t] # 0 => /\ breakers[t] \in 1..Len(arcs)
                                     /\ t \in Configured /\ Registered[breakers[t]] = t
    <2>1. CASE t \in Configured
      <3>1. breakers[t] \in DOMAIN Registered /\ Registered[breakers[t]] = t
        BY <2>1, Numbering DEF Init
      <3>2. QED
        BY <1>1, <2>1, <3>1, Numbering
    <2>2. CASE t \notin Configured
      BY <1>1, <2>2, Numbering DEF Init
    <2>3. QED
      BY <2>1, <2>2
  <1>3. breakers \in [Targets -> 0..Len(arcs)]
    <2>1. breakers = [t \in Targets |-> breakers[t]]
      BY DEF Init
    <2>2. QED
      BY <1>2, <2>1
  <1>4. /\ call \in [Callers -> [pc : {"idle", "looked", "running"}, arc : 0..Len(arcs)]]
        /\ \A c \in Callers : call[c].pc = "idle" /\ call[c].arc = NoBreaker
    BY <1>1, Numbering DEF Init, Idle
  <1>5. TypeOK
    <2>1. accepts \in BOOLEAN
      BY DEF Init
    <2>2. /\ degraded \subseteq Targets /\ failed \subseteq Targets
          /\ probe \in {"idle", "peek", "query"} /\ answer \in {"none", "200", "503"}
      BY DEF Init
    <2>3. streak \in [Targets -> 0..Trip]
      BY DEF Init
    <2>4. QED
      BY <1>1, <1>3, <1>4, <2>1, <2>2, <2>3 DEF TypeOK
  <1>6. OneBreakerEach
    BY <1>2 DEF OneBreakerEach
  <1>7. HoldsItsOwn
    BY <1>4 DEF HoldsItsOwn
  <1>8. StreakCounted /\ Independent
    BY <1>1, <1>2, NewBreaker DEF Init, StreakCounted, Independent
  <1>9. QED
    BY <1>5, <1>6, <1>7, <1>8 DEF IInv

-----------------------------------------------------------------------------
\* Looking a target up gives it a breaker if it has none; what the others, and
\* those who hold one, have stays as it was.
LEMMA GetOrDefault ==
    ASSUME IInv, NEW t \in Targets, NEW i, get_or_default(t, i), UNCHANGED <<streak, failed>>
    PROVE  /\ arcs' \in Seq(Inner) /\ Len(arcs') >= Len(arcs) /\ Len(arcs') \in Nat
           /\ breakers' \in [Targets -> 0..Len(arcs')]
           /\ i \in 1..Len(arcs') /\ breakers'[t] = i
           /\ \A u \in Targets : breakers[u] # NoBreaker => breakers'[u] = breakers[u]
           /\ OneBreakerEach' /\ StreakCounted' /\ Independent'
  <1> USE TripType
  <1>0. /\ arcs \in Seq(Inner) /\ Len(arcs) \in Nat
        /\ breakers \in [Targets -> 0..Len(arcs)]
    BY LenProperties DEF IInv, TypeOK
  <1>1. CASE breakers[t] # NoBreaker /\ i = breakers[t] /\ UNCHANGED <<arcs, breakers>>
    BY <1>0, <1>1 DEF IInv, OneBreakerEach, StreakCounted, Independent
  <1>2. CASE /\ breakers[t] = NoBreaker /\ i = Len(arcs) + 1
             /\ arcs' = Append(arcs, New) /\ breakers' = [breakers EXCEPT ![t] = i]
    <2>1. /\ arcs' \in Seq(Inner) /\ Len(arcs') = Len(arcs) + 1
          /\ \A j \in 1..Len(arcs) : arcs'[j] = arcs[j]
          /\ arcs'[i] = New
      BY <1>0, <1>2, NewBreaker, AppendProperties
    <2>2. /\ breakers' \in [Targets -> 0..Len(arcs')]
          /\ breakers'[t] = i
          /\ \A u \in Targets : u # t => breakers'[u] = breakers[u]
      BY <1>0, <1>2, <2>1
    <2>3. OneBreakerEach'
      BY <1>0, <1>2, <2>2 DEF IInv, OneBreakerEach
    <2>4. \A u \in Targets : u # t /\ breakers[u] # NoBreaker => arcs'[breakers'[u]] = arcs[breakers[u]]
      BY <1>0, <2>1, <2>2
    <2>5. StreakCounted'
      BY <1>2, <2>1, <2>2, <2>4, NewBreaker DEF IInv, StreakCounted
    <2>6. Independent'
      BY <1>2, <2>1, <2>2, <2>4, NewBreaker DEF IInv, Independent
    <2>7. QED
      BY <1>0, <1>2, <2>1, <2>2, <2>3, <2>5, <2>6
  <1>3. QED
    BY <1>1, <1>2 DEF get_or_default

\* A client looks its breaker up.
LEMMA LookUpStep ==
    ASSUME IInv, NEW c \in Callers, LookUp(c)
    PROVE  IInv'
  <1> USE RegistryAssumption
  <1>1. PICK i \in 1..(Len(arcs) + 1) :
             /\ get_or_default(Serves[c], i)
             /\ call' = [call EXCEPT ![c] = [pc |-> "looked", arc |-> i]]
    BY DEF LookUp
  <1>2. Serves[c] \in Targets /\ UNCHANGED <<degraded, accepts, probe, answer, streak, failed>>
    BY DEF LookUp, probing
  <1>3. /\ arcs' \in Seq(Inner) /\ Len(arcs') >= Len(arcs) /\ Len(arcs') \in Nat
        /\ breakers' \in [Targets -> 0..Len(arcs')]
        /\ i \in 1..Len(arcs') /\ breakers'[Serves[c]] = i
        /\ \A u \in Targets : breakers[u] # NoBreaker => breakers'[u] = breakers[u]
        /\ OneBreakerEach' /\ StreakCounted' /\ Independent'
    BY <1>1, <1>2, GetOrDefault
  <1>4. Len(arcs) \in Nat
    BY LenProperties DEF IInv, TypeOK
  <1>5. /\ call' \in [Callers -> [pc : {"idle", "looked", "running"}, arc : 0..Len(arcs')]]
        /\ \A d \in Callers : d # c => call'[d] = call[d]
        /\ call'[c].pc = "looked" /\ call'[c].arc = i
    <2> DEFINE Handles == [pc : {"idle", "looked", "running"}, arc : 0..Len(arcs')]
    <2>1. [pc |-> "looked", arc |-> i] \in Handles
      BY <1>3
    <2>2. call \in [Callers -> Handles]
      <3>1. \A d \in Callers : call[d] \in Handles
        BY <1>3, <1>4 DEF IInv, TypeOK
      <3>2. QED
        BY <3>1 DEF IInv, TypeOK
    <2>3. QED
      BY <1>1, <2>1, <2>2
  <1>6. TypeOK'
    <2>1. ASSUME NEW d \in Callers
          PROVE  call'[d].pc = "idle" <=> call'[d].arc = NoBreaker
      <3>1. CASE d = c
        BY <1>3, <1>5, <3>1
      <3>2. CASE d # c
        BY <1>5, <3>2 DEF IInv, TypeOK
      <3>3. QED
        BY <3>1, <3>2
    <2>2. QED
      BY <1>2, <1>3, <1>5, <2>1 DEF IInv, TypeOK
  <1>7. HoldsItsOwn'
    <2>1. ASSUME NEW d \in Callers, call'[d].pc # "idle"
          PROVE  call'[d].arc = breakers'[Serves[d]]
      <3>1. CASE d = c
        BY <1>3, <1>5, <3>1
      <3>2. CASE d # c
        <4>1. /\ call'[d] = call[d] /\ Serves[d] \in Targets
              /\ call[d].arc = breakers[Serves[d]] /\ call[d].arc # NoBreaker
          BY <1>5, <2>1, <3>2 DEF IInv, TypeOK, HoldsItsOwn
        <4>2. QED
          BY <1>3, <4>1
      <3>3. QED
        BY <3>1, <3>2
    <2>2. QED
      BY <2>1 DEF HoldsItsOwn
  <1>8. QED
    BY <1>3, <1>6, <1>7 DEF IInv

\* The probe's look at the database's breaker.
LEMMA PeekStep ==
    ASSUME IInv, Peek
    PROVE  IInv'
  <1> USE RegistryAssumption
  <1>1. PICK i \in 1..(Len(arcs) + 1) : get_or_default("database", i)
    BY DEF Peek
  <1>2. /\ UNCHANGED <<call, degraded, accepts, streak, failed>>
        /\ probe' \in {"idle", "peek", "query"} /\ answer' \in {"none", "200", "503"}
    BY DEF Peek, IInv, TypeOK
  <1>3. /\ arcs' \in Seq(Inner) /\ Len(arcs') >= Len(arcs) /\ Len(arcs') \in Nat
        /\ breakers' \in [Targets -> 0..Len(arcs')]
        /\ \A u \in Targets : breakers[u] # NoBreaker => breakers'[u] = breakers[u]
        /\ OneBreakerEach' /\ StreakCounted' /\ Independent'
    BY <1>1, <1>2, GetOrDefault
  <1>4. Len(arcs) \in Nat
    BY LenProperties DEF IInv, TypeOK
  <1>5. call' \in [Callers -> [pc : {"idle", "looked", "running"}, arc : 0..Len(arcs')]]
    BY <1>2, <1>3, <1>4 DEF IInv, TypeOK
  <1>6. TypeOK'
    BY <1>2, <1>3, <1>5 DEF IInv, TypeOK
  <1>7. HoldsItsOwn'
    BY <1>2, <1>3 DEF IInv, TypeOK, HoldsItsOwn
  <1>8. QED
    BY <1>3, <1>6, <1>7 DEF IInv

-----------------------------------------------------------------------------
\* A busy client holds the breaker of its target, and the breaker is there.
LEMMA Held ==
    ASSUME IInv, NEW c \in Callers, call[c].pc # "idle"
    PROVE  /\ call[c].arc \in 1..Len(arcs) /\ arcs[call[c].arc] \in Inner
           /\ Serves[c] \in Targets /\ breakers[Serves[c]] = call[c].arc
           /\ Len(arcs) \in Nat
           /\ \A t \in Targets : breakers[t] = call[c].arc => t = Serves[c]
  <1>1. Serves[c] \in Targets /\ Len(arcs) \in Nat /\ arcs \in Seq(Inner)
    BY RegistryAssumption, LenProperties DEF IInv, TypeOK
  <1>2. call[c].arc = breakers[Serves[c]] /\ call[c].arc # NoBreaker
    BY DEF IInv, TypeOK, HoldsItsOwn
  <1>3. call[c].arc \in 1..Len(arcs)
    BY <1>1, <1>2 DEF IInv, TypeOK
  <1>4. arcs[call[c].arc] \in Inner
    BY <1>1, <1>3, ElementOfSeq
  <1>5. QED
    BY <1>1, <1>2, <1>3, <1>4 DEF IInv, OneBreakerEach

\* A client writes to the breaker it holds: no other target's breaker changes.
LEMMA Write ==
    ASSUME IInv, NEW c \in Callers, call[c].pc # "idle", NEW g \in Inner,
           arcs' = [arcs EXCEPT ![call[c].arc] = g], UNCHANGED breakers
    PROVE  /\ arcs' \in Seq(Inner) /\ Len(arcs') = Len(arcs)
           /\ arcs'[breakers'[Serves[c]]] = g
           /\ \A t \in Targets : t # Serves[c] /\ breakers[t] # NoBreaker =>
                 arcs'[breakers'[t]] = arcs[breakers[t]]
  <1>1. /\ arcs' \in Seq(Inner) /\ Len(arcs') = Len(arcs)
        /\ \A j \in 1..Len(arcs) : arcs'[j] = IF j = call[c].arc THEN g ELSE arcs[j]
    BY Held, ExceptSeq DEF IInv, TypeOK
  <1>2. QED
    BY <1>1, Held DEF IInv, TypeOK

\* A client asks for admission.
LEMMA AskStep ==
    ASSUME IInv, NEW c \in Callers, Ask(c)
    PROVE  IInv'
  <1> DEFINE g == arcs[call[c].arc]
  <1>1. /\ call[c].pc = "looked"
        /\ arcs' = [arcs EXCEPT ![call[c].arc] = should_allow(g)]
        /\ UNCHANGED <<breakers, degraded, accepts, probe, answer, streak, failed>>
    BY DEF Ask, probing
  <1>2. /\ call[c].arc \in 1..Len(arcs) /\ g \in Inner
        /\ Serves[c] \in Targets /\ breakers[Serves[c]] = call[c].arc
        /\ Len(arcs) \in Nat
    BY <1>1, Held
  <1>3. /\ arcs' \in Seq(Inner) /\ Len(arcs') = Len(arcs)
        /\ arcs'[breakers'[Serves[c]]] = should_allow(g)
        /\ \A t \in Targets : t # Serves[c] /\ breakers[t] # NoBreaker =>
              arcs'[breakers'[t]] = arcs[breakers[t]]
    BY <1>1, <1>2, AllowKeeps, Write
  <1>4. /\ call' \in [Callers -> [pc : {"idle", "looked", "running"}, arc : 0..Len(arcs')]]
        /\ \A d \in Callers : call'[d].pc = "idle" <=> call'[d].arc = NoBreaker
        /\ \A d \in Callers : call'[d].pc # "idle" =>
              call[d].pc # "idle" /\ call'[d].arc = call[d].arc
    <2>1. CASE call' = [call EXCEPT ![c] = [@ EXCEPT !.pc = "running"]]
      BY <1>1, <1>2, <1>3, <2>1 DEF IInv, TypeOK
    <2>2. CASE call' = [call EXCEPT ![c] = Idle]
      BY <1>1, <1>2, <1>3, <2>2 DEF IInv, TypeOK, Idle
    <2>3. QED
      BY <2>1, <2>2 DEF Ask
  <1>5. TypeOK'
    BY <1>1, <1>3, <1>4 DEF IInv, TypeOK
  <1>6. OneBreakerEach' /\ HoldsItsOwn'
    BY <1>1, <1>4 DEF IInv, OneBreakerEach, HoldsItsOwn
  <1>7. /\ g.state = "Closed" => should_allow(g) = g
        /\ g.state # "Closed" => should_allow(g).state # "Closed"
    BY <1>2, AllowKeeps
  <1>8. StreakCounted' /\ Independent'
    BY <1>1, <1>2, <1>3, <1>7 DEF IInv, StreakCounted, Independent
  <1>9. QED
    BY <1>5, <1>6, <1>8 DEF IInv

\* A guarded call ends and its outcome is recorded.
LEMMA EndStep ==
    ASSUME IInv, NEW c \in Callers, End(c)
    PROVE  IInv'
  <1> DEFINE g == arcs[call[c].arc]
             t == Serves[c]
  <1> USE TripType
  <1>1. /\ call[c].pc = "running" /\ call' = [call EXCEPT ![c] = Idle]
        /\ UNCHANGED <<breakers, degraded, accepts, probe, answer>>
    BY DEF End, probing
  <1>2. PICK outcome \in Outcomes :
          /\ arcs' = [arcs EXCEPT ![call[c].arc] = Recorded(outcome, g)]
          /\ streak' = [streak EXCEPT ![t] =
                          IF outcome = "failure" THEN Saturate(streak[t], Trip) ELSE 0]
          /\ failed' = IF outcome = "failure" THEN failed \union {t} ELSE failed
    BY DEF End
  <1>3. /\ call[c].arc \in 1..Len(arcs) /\ g \in Inner
        /\ t \in Targets /\ breakers[t] = call[c].arc
        /\ Len(arcs) \in Nat
    BY <1>1, Held
  <1>4. outcome = "failure" \/ outcome \in {"ok", "neutral"}
    BY RegistryAssumption
  <1>5. Recorded(outcome, g) \in Inner
    BY <1>3, <1>4, SuccessClears, FailureCounts
  <1>6. /\ arcs' \in Seq(Inner) /\ Len(arcs') = Len(arcs)
        /\ arcs'[breakers'[t]] = Recorded(outcome, g)
        /\ \A u \in Targets : u # t /\ breakers[u] # NoBreaker =>
              arcs'[breakers'[u]] = arcs[breakers[u]]
    BY <1>1, <1>2, <1>5, Write
  <1>7. /\ call' \in [Callers -> [pc : {"idle", "looked", "running"}, arc : 0..Len(arcs')]]
        /\ \A d \in Callers : call'[d].pc = "idle" <=> call'[d].arc = NoBreaker
        /\ \A d \in Callers : call'[d].pc # "idle" => call'[d] = call[d]
    BY <1>1, <1>3, <1>6 DEF IInv, TypeOK, Idle
  <1>8. /\ streak' \in [Targets -> 0..Trip] /\ failed' \subseteq Targets
        /\ \A u \in Targets : u # t => streak'[u] = streak[u]
        /\ streak'[t] = IF outcome = "failure" THEN Saturate(streak[t], Trip) ELSE 0
    BY <1>2, <1>3 DEF IInv, TypeOK, Saturate
  <1>9. TypeOK'
    BY <1>1, <1>6, <1>7, <1>8 DEF IInv, TypeOK
  <1>10. OneBreakerEach' /\ HoldsItsOwn'
    BY <1>1, <1>7 DEF IInv, OneBreakerEach, HoldsItsOwn
  <1>11. StreakCounted' /\ Independent'
    <2>1. CASE outcome = "failure"
      <3>1. /\ failed' = failed \union {t} /\ streak'[t] = Saturate(streak[t], Trip)
            /\ streak[t] \in 0..Trip
        BY <1>2, <1>3, <1>8, <2>1 DEF IInv, TypeOK
      <3>2. arcs'[breakers'[t]].state = "Closed" =>
              /\ g.state = "Closed" /\ g.failure_count + 1 < FailureThreshold
              /\ arcs'[breakers'[t]].failure_count = g.failure_count + 1
        BY <1>3, <1>6, <2>1, FailureCounts
      <3>3. arcs'[breakers'[t]].state = "Closed" =>
              arcs'[breakers'[t]].failure_count = streak'[t] /\ streak'[t] < Trip
        BY <1>3, <3>1, <3>2, ThresholdAssumption DEF IInv, StreakCounted, Saturate
      <3>4. StreakCounted'
        BY <1>1, <1>3, <1>6, <1>8, <3>3 DEF IInv, StreakCounted
      <3>5. Independent'
        BY <1>1, <1>6, <3>1 DEF IInv, Independent
      <3>6. QED
        BY <3>4, <3>5
    <2>2. CASE outcome \in {"ok", "neutral"}
      <3>1. failed' = failed /\ streak'[t] = 0
        BY <1>2, <1>8, <2>2
      <3>2. /\ arcs'[breakers'[t]].state = "Closed" => arcs'[breakers'[t]].failure_count = 0
            /\ g.state = "Closed" => arcs'[breakers'[t]].state = "Closed"
        BY <1>3, <1>6, <2>2, SuccessClears
      <3>3. StreakCounted'
        BY <1>1, <1>3, <1>6, <1>8, <3>1, <3>2 DEF IInv, StreakCounted
      <3>4. Independent'
        BY <1>1, <1>3, <1>6, <3>1, <3>2 DEF IInv, Independent
      <3>5. QED
        BY <3>3, <3>4
    <2>3. QED
      BY <1>4, <2>1, <2>2
  <1>12. QED
    BY <1>9, <1>10, <1>11 DEF IInv

\* Time changes the age of a failure and nothing else.
LEMMA TickStep ==
    ASSUME IInv, Tick
    PROVE  IInv'
  <1>1. UNCHANGED <<breakers, call, degraded, accepts, probe, answer, streak, failed>>
    BY DEF Tick, probing
  <1>2. /\ arcs \in Seq(Inner) /\ Len(arcs) \in Nat /\ DOMAIN arcs = 1..Len(arcs)
        /\ breakers \in [Targets -> 0..Len(arcs)]
    BY LenProperties DEF IInv, TypeOK
  <1>3. ASSUME NEW i \in 1..Len(arcs)
        PROVE  /\ arcs'[i] \in Inner /\ arcs'[i].state = arcs[i].state
               /\ arcs'[i].failure_count = arcs[i].failure_count
    <2>1. arcs[i] \in Inner
      BY <1>2, ElementOfSeq
    <2>2. arcs'[i] = IF arcs[i].last_failure_age = Never THEN arcs[i]
                     ELSE [arcs[i] EXCEPT !.last_failure_age = Saturate(@, ResetTimeout)]
      BY <1>2 DEF Tick
    <2>3. QED
      BY <2>1, <2>2, ThresholdAssumption DEF Inner, Saturate
  <1>4. arcs' \in Seq(Inner) /\ Len(arcs') = Len(arcs)
    <2>1. arcs' = [i \in 1..Len(arcs) |-> arcs'[i]]
      BY <1>2 DEF Tick
    <2>2. arcs' \in [1..Len(arcs) -> Inner]
      BY <1>3, <2>1
    <2>3. arcs' \in Seq(Inner)
      BY <1>2, <2>2, SeqDef
    <2>4. QED
      BY <1>2, <2>2, <2>3, LenProperties
  <1>5. TypeOK'
    BY <1>1, <1>4 DEF IInv, TypeOK
  <1>6. OneBreakerEach' /\ HoldsItsOwn'
    BY <1>1 DEF IInv, OneBreakerEach, HoldsItsOwn
  <1>7. \A u \in Targets : breakers[u] # NoBreaker => breakers[u] \in 1..Len(arcs)
    BY <1>2
  <1>8. StreakCounted'
    BY <1>1, <1>3, <1>7 DEF IInv, StreakCounted
  <1>9. Independent'
    BY <1>1, <1>3, <1>7 DEF IInv, Independent
  <1>10. QED
    BY <1>5, <1>6, <1>8, <1>9 DEF IInv

\* The other steps touch neither the registry nor the calls.
LEMMA QuietStep ==
    ASSUME IInv, UNCHANGED calling,
           degraded' \subseteq Targets, accepts' \in BOOLEAN,
           probe' \in {"idle", "peek", "query"}, answer' \in {"none", "200", "503"}
    PROVE  IInv'
  BY DEF calling, IInv, TypeOK, OneBreakerEach, HoldsItsOwn, StreakCounted, Independent

\* Every step keeps the inductive invariant.
LEMMA NextIInv == IInv /\ [Next]_vars => IInv'
  <1> SUFFICES ASSUME IInv, [Next]_vars PROVE IInv'
    OBVIOUS
  <1>0. /\ degraded \subseteq Targets /\ accepts \in BOOLEAN
        /\ probe \in {"idle", "peek", "query"} /\ answer \in {"none", "200", "503"}
    BY DEF IInv, TypeOK
  <1>1. ASSUME NEW c \in Callers, query(c) \/ request(c) PROVE IInv'
    BY <1>1, LookUpStep DEF query, request
  <1>2. ASSUME NEW c \in Callers, Ask(c) PROVE IInv'
    BY <1>2, AskStep
  <1>3. ASSUME NEW c \in Callers, End(c) PROVE IInv'
    BY <1>3, EndStep
  <1>4. CASE CheckApplication
    BY <1>0, <1>4, QuietStep DEF CheckApplication
  <1>5. CASE Peek
    BY <1>5, PeekStep
  <1>6. CASE SelectOne
    BY <1>0, <1>6, QuietStep DEF SelectOne
  <1>7. CASE Tick
    BY <1>7, TickStep
  <1>8. CASE Degrade
    <2>1. degraded' \subseteq Targets
      BY <1>0, <1>8 DEF Degrade
    <2>2. QED
      BY <1>0, <1>8, <2>1, QuietStep DEF Degrade, probing
  <1>9. CASE Shed
    <2>1. accepts' \in BOOLEAN
      BY <1>0, <1>9 DEF Shed
    <2>2. QED
      BY <1>0, <1>9, <2>1, QuietStep DEF Shed, probing
  <1>10. CASE UNCHANGED vars
    BY <1>0, <1>10, QuietStep DEF vars, probing
  <1>11. QED
    BY <1>1, <1>2, <1>3, <1>4, <1>5, <1>6, <1>7, <1>8, <1>9, <1>10 DEF Next

\* The inductive invariant holds in every reachable state.
THEOREM InvariantHolds == Spec => []IInv
  BY InitIInv, NextIInv, PTL DEF Spec

\* Type correctness: every handle names a breaker that exists, whoever created it.
THEOREM TypeCorrect == Spec => []TypeOK
  <1>1. IInv => TypeOK
    BY DEF IInv
  <1>2. QED
    BY <1>1, InvariantHolds, PTL

\* failure_threshold failures in a row of one target, whichever clients saw
\* them, leave no closed circuit for it.
THEOREM TripsPerTargetHolds == Spec => []TripsPerTarget
  <1>1. IInv => TripsPerTarget
    BY TripType DEF IInv, TypeOK, StreakCounted, TripsPerTarget
  <1>2. QED
    BY <1>1, InvariantHolds, PTL

\* A target that never failed is never refused a call, whatever happens to the
\* other targets.
THEOREM IndependentHolds == Spec => []Independent
  <1>1. IInv => Independent
    BY DEF IInv
  <1>2. QED
    BY <1>1, InvariantHolds, PTL
=============================================================================
