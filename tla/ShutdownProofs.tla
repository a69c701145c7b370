--------------------------- MODULE ShutdownProofs ---------------------------
(***************************************************************************)
(* Proofs of the safety properties of Shutdown for any components,         *)
(* connections and shutdown_timeout.                                       *)
(***************************************************************************)
EXTENDS Shutdown, SequenceTheorems, TLAPS

\* What emit does to the channel: the phases already sent stay where they are.
LEMMA SendProperties ==
    ASSUME NEW q \in Seq(Phases), NEW p \in Phases
    PROVE  /\ Append(q, p) \in Seq(Phases)
           /\ Append(q, p) # <<>>
           /\ Len(Append(q, p)) = Len(q) + 1
           /\ Len(q) \in Nat
           /\ q # <<>> => Append(q, p)[1] = q[1]
           /\ q = <<>> => Append(q, p)[1] = p
  <1>1. /\ Append(q, p) \in Seq(Phases)
        /\ Append(q, p) # <<>>
        /\ Len(Append(q, p)) = Len(q) + 1
        /\ \A i \in 1 .. Len(q) : Append(q, p)[i] = q[i]
        /\ Append(q, p)[Len(q) + 1] = p
    BY AppendProperties
  <1>2. q # <<>> => 1 \in 1 .. Len(q)
    BY EmptySeq
  <1>3. q = <<>> => Len(q) = 0
    BY EmptySeq
  <1>4. QED
    BY <1>1, <1>2, <1>3

\* The types are kept.
LEMMA TypeStep ==
    ASSUME TypeOK, [Next]_vars
    PROVE  TypeOK'
  <1> USE TimeoutAssumption
  <1> USE DEF TypeOK, notifier, receivers, server
  <1>1. Len(sent) \in Nat /\ "Initiated" \in Phases /\ "GracePeriodStarted" \in Phases
        /\ "GracePeriodEnded" \in Phases
    BY DEF Phases
  <1>2. ASSUME NEW s \in Components, Subscribe(s) \/ Receive(s)
        PROVE  TypeOK'
    <2>1. CASE Subscribe(s)
      <3>1. from' \in [Components -> Nat] /\ next' \in [Components -> Nat]
        BY <1>1, <2>1 DEF Subscribe
      <3>2. QED
        BY <2>1, <3>1 DEF Subscribe
    <2>2. CASE Receive(s)
      <3>1. next[s] + 1 \in Nat
        OBVIOUS
      <3>2. next' \in [Components -> Nat]
        BY <2>2, <3>1 DEF Receive
      <3>3. QED
        BY <2>2, <3>2 DEF Receive
    <2>3. QED
      BY <1>2, <2>1, <2>2
  <1>3. ASSUME NEW g \in {"SIGINT", "SIGTERM"}, Signal(g)
        PROVE  TypeOK'
    BY <1>3 DEF Signal
  <1>4. CASE Cancel
    BY <1>4 DEF Cancel
  <1>5. CASE SendInitiated
    <2>1. sent' \in Seq(Phases)
      BY <1>1, <1>5, SendProperties DEF SendInitiated, Send
    <2>2. QED
      BY <1>5, <2>1 DEF SendInitiated
  <1>6. CASE SendGracePeriodStarted
    <2>1. sent' \in Seq(Phases)
      BY <1>1, <1>6, SendProperties DEF SendGracePeriodStarted, Send
    <2>2. QED
      BY <1>6, <2>1 DEF SendGracePeriodStarted
  <1>7. CASE SendGracePeriodEnded
    <2>1. sent' \in Seq(Phases)
      BY <1>1, <1>7, SendProperties DEF SendGracePeriodEnded, Send
    <2>2. QED
      BY <1>7, <2>1 DEF SendGracePeriodEnded
  <1>8. CASE BindFails \/ RecvPhase \/ TimerFires \/ Drained \/ StopAccepting
    <2>1. main' \in {"build", "failed", "serving", "grace", "ended", "returned"}
      BY <1>8 DEF BindFails, RecvPhase, TimerFires, Drained, StopAccepting
    <2>2. accepting' \in BOOLEAN /\ (rx' = rx \/ rx' = rx + 1)
      BY <1>8, Zenon DEF BindFails, RecvPhase, TimerFires, Drained, StopAccepting
    <2>3. UNCHANGED <<token, sent, from, next, signals, handler, timer, conns, age>>
      BY <1>8 DEF BindFails, RecvPhase, TimerFires, Drained, StopAccepting
    <2>4. QED
      BY <2>1, <2>2, <2>3
  <1>9. ASSUME NEW installed \in SUBSET {"SIGINT", "SIGTERM"}, Start(installed)
        PROVE  TypeOK'
    BY <1>1, <1>9 DEF Start
  <1>10. ASSUME NEW c \in Conns, Accept(c) \/ Close(c)
         PROVE  TypeOK'
    BY <1>10 DEF Accept, Close
  <1>11. CASE Tick
    <2>1. age' \in 0 .. Timeout
      BY <1>11 DEF Tick
    <2>2. timer' \in 0 .. Timeout
      BY <1>11 DEF Tick
    <2>3. QED
      BY <1>11, <2>1, <2>2 DEF Tick
  <1>12. CASE UNCHANGED vars
    BY <1>12 DEF vars
  <1>13. QED
    BY <1>2, <1>3, <1>4, <1>5, <1>6, <1>7, <1>8, <1>9, <1>10, <1>11, <1>12
    DEF Next, SignalTask, MainTask

\* Initiated is sent first, once the token is cancelled.
LEMMA InitiatedFirstStep ==
    ASSUME IInv, [Next]_vars
    PROVE  InitiatedFirst'
  <1> USE DEF IInv, TypeOK, InitiatedFirst, notifier, receivers, server
  <1>1. \A p \in Phases :
            /\ Append(sent, p) # <<>>
            /\ sent # <<>> => Append(sent, p)[1] = sent[1]
            /\ sent = <<>> => Append(sent, p)[1] = p
    BY SendProperties
  <1>2. CASE Cancel
    BY <1>2 DEF Cancel
  <1>3. CASE SendInitiated
    <2>1. "Initiated" \in Phases /\ sent = <<>> /\ token
      BY <1>3 DEF SendInitiated, Phases
    <2>2. QED
      BY <1>1, <1>3, <2>1 DEF SendInitiated, Send
  <1>4. CASE SendGracePeriodStarted
    <2>1. "GracePeriodStarted" \in Phases /\ token
      BY <1>4 DEF SendGracePeriodStarted, Phases
    <2>2. sent # <<>>
      BY <1>4 DEF SendGracePeriodStarted, TimerAfterInitiated
    <2>3. QED
      BY <1>1, <1>4, <2>1, <2>2 DEF SendGracePeriodStarted, Send
  <1>5. CASE SendGracePeriodEnded
    <2>1. "GracePeriodEnded" \in Phases /\ sent # <<>>
      BY <1>5 DEF SendGracePeriodEnded, Phases, TimerAfterInitiated
    <2>2. QED
      BY <1>1, <1>5, <2>1 DEF SendGracePeriodEnded, Send
  <1>6. ASSUME NEW installed \in SUBSET {"SIGINT", "SIGTERM"}, Start(installed)
        PROVE  InitiatedFirst'
    <2>1. sent = <<>>
      BY <1>6 DEF Start, TimerAfterInitiated
    <2>2. QED
      BY <1>6, <2>1 DEF Start
  <1>7. ASSUME NEW g \in {"SIGINT", "SIGTERM"}, Signal(g)
        PROVE  InitiatedFirst'
    BY <1>7 DEF Signal
  <1>8. ASSUME UNCHANGED <<token, sent, handler>>
        PROVE  InitiatedFirst'
    BY <1>8
  <1>9. ASSUME \/ \E s \in Components : Subscribe(s) \/ Receive(s)
               \/ BindFails \/ RecvPhase \/ TimerFires \/ Drained \/ StopAccepting
               \/ \E c \in Conns : Accept(c) \/ Close(c)
               \/ Tick
               \/ UNCHANGED vars
        PROVE  UNCHANGED <<token, sent, handler>>
    BY <1>9 DEF Subscribe, Receive, BindFails, RecvPhase, TimerFires, Drained,
        StopAccepting, Accept, Close, Tick, vars
  <1>10. QED
    BY <1>2, <1>3, <1>4, <1>5, <1>6, <1>7, <1>8, <1>9 DEF Next, SignalTask, MainTask

\* The sleep starts after Initiated.
LEMMA TimerStep ==
    ASSUME IInv, [Next]_vars
    PROVE  TimerAfterInitiated'
  <1> USE TimeoutAssumption
  <1> USE DEF IInv, TypeOK, TimerAfterInitiated, notifier, receivers, server
  <1>1. \A p \in Phases : Append(sent, p) # <<>>
    BY SendProperties
  <1>2. CASE SendInitiated \/ SendGracePeriodStarted \/ SendGracePeriodEnded
    <2>1. sent' # <<>>
      BY <1>1, <1>2 DEF SendInitiated, SendGracePeriodStarted, SendGracePeriodEnded, Send,
          Phases
    <2>2. timer' = timer /\ age' = age /\ rx' = rx
      BY <1>2 DEF SendInitiated, SendGracePeriodStarted, SendGracePeriodEnded
    <2>3. main' # "build" /\ (main' = "serving" => main = "serving")
      BY <1>2 DEF SendInitiated, SendGracePeriodStarted, SendGracePeriodEnded
    <2>4. QED
      BY <2>1, <2>2, <2>3
  <1>3. CASE RecvPhase
    <2>1. rx > 0 /\ rx \in Nat /\ rx <= Len(sent)
      BY <1>3 DEF RecvPhase
    <2>2. sent # <<>>
      BY <2>1, EmptySeq
    <2>3. rx' = rx + 1 /\ main' \in {"serving", "grace"} /\ timer' = timer /\ age' = age
          /\ sent' = sent
      BY <1>3 DEF RecvPhase
    <2>4. QED
      BY <2>1, <2>2, <2>3
  <1>4. CASE Tick
    <2>1. timer' <= age'
      BY <1>4 DEF Tick
    <2>2. QED
      BY <1>4, <2>1 DEF Tick
  <1>5. CASE BindFails \/ TimerFires \/ Drained \/ StopAccepting \/ Cancel
    BY <1>5 DEF BindFails, TimerFires, Drained, StopAccepting, Cancel
  <1>6. CASE \/ \E s \in Components : Subscribe(s) \/ Receive(s)
             \/ \E g \in {"SIGINT", "SIGTERM"} : Signal(g)
             \/ \E installed \in SUBSET {"SIGINT", "SIGTERM"} : Start(installed)
             \/ \E c \in Conns : Accept(c) \/ Close(c)
    BY <1>6 DEF Subscribe, Receive, Signal, Start, Accept, Close
  <1>7. CASE UNCHANGED vars
    BY <1>7 DEF vars
  <1>8. QED
    BY <1>2, <1>3, <1>4, <1>5, <1>6, <1>7 DEF Next, SignalTask, MainTask

\* No receiver is ahead of the channel.
LEMMA SubscribedStep ==
    ASSUME IInv, [Next]_vars
    PROVE  Subscribed'
  <1> USE DEF IInv, TypeOK, Subscribed, notifier, receivers, server
  <1>1. Len(sent) \in Nat /\ \A p \in Phases : Len(Append(sent, p)) = Len(sent) + 1
    BY SendProperties
  <1>2. ASSUME NEW s \in Components, Subscribe(s) \/ Receive(s)
        PROVE  Subscribed'
    BY <1>1, <1>2 DEF Subscribe, Receive
  <1>3. CASE SendInitiated \/ SendGracePeriodStarted \/ SendGracePeriodEnded
    <2>1. Len(sent') = Len(sent) + 1 /\ from' = from /\ next' = next
      BY <1>1, <1>3 DEF SendInitiated, SendGracePeriodStarted, SendGracePeriodEnded, Send,
          Phases
    <2>2. QED
      BY <1>1, <2>1
  <1>4. ASSUME UNCHANGED <<sent, from, next>>
        PROVE  Subscribed'
    BY <1>4
  <1>5. ASSUME \/ \E g \in {"SIGINT", "SIGTERM"} : Signal(g)
               \/ Cancel \/ BindFails \/ RecvPhase \/ TimerFires \/ Drained
               \/ StopAccepting \/ Tick
               \/ \E installed \in SUBSET {"SIGINT", "SIGTERM"} : Start(installed)
               \/ \E c \in Conns : Accept(c) \/ Close(c)
               \/ UNCHANGED vars
        PROVE  UNCHANGED <<sent, from, next>>
    BY <1>5 DEF Signal, Cancel, BindFails, RecvPhase, TimerFires, Drained, StopAccepting,
        Tick, Start, Accept, Close, vars
  <1>6. QED
    BY <1>2, <1>3, <1>4, <1>5 DEF Next, SignalTask, MainTask

\* The inductive invariant holds.
THEOREM Invariance == Spec => []IInv
  <1>1. Init => IInv
    <2> SUFFICES ASSUME Init PROVE IInv
      OBVIOUS
    <2>1. TypeOK
      <3>1. sent \in Seq(Phases)
        BY DEF Init
      <3>2. from \in [Components -> Nat] /\ next \in [Components -> Nat]
        BY DEF Init
      <3>3. token \in BOOLEAN /\ accepting \in BOOLEAN
        BY DEF Init
      <3>4. QED
        BY <3>1, <3>2, <3>3, TimeoutAssumption DEF Init, TypeOK
    <2>2. InitiatedFirst /\ TimerAfterInitiated
      BY DEF Init, InitiatedFirst, TimerAfterInitiated
    <2>3. Subscribed
      <3>1. Len(sent) + 1 \in Nat /\ 0 <= Len(sent) + 1
        BY <2>1 DEF TypeOK
      <3>2. \A s \in Components : from[s] = 0 /\ next[s] = 0
        BY DEF Init
      <3>3. QED
        BY <3>1, <3>2 DEF Subscribed
    <2>4. QED
      BY <2>1, <2>2, <2>3 DEF IInv
  <1>2. IInv /\ [Next]_vars => IInv'
    BY TypeStep, InitiatedFirstStep, TimerStep, SubscribedStep DEF IInv
  <1>3. QED
    BY <1>1, <1>2, PTL DEF Spec

\* Type correctness.
THEOREM TypeCorrect == Spec => []TypeOK
  <1>1. IInv => TypeOK
    BY DEF IInv
  <1>2. QED
    BY <1>1, Invariance, PTL

\* Subscribing and then looking at the token cannot miss a shutdown.
THEOREM NoMissedShutdownHolds == Spec => []NoMissedShutdown
  <1>1. ASSUME IInv
        PROVE  NoMissedShutdown
    <2>1. Len(sent) \in Nat /\ (Len(sent) > 0 => sent # <<>>)
      BY <1>1, EmptySeq DEF IInv, TypeOK
    <2>2. sent # <<>> => token /\ sent[1] = "Initiated"
      BY <1>1 DEF IInv, InitiatedFirst
    <2>3. \A s \in Components : /\ from[s] \in Nat /\ from[s] <= Len(sent) + 1
                                /\ next[s] \in Nat /\ next[s] <= Len(sent) + 1
      BY <1>1 DEF IInv, TypeOK, Subscribed
    <2>4. ASSUME NEW s \in Components
          PROVE  /\ from[s] > 1 => token
                 /\ from[s] = 1 /\ next[s] > 1 => token /\ sent[1] = "Initiated"
      <3>1. from[s] > 1 \/ next[s] > 1 => Len(sent) > 0
        BY <2>1, <2>3
      <3>2. from[s] > 1 \/ next[s] > 1 => sent # <<>>
        BY <2>1, <3>1
      <3>3. QED
        BY <2>2, <3>2
    <2>5. QED
      BY <2>4 DEF NoMissedShutdown
  <1>2. QED
    BY <1>1, Invariance, PTL

\* Open connections get the whole shutdown_timeout after the signal.
THEOREM FullGraceHolds == Spec => FullGrace
  <1>1. ASSUME IInv, [Next]_vars, Serving, ~Serving'
        PROVE  token /\ (conns = {} \/ age >= Timeout)
    <2> USE DEF notifier, receivers, server, Serving
    <2>1. CASE TimerFires
      <3>1. token
        BY <1>1, <2>1 DEF TimerFires, IInv, TimerAfterInitiated, InitiatedFirst
      <3>2. age >= Timeout
        BY <1>1, <2>1, TimeoutAssumption
        DEF TimerFires, IInv, TypeOK, TimerAfterInitiated
      <3>3. QED
        BY <3>1, <3>2
    <2>2. CASE Drained
      BY <1>1, <2>2 DEF Drained, IInv, InitiatedFirst
    <2>3. CASE BindFails \/ SendGracePeriodEnded
               \/ \E installed \in SUBSET {"SIGINT", "SIGTERM"} : Start(installed)
      BY <1>1, <2>3 DEF BindFails, SendGracePeriodEnded, Start
    <2>4. CASE RecvPhase
      BY <1>1, <2>4 DEF RecvPhase
    <2>5. ASSUME \/ \E s \in Components : Subscribe(s) \/ Receive(s)
                 \/ \E g \in {"SIGINT", "SIGTERM"} : Signal(g)
                 \/ SignalTask \/ StopAccepting \/ Tick
                 \/ \E c \in Conns : Accept(c) \/ Close(c)
                 \/ UNCHANGED vars
          PROVE  main' = main
      BY <2>5 DEF Subscribe, Receive, Signal, SignalTask, Cancel, SendInitiated,
          SendGracePeriodStarted, StopAccepting, Tick, Accept, Close, vars
    <2>6. QED
      BY <1>1, <2>1, <2>2, <2>3, <2>4, <2>5 DEF Next, MainTask
  <1>2. IInv /\ [Next]_vars
            => [Serving /\ ~Serving' => token /\ (conns = {} \/ age >= Timeout)]_vars
    BY <1>1
  <1>3. QED
    BY <1>2, Invariance, PTL DEF Spec, FullGrace
=============================================================================
