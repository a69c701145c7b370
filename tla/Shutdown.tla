------------------------------ MODULE Shutdown ------------------------------
(***************************************************************************)
(* Graceful shutdown: `FluentRouter::start` and the signal task it hands   *)
(* to axum (src/src/fluent/builder.rs), and the `ShutdownNotifier` through *)
(* which application components learn of it (src/src/fluent/shutdown.rs).  *)
(*                                                                         *)
(* Three kinds of task run side by side.  The signal task waits for a      *)
(* signal, emits two phases and returns.  The main task is the select! of  *)
(* start: the accept loop with the wait for open connections, against the  *)
(* wait for Initiated followed by a sleep.  The components subscribe and   *)
(* receive when they like.                                                 *)
(*                                                                         *)
(* axum::serve spawns the signal future as a task of its own, stops the    *)
(* accept loop some time after that future has returned, runs every        *)
(* connection as a task of its own and ends when all are closed.           *)
(***************************************************************************)
EXTENDS Naturals, Sequences

CONSTANTS
    Components,   \* application components that subscribe to the phases
    Conns,        \* client connections
    Timeout       \* shutdown_timeout, in ticks of the clock

ASSUME TimeoutAssumption == Timeout \in Nat

VARIABLES
    token,      \* cancel_token: is it cancelled?
    sent,       \* the phases sent on the broadcast channel, in order
    from,       \* per component: the first phase its receiver gets (0: none yet)
    next,       \* per component: the next phase it receives
    signals,    \* the signals the signal task has a handler for
    handler,    \* where the signal task is
    main,       \* where start is
    rx,         \* shutdown_rx of start: the next phase it receives
    timer,      \* ticks of the sleep in start
    accepting,  \* is the accept loop running?
    conns,      \* open connections
    age         \* history: ticks since Initiated was sent, up to Timeout

notifier == <<token, sent>>
receivers == <<from, next>>
server == <<accepting, conns>>
vars == <<notifier, receivers, signals, handler, main, rx, timer, server, age>>

Phases == {"Initiated", "GracePeriodStarted", "GracePeriodEnded"}

Serving == main \in {"serving", "grace"}

Init ==
    /\ token = FALSE
    /\ sent = <<>>
    /\ from = [s \in Components |-> 0]
    /\ next = [s \in Components |-> 0]
    /\ signals = {}
    /\ handler = "none"
    /\ main = "build"
    /\ rx = 0
    /\ timer = 0
    /\ accepting = FALSE
    /\ conns = {}
    /\ age = 0

-----------------------------------------------------------------------------
(* ShutdownNotifier *)

\* emit sends the phase to whoever is subscribed at this moment.  At most three
\* phases are ever sent, so a channel of capacity 16 drops none.
Send(phase) == sent' = Append(sent, phase)

\* subscribe: the receiver gets what is sent from now on.
Subscribe(s) ==
    /\ from[s] = 0
    /\ from' = [from EXCEPT ![s] = Len(sent) + 1]
    /\ next' = [next EXCEPT ![s] = Len(sent) + 1]
    /\ UNCHANGED <<notifier, signals, handler, main, rx, timer, server, age>>

Receive(s) ==
    /\ from[s] # 0
    /\ next[s] <= Len(sent)
    /\ next' = [next EXCEPT ![s] = @ + 1]
    /\ UNCHANGED <<notifier, from, signals, handler, main, rx, timer, server, age>>

-----------------------------------------------------------------------------
(* The signal task, shutdown_signal_with_notifications *)

\* ctrl_c or terminate completes; a handler that could not be installed waits
\* for ever.
Signal(g) ==
    /\ handler = "wait"
    /\ g \in signals
    /\ handler' = "cancel"
    /\ UNCHANGED <<notifier, receivers, signals, main, rx, timer, server, age>>

\* Defective variant: emit does not trigger the token.
CancelForgotten ==
    /\ handler = "cancel"
    /\ handler' = "initiate"
    /\ UNCHANGED <<notifier, receivers, signals, main, rx, timer, server, age>>

\* emit(Initiated) cancels the token ...
Cancel ==
    /\ handler = "cancel"
    /\ token' = TRUE
    /\ handler' = "initiate"
    /\ UNCHANGED <<sent, receivers, signals, main, rx, timer, server, age>>

\* ... and then sends the phase.
SendInitiated ==
    /\ handler = "initiate"
    /\ Send("Initiated")
    /\ handler' = "grace"
    /\ UNCHANGED <<token, receivers, signals, main, rx, timer, server, age>>

\* emit(GracePeriodStarted), and the task returns.
SendGracePeriodStarted ==
    /\ handler = "grace"
    /\ Send("GracePeriodStarted")
    /\ handler' = "done"
    /\ UNCHANGED <<token, receivers, signals, main, rx, timer, server, age>>

-----------------------------------------------------------------------------
(* start *)

\* The port cannot be bound.
BindFails ==
    /\ main = "build"
    /\ main' = "failed"
    /\ UNCHANGED <<notifier, receivers, signals, handler, rx, timer, server, age>>

\* Defective variant: shutdown_rx subscribes too late to get the first phase.
StartLate(installed) ==
    /\ main = "build"
    /\ main' = "serving"
    /\ rx' = Len(sent) + 2
    /\ handler' = "wait"
    /\ signals' = installed
    /\ accepting' = TRUE
    /\ UNCHANGED <<notifier, receivers, timer, conns, age>>

\* The listener is bound, shutdown_rx subscribes, then axum spawns the signal
\* task, which installs the handlers it can.
Start(installed) ==
    /\ main = "build"
    /\ main' = "serving"
    /\ rx' = Len(sent) + 1
    /\ handler' = "wait"
    /\ signals' = installed
    /\ accepting' = TRUE
    /\ UNCHANGED <<notifier, receivers, timer, conns, age>>

\* Defective variant: the sleep starts with the server, not with the signal.
RecvPhaseEager ==
    /\ main = "serving"
    /\ main' = "grace"
    /\ UNCHANGED <<notifier, receivers, signals, handler, rx, timer, server, age>>

\* shutdown_rx.recv(): Initiated starts the sleep, another phase is skipped.
RecvPhase ==
    /\ main = "serving"
    /\ rx <= Len(sent)
    /\ rx' = rx + 1
    /\ main' = IF sent[rx] = "Initiated" THEN "grace" ELSE "serving"
    /\ UNCHANGED <<notifier, receivers, signals, handler, timer, server, age>>

\* The sleep is over: select! drops the serve future, and with it the listener;
\* connections go on in their own tasks.
TimerFires ==
    /\ main = "grace"
    /\ timer = Timeout
    /\ main' = "ended"
    /\ accepting' = FALSE
    /\ UNCHANGED <<notifier, receivers, signals, handler, rx, timer, conns, age>>

\* emit(GracePeriodEnded), and start returns Ok.
SendGracePeriodEnded ==
    /\ main = "ended"
    /\ Send("GracePeriodEnded")
    /\ main' = "returned"
    /\ UNCHANGED <<token, receivers, signals, handler, rx, timer, server, age>>

\* The serve future is done: no accept loop and no connection is left.
Drained ==
    /\ Serving
    /\ handler = "done"
    /\ ~accepting
    /\ conns = {}
    /\ main' = "returned"
    /\ UNCHANGED <<notifier, receivers, signals, handler, rx, timer, server, age>>

-----------------------------------------------------------------------------
(* axum::serve *)

\* The accept loop sees that the signal task has returned.
StopAccepting ==
    /\ Serving
    /\ handler = "done"
    /\ accepting
    /\ accepting' = FALSE
    /\ UNCHANGED <<notifier, receivers, signals, handler, main, rx, timer, conns, age>>

Accept(c) ==
    /\ accepting
    /\ c \notin conns
    /\ conns' = conns \cup {c}
    /\ UNCHANGED <<notifier, receivers, signals, handler, main, rx, timer, accepting, age>>

\* A connection is closed, its requests answered; it may never be.
Close(c) ==
    /\ c \in conns
    /\ conns' = conns \ {c}
    /\ UNCHANGED <<notifier, receivers, signals, handler, main, rx, timer, accepting, age>>

\* Defective variant: the sleep is not bounded by shutdown_timeout.
TickPastTimeout ==
    /\ main = "grace"
    /\ age' = Timeout
    /\ timer' = timer + 1
    /\ UNCHANGED <<notifier, receivers, signals, handler, main, rx, server>>

\* One unit of time passes.
Tick ==
    LET aging == sent # <<>> /\ age < Timeout
        sleeping == main = "grace" /\ timer < Timeout
    IN  /\ aging \/ sleeping
        /\ age' = IF aging THEN age + 1 ELSE age
        /\ timer' = IF sleeping THEN timer + 1 ELSE timer
        /\ UNCHANGED <<notifier, receivers, signals, handler, main, rx, server>>

SignalTask ==
    \/ Cancel \/ SendInitiated \/ SendGracePeriodStarted

MainTask ==
    \/ RecvPhase \/ TimerFires \/ SendGracePeriodEnded \/ Drained \/ StopAccepting

Next ==
    \/ \E s \in Components : Subscribe(s) \/ Receive(s)
    \/ \E g \in {"SIGINT", "SIGTERM"} : Signal(g)
    \/ SignalTask
    \/ MainTask
    \/ BindFails
    \/ \E installed \in SUBSET {"SIGINT", "SIGTERM"} : Start(installed)
    \/ \E c \in Conns : Accept(c) \/ Close(c)
    \/ Tick

Spec == Init /\ [][Next]_vars

\* The runtime keeps polling both tasks and the clock advances.  Nothing is
\* assumed of the connections: a handler may run for ever.
FairSpec ==
    /\ Spec
    /\ WF_vars(SignalTask)
    /\ WF_vars(MainTask)
    /\ WF_vars(Tick)

-----------------------------------------------------------------------------
(* Properties *)

\* Type invariant.
TypeOK ==
    /\ token \in BOOLEAN
    /\ sent \in Seq(Phases)
    /\ from \in [Components -> Nat]
    /\ next \in [Components -> Nat]
    /\ signals \subseteq {"SIGINT", "SIGTERM"}
    /\ handler \in {"none", "wait", "cancel", "initiate", "grace", "done"}
    /\ main \in {"build", "failed", "serving", "grace", "ended", "returned"}
    /\ rx \in Nat
    /\ timer \in 0 .. Timeout
    /\ accepting \in BOOLEAN
    /\ conns \subseteq Conns
    /\ age \in 0 .. Timeout

\* start gives up on open connections only when a shutdown was initiated and the
\* whole shutdown_timeout has passed since; without a signal it never does.
FullGrace ==
    [][Serving /\ ~Serving' => token /\ (conns = {} \/ age >= Timeout)]_vars

\* A component that subscribes and then looks at the cancellation token cannot
\* miss a shutdown: its receiver gets Initiated, or the token was cancelled
\* before it subscribed.
NoMissedShutdown ==
    \A s \in Components :
        /\ from[s] > 1 => token
        /\ from[s] = 1 /\ next[s] > 1 => token /\ sent[1] = "Initiated"

\* A signal ends the server, whatever the connections do: the receiver of start
\* does not miss Initiated, and the sleep is started.
ShutdownCompletes == handler = "cancel" ~> main = "returned"

\* The inductive invariant: the signal task cancels the token before it sends
\* anything and Initiated is what it sends first; the sleep starts after that and
\* is never ahead of the history; no receiver is ahead of the channel.
InitiatedFirst ==
    /\ handler \in {"initiate", "grace", "done"} => token
    /\ handler \in {"grace", "done"} <=> sent # <<>>
    /\ sent # <<>> => sent[1] = "Initiated"

TimerAfterInitiated ==
    /\ timer <= age
    /\ main = "build" => handler = "none"
    /\ main = "serving" => rx > 0
    /\ main \in {"grace", "ended"} => sent # <<>>

Subscribed ==
    \A s \in Components : from[s] <= Len(sent) + 1 /\ next[s] <= Len(sent) + 1

IInv == TypeOK /\ InitiatedFirst /\ TimerAfterInitiated /\ Subscribed
=============================================================================
