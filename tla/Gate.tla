-------------------------------- MODULE Gate --------------------------------
(***************************************************************************)
(* What a circuit breaker promises its target and its callers, without the *)
(* counters it keeps its promise with.  A gate is closed (the circuit is:  *)
(* calls pass), open, or on trial.  Only the end of a call opens it; while *)
(* it is open nothing passes until `wait` has run down, and what the calls *)
(* still running come to makes no difference; the first call to pass after *)
(* that starts a trial, which lets at most Budget calls pass and ends with *)
(* the end of a call, for good or ill.                                     *)
(***************************************************************************)
EXTENDS Naturals

CONSTANTS
    Callers, \* those who may call
    Window,  \* how long the gate stays open
    Budget   \* calls that may pass in one trial

VARIABLES phase, wait, spent, running
vars == <<phase, wait, spent, running>>

Init == phase = "closed" /\ wait = 0 /\ spent = 0 /\ running = {}

Pass(c) ==
    /\ c \notin running /\ running' = running \union {c}
    /\ \/ phase = "closed" /\ UNCHANGED <<phase, wait, spent>>
       \/ phase = "open" /\ wait = 0
          /\ phase' = "trial" /\ spent' = 1 /\ UNCHANGED wait
       \/ phase = "trial" /\ spent < Budget
          /\ spent' = spent + 1 /\ UNCHANGED <<phase, wait>>

Opens == phase # "open" /\ phase' = "open" /\ wait' = Window /\ spent' = 0
Closes == phase = "trial" /\ phase' = "closed" /\ spent' = 0 /\ UNCHANGED wait

\* A call ends, with whatever outcome.
End(c) ==
    /\ c \in running /\ running' = running \ {c}
    /\ Opens \/ Closes \/ UNCHANGED <<phase, wait, spent>>

\* Time passes.
Wait ==
    /\ phase = "open" /\ wait > 0
    /\ wait' = wait - 1 /\ UNCHANGED <<phase, spent, running>>

Next == (\E c \in Callers : Pass(c) \/ End(c)) \/ Wait

Spec == Init /\ [][Next]_vars
=============================================================================
