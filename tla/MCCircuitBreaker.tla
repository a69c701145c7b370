--------------------------- MODULE MCCircuitBreaker ---------------------------
(***************************************************************************)
(* Instances of CircuitBreaker for TLC.  The guarded calls are database    *)
(* calls: one error that is degradation and one that is not.               *)
(***************************************************************************)
EXTENDS CircuitBreaker, TLC

PoolErrors == {"PoolTimedOut", "RowNotFound"}
PoolFailures == {e \in PoolErrors : sqlx_is_degradation(e)}

Symmetry == Permutations(Callers)
===============================================================================
