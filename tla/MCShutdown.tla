------------------------------ MODULE MCShutdown ------------------------------
(***************************************************************************)
(* Instances of Shutdown for TLC.  Liveness is checked with the rest, so   *)
(* no symmetry is declared.                                                *)
(***************************************************************************)
EXTENDS Shutdown, TLC
===============================================================================
