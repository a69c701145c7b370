------------------------------- MODULE MCDedup -------------------------------
(***************************************************************************)
(* Instances of Dedup for TLC.  The sets are too small, and the behaviours *)
(* checked for liveness, so no symmetry is declared.                       *)
(***************************************************************************)
EXTENDS Dedup, TLC
==============================================================================
