----------------------------- MODULE MCReadiness ----------------------------
(* Two callers of the database, whose breaker is created on first use, and *)
(* one of a target with a section in the configuration.                    *)
EXTENDS Readiness, TLC

MCServes == "c1" :> "database" @@ "c2" :> "database" @@ "c3" :> "api"
=============================================================================
