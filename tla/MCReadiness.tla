---------------------------- MODULE MCReadiness ----------------------------
(* Instances of Readiness for the model checker. *)
EXTENDS Readiness
=============================================================================
