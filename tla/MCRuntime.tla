----------------------------- MODULE MCRuntime -----------------------------
(* Instances of Runtime for the model checker. *)
EXTENDS Runtime
=============================================================================
