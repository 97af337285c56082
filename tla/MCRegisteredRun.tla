-------------------------- MODULE MCRegisteredRun --------------------------
(* Instances of RegisteredRun for TLC. *)
EXTENDS RegisteredRun
=============================================================================
