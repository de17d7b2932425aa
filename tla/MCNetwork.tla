------------------------------ MODULE MCNetwork ------------------------------
(* NetworkRuntime for TLC. *)
EXTENDS NetworkRuntime
=============================================================================
