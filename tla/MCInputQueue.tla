---------------------------- MODULE MCInputQueue ----------------------------
(* A small ring for TLC. *)
EXTENDS InputQueue
=============================================================================
