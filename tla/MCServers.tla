------------------------------ MODULE MCServers ------------------------------
(* Small instances of the five programs for TLC. *)
EXTENDS Servers
=============================================================================
