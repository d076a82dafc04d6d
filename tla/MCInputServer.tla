---------------------------- MODULE MCInputServer ----------------------------
(* Small instances of the input server for TLC. *)
EXTENDS InputServer, TLC

(* The server treats all keys alike. *)
Symmetry == Permutations(Keys)
=============================================================================
