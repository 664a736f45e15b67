---------------------------- MODULE MCInitiatives ----------------------------
(* Small instances of Initiatives for TLC. *)
EXTENDS Initiatives

CONSTANTS o1, o2, project

=============================================================================
