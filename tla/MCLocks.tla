------------------------------ MODULE MCLocks -------------------------------
(* The instance of Locks for TLC. *)
EXTENDS Locks

CONSTANTS c1, c2, d1
=============================================================================
