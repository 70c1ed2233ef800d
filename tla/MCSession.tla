----------------------------- MODULE MCSession ------------------------------
(* The instance of Session for TLC: two PING_RES for one client. *)
EXTENDS Session

CONSTANTS i1, i2
=============================================================================
