--------------------------- MODULE MCVoteManager ----------------------------
(* Instances of VoteManager for TLC. *)
EXTENDS VoteManager

(* For runs without fairness.  Of `undelivered` their guards read only the *)
(* requests that are handled once, which are in it until the vote opens.   *)
SafetyView == <<presence, h_referendums, c_referendums, sent, history>>
=============================================================================
