---------------------------- MODULE AtLeastOnce -----------------------------
(***************************************************************************)
(* What the ARQ of udp/conversation.go promises the layer above it: what   *)
(* is delivered was sent, every message is delivered in the end, messages  *)
(* arrive in any order, and one may arrive again after it was delivered.   *)
(*                                                                         *)
(* SelectiveRepeat.tla implements it; VoteManager.tla is built on it.      *)
(***************************************************************************)
CONSTANT Messages

VARIABLES
    sent,        \* every message handed to the channel so far
    undelivered  \* those not delivered since they were last handed over

vars == <<sent, undelivered>>

Init == sent = {} /\ undelivered = {}

(* A step delivers at most one message and may hand over some, all of      *)
(* which are now owed.  A message sent before may be delivered again,      *)
(* which changes nothing here.                                             *)
Next ==
    /\ sent \subseteq sent'
    /\ sent' \subseteq Messages
    /\ sent' \ sent \subseteq undelivered'
    /\ undelivered' \subseteq sent'
    /\ \A m, n \in undelivered \ undelivered' : m = n

Spec == Init /\ [][Next]_vars

FairSpec == Spec /\ \A m \in Messages : m \in undelivered ~> m \notin undelivered
=============================================================================
