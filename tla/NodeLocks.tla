----------------------------- MODULE NodeLocks ------------------------------
(***************************************************************************)
(* The mutexes of a node, and the order in which its goroutines take them. *)
(***************************************************************************)
EXTENDS Naturals

CONSTANTS
    Conversations, \* those that the node may come to have
    Datagrams,     \* bound: the datagrams that are handled at one time
    None           \* no lock, and no goroutine

(* A looper, which goes by the name of its conversation, or a goroutine of *)
(* handleIncomingPackets.                                                  *)
Goroutines == Conversations \cup Datagrams

incoming(c) == [kind |-> "incoming_lock", of |-> c]
outgoing(c) == [kind |-> "outgoing_lock", of |-> c]
h_referendums == [kind |-> "h_referendums_lock"]
c_referendums == [kind |-> "c_referendums_lock"]
conversations_lock == [kind |-> "conversations_lock"]
generatedConvIDs == [kind |-> "generatedConvIDs_lock"]

(* Of any referendum: it is only taken under h_referendums_lock, by the    *)
(* host, or c_referendums_lock, by a client.                               *)
h_referendum == [kind |-> "referendum_lock", of |-> h_referendums]
c_referendum == [kind |-> "referendum_lock", of |-> c_referendums]

Lock ==
    {incoming(c) : c \in Conversations} \cup {outgoing(c) : c \in Conversations}
    \cup {h_referendums, c_referendums, conversations_lock, generatedConvIDs,
          h_referendum, c_referendum}

ASSUME NoneAssumption == None \notin Goroutines \cup Lock

(* Who holds a lock waits for locks of lower levels only. *)
LevelOf ==
    [incoming_lock |-> 4, h_referendums_lock |-> 3, c_referendums_lock |-> 3,
     conversations_lock |-> 2, referendum_lock |-> 1, outgoing_lock |-> 0,
     generatedConvIDs_lock |-> 0]

Level(l) == LevelOf[l.kind]
=============================================================================
