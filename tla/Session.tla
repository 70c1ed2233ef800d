------------------------------- MODULE Session -------------------------------
(***************************************************************************)
(* How one client process gets into the server's votes and out of them:    *)
(* the PING exchange that gives it a conversation ID, SYN, the hellos, and *)
(* what the server's loopers and cleaner make of silence.                  *)
(*                                                                         *)
(* No lock guards conversation_id_self, LastOnline, missedSYNs and online: *)
(* a check and the write that follows it are separate steps.  Two PING_RES *)
(* may overwrite each other; the server is then left with a conversation   *)
(* of an ID that no process has, a ghost.                                  *)
(*                                                                         *)
(* Datagrams of the server arrive at once or never.  Those of the client   *)
(* arrive at once, late or never, also after the process has ended.        *)
(***************************************************************************)
EXTENDS Naturals, FiniteSets

CONSTANTS
    IDs,      \* bound: the conversation IDs that the server may draw
    Slow,     \* bound: those in datagrams of the client that may be late
    MaxLate,  \* bound: how many are late at a time
    NoID      \* 0, the conversation_id_self before the PING_RES; and "none"

ASSUME NoIDAssumption == NoID \notin IDs
ASSUME BoundsAssumption == Slow \subseteq IDs /\ MaxLate \in Nat

VARIABLES
    (* The client. *)
    conversation_id_self,
    synID,         \* the ID in synPckt, NoID while client_connect still pings
    checked,       \* PING_RES goroutines that saw no ID and are about to set theirs
    contact,       \* its conversation with the server: "none", "new", "running"
    helloWaiting,  \* a hello of the server is in its `incoming`
    greetings,     \* IDs in its unacknowledged hellos and hello_backs
    alive,         \* the process runs
    (* The network. *)
    offered,       \* IDs in PING_RES under way
    late,          \* late datagrams: what is under way to the server, and its ID
    (* The server. *)
    generatedConvIDs,
    conversations,
    hellos,        \* conversations whose hello has no ACK yet
    incoming,      \* conversations with a greeting of the client in `incoming`
    features,      \* conversations whose features hold simple_eval
    online,
    silent,        \* those whose LastOnline is more than 5 s ago
    doomed         \* the conversation that the cleaner is about to mark offline

client == <<conversation_id_self, synID, checked, contact, helloWaiting, greetings, alive>>
assigning == <<offered, generatedConvIDs>>
greeting == <<incoming, features>>
presence == <<conversations, hellos, online, silent, doomed>>
vars == <<client, assigning, late, greeting, presence>>

-----------------------------------------------------------------------------
(* Getting an ID.                                                          *)

(* A PING_REQ reaches the server, which draws an ID under                  *)
(* generatedConvIDs_lock and sends it.                                     *)
generateConversationID(i) ==
    /\ alive /\ synID = NoID
    /\ i \in IDs \ generatedConvIDs
    /\ generatedConvIDs' = generatedConvIDs \cup {i}
    /\ offered' = offered \cup {i}
    /\ UNCHANGED <<client, late, greeting, presence>>

(* Bound: when no ID is left to draw the PING_RES under way are not lost. *)
LosePingRes(i) ==
    /\ i \in offered
    /\ generatedConvIDs # IDs
    /\ offered' = offered \ {i}
    /\ UNCHANGED <<client, generatedConvIDs, late, greeting, presence>>

(* Each datagram has its goroutine: the check ...                          *)
ReceivePingRes(i) ==
    /\ alive
    /\ i \in offered
    /\ offered' = offered \ {i}
    /\ checked' = IF conversation_id_self = NoID THEN checked \cup {i} ELSE checked
    /\ UNCHANGED <<conversation_id_self, synID, contact, helloWaiting, greetings, alive,
                   generatedConvIDs, late, greeting, presence>>

(* ... and the assignment. *)
SetConversationID(i) ==
    /\ i \in checked
    /\ conversation_id_self' = i
    /\ checked' = checked \ {i}
    /\ UNCHANGED <<synID, contact, helloWaiting, greetings, alive,
                   assigning, late, greeting, presence>>

(* client_connect leaves its first loop and builds synPckt. *)
client_connect ==
    /\ synID = NoID
    /\ conversation_id_self # NoID
    /\ synID' = conversation_id_self
    /\ UNCHANGED <<conversation_id_self, checked, contact, helloWaiting, greetings, alive,
                   assigning, late, greeting, presence>>

-----------------------------------------------------------------------------
(* Datagrams.                                                              *)

(* Mutant: the ID that client_connect saw. *)
Stamp_AtConnect == synID

(* The ConvID of what the client sends, or queues, now. *)
Stamp == conversation_id_self

(* The client's conversation once a datagram of the server has reached it: *)
(* it is made unless it exists; without an ID the datagram is dropped.     *)
Reached ==
    IF contact = "none" /\ conversation_id_self # NoID THEN "new" ELSE contact

(* Mutant: the new conversation is not stored in the map. *)
Heard_NotStored(i) ==
    /\ online' = online \cup {i}
    /\ silent' = silent \ {i}
    /\ UNCHANGED <<conversations, doomed>>

(* handleIncomingPackets makes the conversation unless it exists, online   *)
(* and just heard; ARQ_Receive marks an old one so.                        *)
Heard(i) ==
    /\ conversations' = conversations \cup {i}
    /\ online' = online \cup {i}
    /\ silent' = silent \ {i}
    /\ UNCHANGED doomed

(* The first step of a new looper queues a hello, its packet 0. *)
Greeted(i) == hellos' = IF i \in conversations THEN hellos ELSE hellos \cup {i}

(* An ACK counts for packet 0 of the conversation, whichever hello it      *)
(* answers, unless the conversation's looper has not queued it yet.        *)
Acknowledged(i) == Greeted(i) \/ hellos' = hellos \ {i}

(* What may be late: SYN and SYN_ACK, ACK, hello and hello_back.           *)
Types == {"SYN", "ACK", "hello"}

Delayed(type, i) ==
    late' = IF Cardinality(late) < MaxLate THEN late \cup ({type} \X ({i} \cap Slow))
                                           ELSE late

(* A SYN or SYN_ACK of the client: it arrives, or is late or lost. *)
SendSYNs(i, arrives) ==
    \/ arrives /\ Heard(i) /\ Greeted(i) /\ UNCHANGED late
    \/ ~arrives /\ Delayed("SYN", i) /\ UNCHANGED presence

SendACK(i, arrives) ==
    \/ arrives /\ Heard(i) /\ Acknowledged(i) /\ UNCHANGED late
    \/ ~arrives /\ Delayed("ACK", i) /\ UNCHANGED presence

(* A copy of a greeting is late, while the client goes on repeating it.    *)
DelayGreeting(i) ==
    /\ i \in greetings \cap Slow
    /\ Delayed("hello", i)
    /\ UNCHANGED <<client, assigning, greeting, presence>>

(* A late greeting may be one that was acknowledged since, or one of a     *)
(* process that ended; an ACK for it may reach the client.                 *)
LateArrives(type, i) ==
    /\ <<type, i>> \in late
    /\ late' = late \ {<<type, i>>}
    /\ Heard(i)
    /\ IF type = "ACK" THEN Acknowledged(i) ELSE Greeted(i)
    /\ incoming' = IF type = "hello" THEN incoming \cup {i} ELSE incoming
    /\ greetings' \in {greetings} \cup (IF type = "hello" THEN {greetings \ {i}} ELSE {})
    /\ UNCHANGED <<conversation_id_self, synID, checked, contact, helloWaiting, alive,
                   assigning, features>>

Lose(type, i) ==
    /\ <<type, i>> \in late
    /\ late' = late \ {<<type, i>>}
    /\ UNCHANGED <<client, assigning, greeting, presence>>

-----------------------------------------------------------------------------
(* The client.                                                             *)

(* client_connect sends SYN until there is a conversation; the server's    *)
(* SYN_ACK makes one.                                                      *)
SendSYN(arrives) ==
    /\ synID # NoID
    /\ contact = "none"
    /\ SendSYNs(synID, arrives)
    /\ contact' \in {contact} \cup (IF arrives THEN {Reached} ELSE {})
    /\ UNCHANGED <<conversation_id_self, synID, checked, helloWaiting, greetings, alive,
                   assigning, greeting>>

(* The looper of the client's conversation starts with a hello. *)
ClientLooper ==
    /\ contact = "new"
    /\ contact' = "running"
    /\ greetings' = greetings \cup {Stamp}
    /\ UNCHANGED <<conversation_id_self, synID, checked, helloWaiting, alive,
                   assigning, late, greeting, presence>>

(* The user sends another one. *)
request_send_hello ==
    /\ synID # NoID
    /\ contact # "none"
    /\ greetings' = greetings \cup {Stamp}
    /\ UNCHANGED <<conversation_id_self, synID, checked, contact, helloWaiting, alive,
                   assigning, late, greeting, presence>>

(* The client has not heard the server for 5 s. *)
ClientSYN(arrives) ==
    /\ contact = "running"
    /\ SendSYNs(Stamp, arrives)
    /\ UNCHANGED <<client, assigning, greeting>>

(* The hello of conversation i arrives, maybe again.  It is acknowledged   *)
(* under the client's own ID, and stored unless another packet 0 waits.    *)
ReceiveHello(i) ==
    /\ i \in conversations
    /\ conversation_id_self # NoID
    /\ contact' = Reached
    /\ helloWaiting' = TRUE
    /\ \E arrives \in BOOLEAN : SendACK(Stamp, arrives)
    /\ UNCHANGED <<conversation_id_self, synID, checked, greetings, alive,
                   assigning, greeting>>

(* incomingProcessor queues a hello_back. *)
AnswerHello ==
    /\ contact = "running"
    /\ helloWaiting
    /\ helloWaiting' = FALSE
    /\ greetings' = greetings \cup {Stamp}
    /\ UNCHANGED <<conversation_id_self, synID, checked, contact, alive,
                   assigning, late, greeting, presence>>

(* The user leaves, or the process dies: its memory is gone. *)
request_disconnect ==
    /\ alive
    /\ alive' = FALSE
    /\ conversation_id_self' = NoID /\ synID' = NoID /\ checked' = {}
    /\ contact' = "none" /\ helloWaiting' = FALSE /\ greetings' = {}
    /\ UNCHANGED <<assigning, late, greeting, presence>>

-----------------------------------------------------------------------------
(* The server.                                                             *)

(* A hello or hello_back arrives, which the client repeats until it gets   *)
(* the ACK.                                                                *)
ReceiveGreeting(i, acked) ==
    /\ i \in greetings
    /\ Heard(i) /\ Greeted(i)
    /\ incoming' = incoming \cup {i}
    /\ greetings' = IF acked THEN greetings \ {i} ELSE greetings
    /\ UNCHANGED <<conversation_id_self, synID, checked, contact, helloWaiting, alive,
                   assigning, late, features>>

(* incomingProcessor stores the features. *)
HelloProcessed(i) ==
    /\ i \in incoming
    /\ incoming' = incoming \ {i}
    /\ features' = features \cup {i}
    /\ UNCHANGED <<client, assigning, late, presence>>

TimePasses(i) ==
    /\ i \in conversations \ silent
    /\ silent' = silent \cup {i}
    /\ UNCHANGED <<client, assigning, late, greeting, conversations, hellos, online, doomed>>

(* A SYN of conversation i reaches the client, which answers. *)
checkLastOnline(i, arrives) ==
    /\ i \in silent
    /\ conversation_id_self # NoID
    /\ contact' = Reached
    /\ SendSYNs(Stamp, arrives)
    /\ UNCHANGED <<conversation_id_self, synID, checked, helloWaiting, greetings, alive,
                   assigning, greeting>>

(* The cleaner's check: missedSYNs, of which updates may be lost, may have *)
(* any value for a silent conversation.                                    *)
CleanerChecks(i) ==
    /\ doomed = NoID
    /\ i \in silent \cap online
    /\ doomed' = i
    /\ UNCHANGED <<client, assigning, late, greeting, conversations, hellos, online, silent>>

(* Mutant: an offline conversation is deleted. *)
CleanerWrites_Delete ==
    /\ doomed # NoID
    /\ online' = online \ {doomed}
    /\ conversations' = conversations \ {doomed}
    /\ doomed' = NoID
    /\ UNCHANGED <<client, assigning, late, greeting, hellos, silent>>

(* Its write. *)
CleanerWrites ==
    /\ doomed # NoID
    /\ online' = online \ {doomed}
    /\ doomed' = NoID
    /\ UNCHANGED <<client, assigning, late, greeting, conversations, hellos, silent>>

-----------------------------------------------------------------------------
Init ==
    /\ conversation_id_self = NoID /\ synID = NoID /\ checked = {}
    /\ contact = "none" /\ helloWaiting = FALSE /\ greetings = {} /\ alive = TRUE
    /\ offered = {} /\ late = {} /\ generatedConvIDs = {}
    /\ conversations = {} /\ hellos = {} /\ incoming = {} /\ features = {}
    /\ online = {} /\ silent = {} /\ doomed = NoID

Client ==
    \/ client_connect \/ ClientLooper \/ AnswerHello
    \/ request_send_hello \/ request_disconnect
    \/ \E arrives \in BOOLEAN : SendSYN(arrives) \/ ClientSYN(arrives)
    \/ \E i \in IDs : ReceivePingRes(i) \/ SetConversationID(i) \/ ReceiveHello(i)

Server ==
    \/ \E i \in IDs :
          \/ generateConversationID(i) \/ HelloProcessed(i)
          \/ \E acked \in BOOLEAN : ReceiveGreeting(i, acked)
          \/ \E arrives \in BOOLEAN : checkLastOnline(i, arrives)
          \/ CleanerChecks(i)
    \/ CleanerWrites

Environment ==
    \E i \in IDs :
        \/ LosePingRes(i) \/ TimePasses(i) \/ DelayGreeting(i)
        \/ \E type \in Types : LateArrives(type, i) \/ Lose(type, i)

Next == Client \/ Server \/ Environment

Spec == Init /\ [][Next]_vars

(* Loops that never end: client_connect, the loopers, the cleaner.  A      *)
(* goroutine that started also ends.                                       *)
Scheduled ==
    /\ WF_vars(\E i \in IDs : generateConversationID(i))
    /\ WF_vars(client_connect) /\ WF_vars(ClientLooper \/ AnswerHello)
    /\ WF_vars(CleanerWrites)
    /\ \A i \in IDs : /\ WF_vars(SetConversationID(i))
                      /\ WF_vars(HelloProcessed(i))

(* What is sent again and again gets through in the end, and its answer    *)
(* back; no datagram is under way for ever.                                *)
Delivered ==
    /\ WF_vars(SendSYN(TRUE) /\ contact' # contact)
    /\ WF_vars(\E i \in IDs, type \in Types : LateArrives(type, i) \/ Lose(type, i))
    /\ \A i \in IDs : /\ WF_vars(ReceivePingRes(i))
                      /\ WF_vars(i \in hellos /\ ReceiveHello(i))
                      /\ WF_vars(ReceiveGreeting(i, TRUE))
                      /\ WF_vars(checkLastOnline(i, TRUE))

(* Time passes.  This leaves out the behaviours in which a conversation is *)
(* heard every 5 s for ever, and so stays online.  The cleaner examines    *)
(* every conversation in every round: one that stays silent is caught, and *)
(* one that is silent only between rounds is online anyway.                *)
Timed == \A i \in IDs : WF_vars(TimePasses(i)) /\ SF_vars(CleanerChecks(i))

FairSpec == Spec /\ Scheduled /\ Delivered /\ Timed

-----------------------------------------------------------------------------
(* Properties.                                                             *)

(* The type invariant: no ID is used that the server has not drawn. *)
TypeOK ==
    /\ conversation_id_self \in generatedConvIDs \cup {NoID}
    /\ synID \in generatedConvIDs \cup {NoID}
    /\ contact \in {"none", "new", "running"}
    /\ helloWaiting \in BOOLEAN /\ alive \in BOOLEAN
    /\ checked \cup greetings \cup offered \subseteq generatedConvIDs
    /\ late \subseteq Types \X generatedConvIDs
    /\ generatedConvIDs \subseteq IDs
    /\ conversations \subseteq generatedConvIDs
    /\ hellos \cup incoming \cup features \cup online \cup silent \subseteq conversations
    /\ doomed \in conversations \cup {NoID}

(* A client that stays ends with one ID, and the server takes it, under    *)
(* that ID, for a participant again and again: whatever overwrote its      *)
(* first ID (listener.go:83), whichever of its ACKs counted for a hello it *)
(* never saw (conversation.go:178), however often the cleaner wrote after  *)
(* a check that was stale (global.go:150-152).                             *)
TakesPart ==
    <>[]alive => \E i \in IDs : /\ <>[](conversation_id_self = i)
                                /\ []<>(i \in features \cap online)

(* The conversation of an ID that no process has any longer, or never had  *)
(* for good, ends offline: no referendum waits for it for ever after.      *)
GhostsLeave ==
    \A i \in IDs :
        <>[](conversation_id_self # i) => <>[](i \notin online)

(* The presence that referendums read changes as VoteManager says, one     *)
(* conversation and one attribute at a time.                               *)
Presence == INSTANCE VoteManager WITH
    Clients <- IDs, VoteIDs <- {}, Malformed <- {}, Repeats <- {},
    Askers <- {}, Unsteady <- IDs, Mortal <- {}, Restarts <- FALSE,
    NoReferendum <- NoID,
    alive <- IDs, contacted <- conversations,
    h_referendums <- [v \in {} |-> NoID],
    c_referendums <- [i \in IDs |-> [v \in {} |-> NoID]],
    sent <- {}, undelivered <- {}, opened <- {}, reopened <- {}

ImplementsPresence == Presence!Spec
=============================================================================
