--------------------------- MODULE SessionProofs ----------------------------
(***************************************************************************)
(* Proofs about Session, for any conversation IDs that the server may draw *)
(* and any that may be late: no ID is used that was not drawn, and what    *)
(* referendums read of presence changes as VoteManager says.               *)
(***************************************************************************)
EXTENDS Session, TLAPS

-----------------------------------------------------------------------------
(* Types.                                                                  *)

(* The type invariant needs it: a client that sends something has an ID,   *)
(* which nothing but the end of the process takes away.                    *)
KnowsItsID ==
    contact # "none" \/ synID # NoID => conversation_id_self # NoID

TypeInv == TypeOK /\ KnowsItsID

(* What a datagram of the client leaves behind, where it came and went.    *)
LEMMA SendSYNsType ==
    ASSUME TypeOK, NEW i \in generatedConvIDs, NEW arrives, SendSYNs(i, arrives),
           UNCHANGED <<generatedConvIDs, incoming, features>>
    PROVE  /\ late' \subseteq Types \X generatedConvIDs'
           /\ conversations' \subseteq generatedConvIDs'
           /\ hellos' \cup incoming' \cup features' \cup online' \cup silent'
                 \subseteq conversations'
           /\ doomed' \in conversations' \cup {NoID}
  BY DEF TypeOK, SendSYNs, Delayed, Types, Heard, Greeted, presence

LEMMA SendACKType ==
    ASSUME TypeOK, NEW i \in generatedConvIDs, NEW arrives, SendACK(i, arrives),
           UNCHANGED <<generatedConvIDs, incoming, features>>
    PROVE  /\ late' \subseteq Types \X generatedConvIDs'
           /\ conversations' \subseteq generatedConvIDs'
           /\ hellos' \cup incoming' \cup features' \cup online' \cup silent'
                 \subseteq conversations'
           /\ doomed' \in conversations' \cup {NoID}
  BY DEF TypeOK, SendACK, Delayed, Types, Heard, Acknowledged, Greeted, presence

(* A client that knows its ID sends an ID that was drawn. *)
LEMMA StampType ==
    ASSUME TypeInv, conversation_id_self # NoID
    PROVE  Stamp \in generatedConvIDs
  BY DEF TypeInv, TypeOK, Stamp

(* What a datagram of the server makes of the client's conversation. *)
LEMMA ReachedType ==
    ASSUME TypeInv
    PROVE  /\ Reached \in {"none", "new", "running"}
           /\ Reached # "none" => conversation_id_self # NoID
  BY DEF TypeInv, TypeOK, KnowsItsID, Reached

(* Steps by which the client gets an ID, or ends. *)
LEMMA AssigningType ==
    ASSUME TypeInv, NEW i,
           \/ generateConversationID(i) \/ LosePingRes(i) \/ ReceivePingRes(i)
           \/ SetConversationID(i) \/ client_connect \/ request_disconnect
    PROVE  TypeInv'
<1> USE DEF TypeInv, TypeOK, KnowsItsID, client, greeting, presence, assigning
<1>1. CASE generateConversationID(i)
  BY <1>1 DEF generateConversationID
<1>2. CASE LosePingRes(i)
  BY <1>2 DEF LosePingRes
<1>3. CASE ReceivePingRes(i)
  BY <1>3 DEF ReceivePingRes
<1>4. CASE SetConversationID(i)
  BY <1>4, NoIDAssumption DEF SetConversationID
<1>5. CASE client_connect
  BY <1>5 DEF client_connect
<1>6. CASE request_disconnect
  BY <1>6 DEF request_disconnect
<1> QED
  BY <1>1, <1>2, <1>3, <1>4, <1>5, <1>6

(* Steps in which the client sends SYN, SYN_ACK or ACK.                    *)
LEMMA ContactType ==
    ASSUME TypeInv, NEW i, NEW arrives \in BOOLEAN,
           \/ SendSYN(arrives) \/ ClientSYN(arrives) \/ ReceiveHello(i)
           \/ checkLastOnline(i, arrives)
    PROVE  TypeInv'
<1>1. CASE SendSYN(arrives)
  <2>1. synID \in generatedConvIDs
    BY <1>1 DEF TypeInv, TypeOK, SendSYN
  <2> QED
    BY <1>1, <2>1, SendSYNsType, ReachedType
    DEF SendSYN, TypeInv, TypeOK, KnowsItsID, assigning, greeting
<1>2. CASE ClientSYN(arrives)
  <2>1. Stamp \in generatedConvIDs
    BY <1>2, StampType DEF ClientSYN, TypeInv, KnowsItsID
  <2> QED
    BY <1>2, <2>1, SendSYNsType
    DEF ClientSYN, TypeInv, TypeOK, KnowsItsID, client, assigning, greeting
<1>3. CASE ReceiveHello(i)
  <2>1. Stamp \in generatedConvIDs
    BY <1>3, StampType DEF ReceiveHello
  <2>2. PICK here \in BOOLEAN : SendACK(Stamp, here)
    BY <1>3 DEF ReceiveHello
  <2> QED
    BY <1>3, <2>1, <2>2, SendACKType, ReachedType
    DEF ReceiveHello, TypeInv, TypeOK, KnowsItsID, assigning, greeting
<1>4. CASE checkLastOnline(i, arrives)
  <2>1. Stamp \in generatedConvIDs
    BY <1>4, StampType DEF checkLastOnline
  <2> QED
    BY <1>4, <2>1, SendSYNsType, ReachedType
    DEF checkLastOnline, TypeInv, TypeOK, KnowsItsID, assigning, greeting
<1> QED
  BY <1>1, <1>2, <1>3, <1>4

(* Steps of late datagrams. *)
LEMMA LateType ==
    ASSUME TypeInv, NEW i, NEW type \in Types,
           DelayGreeting(i) \/ LateArrives(type, i) \/ Lose(type, i)
    PROVE  TypeInv'
<1>1. CASE DelayGreeting(i)
  BY <1>1 DEF DelayGreeting, Delayed, Types, TypeInv, TypeOK, KnowsItsID, client, assigning,
              greeting, presence
<1>2. CASE LateArrives(type, i)
  <2>1. i \in generatedConvIDs
    BY <1>2 DEF LateArrives, TypeInv, TypeOK
  <2>2. greetings' \subseteq greetings
    BY <1>2 DEF LateArrives
  <2>3. hellos' \subseteq hellos \cup {i} /\ incoming' \subseteq incoming \cup {i}
    BY <1>2 DEF LateArrives, Acknowledged, Greeted
  <2> QED
    BY <1>2, <2>1, <2>2, <2>3
    DEF LateArrives, Heard, TypeInv, TypeOK, KnowsItsID, assigning
<1>3. CASE Lose(type, i)
  BY <1>3 DEF Lose, TypeInv, TypeOK, KnowsItsID, client, assigning, greeting, presence
<1> QED
  BY <1>1, <1>2, <1>3

(* Steps in which hellos are queued, arrive and are processed. *)
LEMMA GreetingType ==
    ASSUME TypeInv, NEW i, NEW acked \in BOOLEAN,
           \/ ClientLooper \/ request_send_hello \/ AnswerHello
           \/ ReceiveGreeting(i, acked) \/ HelloProcessed(i)
    PROVE  TypeInv'
<1>1. CASE ClientLooper
  BY <1>1, StampType DEF ClientLooper, TypeInv, TypeOK, KnowsItsID, assigning, greeting, presence
<1>2. CASE request_send_hello
  BY <1>2, StampType
  DEF request_send_hello, TypeInv, TypeOK, KnowsItsID, assigning, greeting, presence
<1>3. CASE AnswerHello
  BY <1>3, StampType DEF AnswerHello, TypeInv, TypeOK, KnowsItsID, assigning, greeting, presence
<1>4. CASE ReceiveGreeting(i, acked)
  BY <1>4 DEF ReceiveGreeting, Heard, Greeted, TypeInv, TypeOK, KnowsItsID, assigning
<1>5. CASE HelloProcessed(i)
  BY <1>5 DEF HelloProcessed, TypeInv, TypeOK, KnowsItsID, client, assigning, presence
<1> QED
  BY <1>1, <1>2, <1>3, <1>4, <1>5

(* Steps of time and of the cleaner. *)
LEMMA CleaningType ==
    ASSUME TypeInv, NEW i, TimePasses(i) \/ CleanerChecks(i) \/ CleanerWrites
    PROVE  TypeInv'
  BY DEF TimePasses, CleanerChecks, CleanerWrites, TypeInv, TypeOK, KnowsItsID,
         client, assigning, greeting

LEMMA TypeStep == TypeInv /\ [Next]_vars => TypeInv'
<1> SUFFICES ASSUME TypeInv, [Next]_vars PROVE TypeInv'
  OBVIOUS
<1>1. CASE Client
  <2>1. CASE client_connect \/ request_disconnect
    BY <2>1, AssigningType
  <2>2. CASE ClientLooper \/ AnswerHello \/ request_send_hello
    BY <2>2, GreetingType
  <2>3. ASSUME NEW arrives \in BOOLEAN, SendSYN(arrives) \/ ClientSYN(arrives)
        PROVE  TypeInv'
    BY <2>3, ContactType
  <2>4. ASSUME NEW i \in IDs, ReceivePingRes(i) \/ SetConversationID(i)
        PROVE  TypeInv'
    BY <2>4, AssigningType
  <2>5. ASSUME NEW i \in IDs, ReceiveHello(i)
        PROVE  TypeInv'
    BY <2>5, ContactType
  <2> QED
    BY <1>1, <2>1, <2>2, <2>3, <2>4, <2>5 DEF Client
<1>2. CASE Server
  <2>1. ASSUME NEW i \in IDs, generateConversationID(i)
        PROVE  TypeInv'
    BY <2>1, AssigningType
  <2>2. ASSUME NEW i \in IDs, HelloProcessed(i)
        PROVE  TypeInv'
    BY <2>2, GreetingType
  <2>3. ASSUME NEW i \in IDs, NEW acked \in BOOLEAN, ReceiveGreeting(i, acked)
        PROVE  TypeInv'
    BY <2>3, GreetingType
  <2>4. ASSUME NEW i \in IDs, NEW arrives \in BOOLEAN, checkLastOnline(i, arrives)
        PROVE  TypeInv'
    BY <2>4, ContactType
  <2>5. ASSUME NEW i \in IDs, CleanerChecks(i)
        PROVE  TypeInv'
    BY <2>5, CleaningType
  <2>6. CASE CleanerWrites
    BY <2>6, CleaningType
  <2> QED
    BY <1>2, <2>1, <2>2, <2>3, <2>4, <2>5, <2>6 DEF Server
<1>3. CASE Environment
  <2>1. ASSUME NEW i \in IDs, LosePingRes(i)
        PROVE  TypeInv'
    BY <2>1, AssigningType
  <2>2. ASSUME NEW i \in IDs, NEW type \in Types,
               LateArrives(type, i) \/ Lose(type, i)
        PROVE  TypeInv'
    BY <2>2, LateType
  <2>3. ASSUME NEW i \in IDs, TimePasses(i)
        PROVE  TypeInv'
    BY <2>3, CleaningType
  <2>4. ASSUME NEW i \in IDs, DelayGreeting(i)
        PROVE  TypeInv'
    BY <2>4, LateType DEF Types
  <2> QED
    BY <1>3, <2>1, <2>2, <2>3, <2>4 DEF Environment
<1>4. CASE UNCHANGED vars
  BY <1>4 DEF TypeInv, TypeOK, KnowsItsID, vars, client, assigning, greeting, presence
<1> QED
  BY <1>1, <1>2, <1>3, <1>4 DEF Next

LEMMA TypeInvCorrect == Spec => []TypeInv
<1>1. Init => TypeInv
  BY DEF Init, TypeInv, TypeOK, KnowsItsID
<1> QED
  BY <1>1, TypeStep, PTL DEF Spec

(* No ID is ever used, by the client, in a datagram or as the key of a     *)
(* conversation, that the server has not drawn; and what the server knows  *)
(* of a conversation it knows of one that exists.                          *)
THEOREM TypeCorrect == Spec => []TypeOK
<1>1. TypeInv => TypeOK
  BY DEF TypeInv
<1> QED
  BY <1>1, TypeInvCorrect, PTL

-----------------------------------------------------------------------------
(* Presence.                                                               *)

(* A conversation that is heard is new, comes back, or was online anyway.  *)
LEMMA HeardStep ==
    ASSUME TypeInv, NEW i \in generatedConvIDs, Heard(i), UNCHANGED features
    PROVE  [Presence!Next]_(Presence!vars)
<1>1. i \in IDs
  BY DEF TypeInv, TypeOK
<1>2. CASE i \notin conversations
  <2>1. Presence!NewConversation(i)
    BY <1>1, <1>2 DEF Heard, Presence!NewConversation, Presence!history
  <2> QED
    BY <1>1, <2>1 DEF Presence!Next, Presence!Presence
<1>3. CASE i \in conversations \ online
  <2>1. conversations' = conversations
    BY <1>3 DEF Heard
  <2>2. Presence!ComeBack(i)
    BY <1>3, <2>1 DEF Heard, Presence!ComeBack, Presence!history
  <2> QED
    BY <1>1, <2>2 DEF Presence!Next, Presence!Presence
<1>4. CASE i \in conversations \cap online
  BY <1>4 DEF Heard, Presence!vars, Presence!presence, Presence!history
<1> QED
  BY <1>2, <1>3, <1>4

(* A datagram that the client sends is heard or is not. *)
LEMMA SendStep ==
    ASSUME TypeInv, NEW i \in generatedConvIDs, NEW arrives,
           SendSYNs(i, arrives) \/ SendACK(i, arrives), UNCHANGED features
    PROVE  [Presence!Next]_(Presence!vars)
<1>1. CASE Heard(i)
  BY <1>1, HeardStep
<1>2. CASE UNCHANGED presence
  BY <1>2 DEF presence, Presence!vars, Presence!presence, Presence!history
<1> QED
  BY <1>1, <1>2 DEF SendSYNs, SendACK

(* Whatever the client, the loopers, the cleaner and the network do, in    *)
(* any order, is at most one step of the presence that referendums read.   *)
LEMMA PresenceStep ==
    ASSUME TypeInv, [Next]_vars
    PROVE  [Presence!Next]_(Presence!vars)
<1>1. CASE UNCHANGED <<conversations, features, online>>
  BY <1>1 DEF Presence!vars, Presence!presence, Presence!history
<1>2. ASSUME NEW arrives \in BOOLEAN, SendSYN(arrives)
      PROVE  [Presence!Next]_(Presence!vars)
  BY <1>2, SendStep DEF SendSYN, TypeInv, TypeOK, greeting
<1>3. ASSUME NEW arrives \in BOOLEAN, ClientSYN(arrives)
      PROVE  [Presence!Next]_(Presence!vars)
  BY <1>3, SendStep, StampType DEF ClientSYN, TypeInv, KnowsItsID, greeting
<1>4. ASSUME NEW i \in IDs, ReceiveHello(i)
      PROVE  [Presence!Next]_(Presence!vars)
  BY <1>4, SendStep, StampType DEF ReceiveHello, greeting
<1>5. ASSUME NEW i \in IDs, NEW arrives \in BOOLEAN, checkLastOnline(i, arrives)
      PROVE  [Presence!Next]_(Presence!vars)
  BY <1>5, SendStep, StampType DEF checkLastOnline, greeting
<1>6. ASSUME NEW i \in IDs, NEW acked \in BOOLEAN, ReceiveGreeting(i, acked)
      PROVE  [Presence!Next]_(Presence!vars)
  BY <1>6, HeardStep DEF ReceiveGreeting, TypeInv, TypeOK
<1>7. ASSUME NEW i \in IDs, NEW type \in Types, LateArrives(type, i)
      PROVE  [Presence!Next]_(Presence!vars)
  BY <1>7, HeardStep DEF LateArrives, TypeInv, TypeOK, greeting
<1>8. ASSUME NEW i \in IDs, HelloProcessed(i)
      PROVE  [Presence!Next]_(Presence!vars)
  <2>1. CASE i \in features
    BY <1>8, <2>1 DEF HelloProcessed, presence, Presence!vars, Presence!presence, Presence!history
  <2>2. CASE i \notin features
    <3>1. i \in conversations
      BY <1>8 DEF HelloProcessed, TypeInv, TypeOK
    <3>2. Presence!HelloProcessed(i)
      BY <1>8, <2>2, <3>1 DEF HelloProcessed, presence, Presence!HelloProcessed, Presence!history
    <3> QED
      BY <1>8, <3>2 DEF Presence!Next, Presence!Presence
  <2> QED
    BY <2>1, <2>2
<1>9. CASE CleanerWrites
  <2>1. doomed \in conversations /\ doomed \in IDs
    BY <1>9 DEF CleanerWrites, TypeInv, TypeOK
  <2>2. CASE doomed \notin online
    BY <1>9, <2>2 DEF CleanerWrites, greeting, Presence!vars, Presence!presence, Presence!history
  <2>3. CASE doomed \in online
    <3>1. Presence!GoOffline(doomed)
      BY <1>9, <2>1, <2>3 DEF CleanerWrites, greeting, Presence!GoOffline, Presence!history
    <3> QED
      BY <2>1, <3>1 DEF Presence!Next, Presence!Presence
  <2> QED
    BY <2>2, <2>3
<1> QED
  BY <1>1, <1>2, <1>3, <1>4, <1>5, <1>6, <1>7, <1>8, <1>9
  DEF Next, Client, Server, Environment, vars, presence, greeting,
      client_connect, ClientLooper, AnswerHello, request_send_hello, request_disconnect,
      ReceivePingRes, SetConversationID, generateConversationID, CleanerChecks,
      LosePingRes, Lose, DelayGreeting, TimePasses

(* Presence as the vote manager's model has it, one conversation and one   *)
(* attribute at a time, is what the handshake, the hellos, lost and late   *)
(* datagrams and the cleaner's unlocked check and write amount to.         *)
THEOREM PresenceImplemented == Spec => ImplementsPresence
<1>1. Init => Presence!Init
  BY DEF Init, Presence!Init
<1>2. TypeInv /\ [Next]_vars => [Presence!Next]_(Presence!vars)
  BY PresenceStep
<1> QED
  BY <1>1, <1>2, TypeInvCorrect, PTL DEF Spec, ImplementsPresence, Presence!Spec

=============================================================================
