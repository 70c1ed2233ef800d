-------------------------------- MODULE Locks --------------------------------
(***************************************************************************)
(* The goroutines of one node that wait for a mutex while they hold        *)
(* another, or are waited for by one that does: a looper for each          *)
(* conversation, and one goroutine for each datagram that is being         *)
(* handled.  incomingProcessor does not look at the node's role, so one    *)
(* node stands for a server and a client.  The cleaner takes no mutex; the *)
(* user takes an outgoing_lock while he holds none, as a datagram does.    *)
(*                                                                         *)
(* A goroutine is what it has left to do, one step after the other.  A     *)
(* goroutine in front of an access to the map `conversations` is in it.    *)
(***************************************************************************)
EXTENDS NodeLocks, SequencesExt

ASSUME ConversationsAssumption == IsFiniteSet(Conversations)

VARIABLES
    owner,         \* the goroutine that holds each lock
    todo,          \* what each goroutine has left to do
    conversations  \* the keys of the map

vars == <<owner, todo, conversations>>

-----------------------------------------------------------------------------
(* What goroutines do.                                                     *)

Lock_(l) == [does |-> "lock", lock |-> l]
Unlock(l) == [does |-> "unlock", lock |-> l]
Range_ == [does |-> "range"]
Add(c) == [does |-> "add", conversation |-> c]

Locked(l, body) == <<Lock_(l)>> \o body \o <<Unlock(l)>>

(* sendHello and the other functions that queue a packet. *)
SendTo(c) == Locked(outgoing(c), <<>>)

(* To participants, in the random order of a map.  Any conversation may be *)
(* one: it may be made before copyConversationsMap has conversations_lock. *)
Orders == UNION {SetToSeqs(P) : P \in SUBSET Conversations}

(* The k-th Lock and Unlock are steps 2k-1 and 2k. *)
Broadcast(order) ==
    [i \in 1 .. 2 * Len(order) |-> SendTo(order[(i + 1) \div 2])[2 - (i % 2)]]

(* Mutant: the map is ranged over without its lock. *)
copyConversationsMap_Unlocked == Locked(h_referendum, <<Range_>>)

(* Mutant: the locks are taken the other way round. *)
copyConversationsMap_Swapped ==
    Locked(h_referendum, Locked(conversations_lock, <<Range_>>))

copyConversationsMap ==
    Locked(conversations_lock, Locked(h_referendum, <<Range_>>))

create_referendum_from_client_request ==
    {Locked(h_referendums, copyConversationsMap \o Broadcast(order)) : order \in Orders}

(* A referendum that does not exist, or one with or without a result. *)
handle_response_from_client ==
    {Locked(h_referendums, <<>>)} \cup
    {Locked(h_referendums, Locked(h_referendum, Broadcast(order))) : order \in Orders}

(* A question that is known, or a new one. *)
handle_new_question_from_server(c) ==
    {Locked(c_referendums, <<>>),
     Locked(c_referendums, Locked(c_referendum, SendTo(c)))}

handle_result_from_server ==
    {Locked(c_referendums, <<>>),
     Locked(c_referendums, Locked(c_referendum, <<>>))}

(* No packet waits, or one of each kind: hello_back, hello, and the four   *)
(* of the referendum manager.                                              *)
incomingProcessor(c) ==
    {Locked(incoming(c), handler) :
        handler \in {<<>>, SendTo(c)}
                    \cup create_referendum_from_client_request
                    \cup handle_response_from_client
                    \cup handle_new_question_from_server(c)
                    \cup handle_result_from_server}

sendWindowPackets(c) == Locked(outgoing(c), <<>>)

(* Mutant: the unlock at the end (:708) is forgotten. *)
checkForRetransmissions_Leak(c) == <<Lock_(outgoing(c))>>

checkForRetransmissions(c) == Locked(outgoing(c), <<>>)

(* A round of the looper. *)
looper(c) ==
    {processed \o sendWindowPackets(c) \o checkForRetransmissions(c) :
        processed \in incomingProcessor(c)}

(* SYN and SYN_ACK; DATA; ACK and NAK. *)
ARQ_Receive(c) ==
    {<<>>, Locked(incoming(c), <<>>), Locked(outgoing(c), <<>>)}

(* Mutant: the unlock is deferred. *)
handleIncomingPackets_Deferred(c) ==
    {Locked(generatedConvIDs, <<>>)} \cup
    {Locked(conversations_lock, <<Add(c)>> \o received) : received \in ARQ_Receive(c)}

(* PING_REQ, or a packet of a conversation. *)
handleIncomingPackets(c) ==
    {Locked(generatedConvIDs, <<>>)} \cup
    {Locked(conversations_lock, <<Add(c)>>) \o received : received \in ARQ_Receive(c)}

(* What g may do next. *)
Routines(g) ==
    IF g \in Conversations THEN looper(g)
    ELSE UNION {handleIncomingPackets(c) : c \in Conversations}

-----------------------------------------------------------------------------
(* Steps.                                                                  *)

Idle(g) == todo[g] = <<>>
At(g, what) == ~Idle(g) /\ Head(todo[g]).does = what

(* Mutant: startUp is not called. *)
Running_NoStartUp(g) == g \in Datagrams

(* A looper starts when its conversation is made. *)
Running(g) == g \in Conversations => g \in conversations

Start(g) ==
    /\ Running(g) /\ Idle(g)
    /\ \E routine \in Routines(g) : todo' = [todo EXCEPT ![g] = routine]
    /\ UNCHANGED <<owner, conversations>>

Advance(g) == todo' = [todo EXCEPT ![g] = Tail(@)]

Acquire(g) ==
    /\ Running(g) /\ At(g, "lock")
    /\ owner[Head(todo[g]).lock] = None
    /\ owner' = [owner EXCEPT ![Head(todo[g]).lock] = g]
    /\ Advance(g)
    /\ UNCHANGED conversations

Release(g) ==
    /\ At(g, "unlock")
    /\ owner' = [owner EXCEPT ![Head(todo[g]).lock] = None]
    /\ Advance(g)
    /\ UNCHANGED conversations

Access(g) ==
    /\ \/ At(g, "range") /\ UNCHANGED conversations
       \/ At(g, "add") /\ conversations' = conversations \cup {Head(todo[g]).conversation}
    /\ Advance(g)
    /\ UNCHANGED owner

(* A looper starts with a hello. *)
Init ==
    /\ owner = [l \in Lock |-> None]
    /\ todo = [g \in Goroutines |-> IF g \in Conversations THEN SendTo(g) ELSE <<>>]
    /\ conversations = {}

Next == \E g \in Goroutines : Start(g) \/ Acquire(g) \/ Release(g) \/ Access(g)

Spec == Init /\ [][Next]_vars

(* Goroutines are scheduled; a waiter that was passed over for 1 ms gets   *)
(* the mutex next (the starvation mode of sync.Mutex).                     *)
FairSpec ==
    /\ Spec
    /\ \A g \in Goroutines :
          WF_vars(Release(g)) /\ WF_vars(Access(g)) /\ SF_vars(Acquire(g))
    /\ \A c \in Conversations : WF_vars(Start(c))

-----------------------------------------------------------------------------
(* Properties.                                                             *)

(* Which lock a goroutine waits for. *)
wants == [g \in Goroutines |-> IF At(g, "lock") THEN Head(todo[g]).lock ELSE None]

Order == INSTANCE LockOrder

(* The type invariant; and who has nothing left to do holds no lock. *)
TypeOK ==
    /\ owner \in [Lock -> Goroutines \cup {None}]
    /\ conversations \subseteq Conversations
    /\ \A g \in Goroutines : Idle(g) => \A l \in Lock : owner[l] # g

(* No goroutines wait for each other in a circle, nor one for itself: a    *)
(* looper holds incoming_lock while its handler takes h_referendums_lock,  *)
(* conversations_lock, referendum_lock and everybody's outgoing_lock       *)
(* (conversation.go:713), and each datagram wants some of them.            *)
NoCircularWait == Order!NoCircularWait

(* Every goroutine takes the locks in the order of NodeLocks.              *)
KeepsLockOrder == Order!LockSpec

Writes(g) == At(g, "add") /\ Head(todo[g]).conversation \notin conversations
Reads(g) == At(g, "range") \/ At(g, "add")

(* Loopers and datagrams never read or write the map of conversations      *)
(* while one of them writes it: Go would end the program.  The cleaner and *)
(* the user, who are not here, do: they range over the map without         *)
(* conversations_lock (global.go:150, Brainloop.go:83, :211).              *)
MapGuarded ==
    \A g, h \in Goroutines : g # h /\ Writes(g) => ~Reads(h)

(* Every looper comes round again and again, whatever the others hold. *)
LoopersGoRound ==
    \A c \in Conversations :
        c \in conversations ~> Idle(c)
=============================================================================
