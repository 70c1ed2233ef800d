-------------------------- MODULE SelectiveRepeat ---------------------------
(***************************************************************************)
(* The ARQ of udp/conversation.go: one direction of a pair of              *)
(* conversations, from the sender's sliding_window to the receiver's       *)
(* receiving_window.                                                       *)
(*                                                                         *)
(* The sender's looper moves the window and sends under outgoing_lock; the *)
(* receiver's looper handles one stored packet at a time under             *)
(* incoming_lock; each datagram that arrives is handled by a goroutine of  *)
(* its own.  A DATA packet is acknowledged before incoming_lock is taken   *)
(* to store it (conversation.go:125-128), so receiving is two steps.       *)
(***************************************************************************)
EXTENDS Integers

CONSTANTS
    WindowSize,  \* 5 in newConversation
    Modulus,     \* 2^32: the width of packet numbers
    MaxPackets,  \* bound: packets 0 .. MaxPackets-1 are sent
    Lossy,       \* FALSE: a datagram stays in flight for ever; for what may
                 \* happen, one that is lost is one that never arrives
    PeerNAKs     \* TRUE if the peer reports gaps, which this receiver never does

ASSUME SizeAssumption == WindowSize \in Nat \ {0} /\ MaxPackets \in Nat
ASSUME ModulusAssumption ==
    Modulus \in Nat /\ WindowSize < Modulus /\ MaxPackets < Modulus
ASSUME SwitchAssumption == Lossy \in BOOLEAN /\ PeerNAKs \in BOOLEAN

PcktNums == 0 .. MaxPackets - 1

VARIABLES
    nextPcktNum,      \* sender: outgoing holds the packets below it
    acked,            \* sender: packets with AckReceived set
    windowStart,      \* sender: start of the sliding window
    looper,           \* sender: what its looper calls next
    net,              \* datagrams in flight, in both directions
    handlers,         \* receiver: packets acknowledged but not yet stored
    incoming,         \* receiver: packets stored but not yet processed
    lastPcktReceived, \* receiver: see ARQ_Store
    processed         \* receiver: packets that were processed

senderVars == <<nextPcktNum, acked, windowStart, looper>>
receiverVars == <<handlers, incoming, lastPcktReceived, processed>>
vars == <<senderVars, net, receiverVars>>

DATA(n) == [type |-> "DATA", num |-> n]
ACK(n) == [type |-> "ACK", num |-> n]
NAK(n) == [type |-> "NAK", num |-> n]

Packets == [type : {"DATA", "ACK", "NAK"}, num : PcktNums]

-----------------------------------------------------------------------------
(* Sender.                                                                 *)

outgoing == 0 .. nextPcktNum - 1

(* The message layer queues a packet (the send... functions). *)
Queue ==
    /\ nextPcktNum < MaxPackets
    /\ nextPcktNum' = (nextPcktNum + 1) % Modulus
    /\ UNCHANGED <<acked, windowStart, looper, net, receiverVars>>

Window_Long(start) == start .. (start + WindowSize) % Modulus  \* mutant: <= for <

(* The loops `i := start; i < start + windowSize` in uint32 arithmetic. *)
Window(start) == start .. ((start + WindowSize) % Modulus) - 1

(* sendPacket on each packet of ns, which the socket takes without error.  *)
sendPackets(ns) ==
    /\ net' = net \cup {DATA(n) : n \in ns}
    /\ acked' = acked \ ns

Unacked_All(start) == Window(start) \cap outgoing  \* mutant: nothing is skipped

Unacked_Unqueued(start) ==  \* mutant: no look at whether outgoing has the number
    (Window(start) \cap PcktNums) \ acked

Unacked(start) == (Window(start) \cap outgoing) \ acked

moveWindow_PastEnd(start) ==  \* mutant: numbers not queued yet are passed too
    {k \in {start} \cup {n + 1 : n \in Window(start)} :
        /\ (start .. k - 1) \cap outgoing \subseteq acked
        /\ k \in Window(start) => k \in outgoing \ acked}

moveWindow_Whole(start) ==  \* mutant: it moves when all of it is acknowledged
    {IF Window(start) \subseteq acked THEN start + WindowSize ELSE start}

(* Past every acknowledged packet of the window, up to the first that is   *)
(* not.  The range is empty when start + windowSize overflows.             *)
moveWindow(start) ==
    {k \in {start} \cup {n + 1 : n \in Window(start)} :
        /\ start .. k - 1 \subseteq acked
        /\ k \in Window(start) => k \notin acked}

(* Every packet of the window that is not acknowledged is sent, each time; *)
(* the socket may report an error for some of them (`failed`).             *)
sendWindowPackets(failed) ==
    /\ looper = "sendWindowPackets"
    /\ looper' = "checkForRetransmissions"
    /\ \E start \in moveWindow(windowStart) :
          /\ windowStart' = start
          /\ failed \subseteq Unacked(start)
          /\ sendPackets(Unacked(start) \ failed)
    /\ UNCHANGED <<nextPcktNum, receiverVars>>

(* Of those, the ones last sent over 1000 ms ago are sent again.  Any may  *)
(* be: LastSent is not modelled.                                           *)
checkForRetransmissions ==
    /\ looper = "checkForRetransmissions"
    /\ looper' = "sendWindowPackets"
    /\ \E late \in SUBSET Unacked(windowStart) : sendPackets(late)
    /\ UNCHANGED <<nextPcktNum, windowStart, receiverVars>>

-----------------------------------------------------------------------------
(* The network delivers in any order and may lose or repeat a datagram.    *)

Lose(p) ==
    /\ Lossy
    /\ p \in net
    /\ net' = net \ {p}
    /\ UNCHANGED <<senderVars, receiverVars>>

(* What stays in flight when p arrives: a copy of it may follow. *)
InFlightAfter(p) ==
    {rest \in {net, net \ {p}} : p \in net /\ (Lossy \/ rest = net)}

-----------------------------------------------------------------------------
(* ARQ_Receive, by type of packet.                                         *)

ReceiveACK(n) ==
    /\ net' \in InFlightAfter(ACK(n))
    /\ acked' = acked \cup ({n} \cap outgoing)
    /\ UNCHANGED <<nextPcktNum, windowStart, looper, receiverVars>>

ReceiveNAK_Always(n) ==  \* mutant: no check that the packet was acknowledged
    /\ \E rest \in InFlightAfter(NAK(n)) :
          \/ net' = rest /\ UNCHANGED acked
          \/ /\ n \in outgoing
             /\ net' = rest \cup {DATA(n)}
             /\ acked' = acked \ {n}
    /\ UNCHANGED <<nextPcktNum, windowStart, looper, receiverVars>>

(* A packet that was acknowledged meanwhile is not sent again (:208); nor  *)
(* is one when the socket reports an error.                                *)
ReceiveNAK(n) ==
    /\ \E rest \in InFlightAfter(NAK(n)) :
          \/ net' = rest /\ UNCHANGED acked
          \/ /\ n \in outgoing \ acked
             /\ net' = rest \cup {DATA(n)}
             /\ acked' = acked \ {n}
    /\ UNCHANGED <<nextPcktNum, windowStart, looper, receiverVars>>

(* A DATA packet arrives: it is acknowledged first ... *)
ReceiveDATA(n) ==
    /\ \E rest \in InFlightAfter(DATA(n)) : net' = rest \cup {ACK(n)}
    /\ handlers' = handlers \cup {n}
    /\ UNCHANGED <<senderVars, incoming, lastPcktReceived, processed>>

(* The packets reported missing when n arrives after `last`. *)
Gap(n, last) == last + 1 .. n - 1

ARQ_Store_InOrder(n) ==  \* mutant: a number below the last one counts as seen
    /\ n \in handlers
    /\ handlers' = handlers \ {n}
    /\ \/ /\ n \in incoming \/ n < lastPcktReceived
          /\ UNCHANGED <<incoming, lastPcktReceived, net>>
       \/ /\ n \notin incoming /\ n >= lastPcktReceived
          /\ incoming' = incoming \cup {n}
          /\ lastPcktReceived' = n
          /\ UNCHANGED net
    /\ UNCHANGED <<senderVars, processed>>

(* ... and then stored, unless the same number is still waiting there. The *)
(* gap check comes after lastPcktReceived was set to n (:144, :153), so it *)
(* never finds a gap.                                                      *)
ARQ_Store(n) ==
    /\ n \in handlers
    /\ handlers' = handlers \ {n}
    /\ \/ /\ n \in incoming
          /\ UNCHANGED <<incoming, lastPcktReceived, net>>
       \/ /\ n \notin incoming
          /\ incoming' = incoming \cup {n}
          /\ lastPcktReceived' = n
          /\ net' = net \cup {NAK(i) : i \in Gap(n, lastPcktReceived')}
    /\ UNCHANGED <<senderVars, processed>>

incomingProcessor_ClearAll(n) ==  \* mutant: the whole map is emptied
    /\ n \in incoming
    /\ incoming' = {}
    /\ processed' = processed \cup {n}
    /\ UNCHANGED <<senderVars, net, handlers, lastPcktReceived>>

(* One stored packet, whichever the map yields first, is handled and then  *)
(* forgotten.                                                              *)
incomingProcessor(n) ==
    /\ n \in incoming
    /\ incoming' = incoming \ {n}
    /\ processed' = processed \cup {n}
    /\ UNCHANGED <<senderVars, net, handlers, lastPcktReceived>>

(* What this receiver never does: report a packet missing before one that  *)
(* it has received.                                                        *)
PeerSendsNAK(n) ==
    /\ PeerNAKs
    /\ \E m \in PcktNums : n < m /\ m \in handlers \cup incoming \cup processed
    /\ net' = net \cup {NAK(n)}
    /\ UNCHANGED <<senderVars, receiverVars>>

-----------------------------------------------------------------------------
Init ==
    /\ nextPcktNum = 0
    /\ acked = {}
    /\ windowStart = 0
    /\ looper = "sendWindowPackets"
    /\ net = {}
    /\ handlers = {}
    /\ incoming = {}
    /\ lastPcktReceived = 0
    /\ processed = {}

Sender ==
    \/ Queue
    \/ \E failed \in SUBSET PcktNums : sendWindowPackets(failed)
    \/ checkForRetransmissions
    \/ \E n \in PcktNums : ReceiveACK(n) \/ ReceiveNAK(n)

Receiver ==
    \E n \in PcktNums :
        ReceiveDATA(n) \/ ARQ_Store(n) \/ incomingProcessor(n) \/ PeerSendsNAK(n)

Next == Sender \/ Receiver \/ \E p \in net : Lose(p)

Spec == Init /\ [][Next]_vars

(* The looper and the goroutines run; socket errors are transient; a       *)
(* datagram that is sent over and over arrives over and over; the random   *)
(* pick of incomingProcessor does not pass over a packet for ever.         *)
Fairness ==
    /\ SF_vars(sendWindowPackets({}))
    /\ WF_vars(checkForRetransmissions)
    /\ \A n \in PcktNums :
          /\ SF_vars(ReceiveDATA(n))
          /\ SF_vars(ReceiveACK(n))
          /\ WF_vars(ARQ_Store(n))
          /\ WF_vars(incomingProcessor(n))

FairSpec == Spec /\ Fairness

-----------------------------------------------------------------------------
(* Properties.                                                             *)

(* The type invariant: what the two windows and the network hold. *)
TypeOK ==
    /\ nextPcktNum \in 0 .. MaxPackets
    /\ acked \subseteq outgoing
    /\ windowStart \in 0 .. nextPcktNum
    /\ looper \in {"sendWindowPackets", "checkForRetransmissions"}
    /\ net \subseteq Packets
    /\ handlers \subseteq PcktNums
    /\ incoming \subseteq PcktNums
    /\ lastPcktReceived \in PcktNums \cup {0}
    /\ processed \subseteq PcktNums

(* A packet the receiver acknowledged is not lost there, although the      *)
(* acknowledgement leaves before the packet is stored (:125, :143): it is  *)
(* in a handler's hands, stored, or processed.  The sender relies on it as *)
(* soon as the acknowledgement is in flight, for it never sends again.     *)
AckedIsReceived ==
    \A n \in PcktNums :
        ACK(n) \in net \/ n \in acked =>
            n \in handlers \cup incoming \cup processed

(* The window only leaves acknowledged packets behind: what is below it is *)
(* never sent again, so an unacknowledged packet there would be lost.      *)
BehindWindowIsAcked == 0 .. windowStart - 1 \subseteq acked

(* Flow control: nothing beyond the window of windowSize packets after the *)
(* last one passed is on the wire, stored or processed (:629).             *)
WithinWindow ==
    \A n \in PcktNums :
        DATA(n) \in net \/ n \in handlers \cup incoming \cup processed =>
            n < windowStart + WindowSize

(* An acknowledgement is never taken back, although sendPacket resets      *)
(* AckReceived on every packet it sends (:614): not by a retransmission    *)
(* that races it, nor by a NAK that arrives after it (:208).               *)
AckedStaysAcked == [][acked \subseteq acked']_vars

(* Every queued packet is acknowledged and left behind by the window in    *)
(* the end, through loss, duplication, reordering and socket errors.       *)
WindowDrains ==
    \A n \in PcktNums : n \in outgoing ~> n < windowStart

(* The messages are the packet numbers; one is delivered when processed. *)
Channel == INSTANCE AtLeastOnce WITH
    Messages <- PcktNums,
    sent <- outgoing,
    undelivered <- outgoing \ processed

(* Whatever is lost, repeated or reordered, each step of the ARQ is a step *)
(* of the channel the vote manager relies on: only what was queued is      *)
(* handled, one packet at a time, and none before it is queued.            *)
KeepsChannel == Channel!Spec

(* The ARQ implements that channel, delivery in the end included. *)
ImplementsAtLeastOnce == Channel!FairSpec

(* "checks for duplicates" (conversation.go:107, :141): a packet that was  *)
(* received twice is processed once.                                       *)
ProcessedOnce == [][(incoming \ incoming') \cap processed = {}]_vars

(* "sends ACKs/NAKs" (conversation.go:107, :154): when a packet is stored  *)
(* that leaves a gap after the last one received, the missing are NAKed.   *)
GapsAreNAKed ==
    [][\A n \in incoming' \ incoming, i \in PcktNums :
          lastPcktReceived < i /\ i < n => NAK(i) \in net']_vars

=============================================================================
