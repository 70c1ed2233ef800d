----------------------- MODULE SelectiveRepeatProofs ------------------------
(***************************************************************************)
(* Proofs about SelectiveRepeat, for any window, any number of packets     *)
(* below Modulus, any loss, and with or without NAKs.                      *)
(***************************************************************************)
EXTENDS SelectiveRepeat, TLAPS

-----------------------------------------------------------------------------
(* Arithmetic and operators.                                               *)

(* A remainder is not above what was divided. *)
LEMMA Remainder ==
    ASSUME NEW n \in Nat
    PROVE  /\ n % Modulus \in Nat
           /\ n % Modulus <= n
           /\ n < Modulus => n % Modulus = n
<1>1. n % Modulus \in 0 .. Modulus - 1
  BY ModulusAssumption, SizeAssumption
<1>2. n < Modulus => n % Modulus = n
  BY ModulusAssumption
<1> QED
  BY <1>1, <1>2, ModulusAssumption

(* Packet numbers do not wrap below MaxPackets. *)
LEMMA NextNumber ==
    ASSUME NEW n \in 0 .. MaxPackets, n < MaxPackets
    PROVE  (n + 1) % Modulus = n + 1
  BY Remainder, SizeAssumption, ModulusAssumption

(* The window has packets from its start to below start + WindowSize. *)
LEMMA WindowBounds ==
    ASSUME NEW start \in Nat, NEW n \in Window(start)
    PROVE  n \in Nat /\ start <= n /\ n < start + WindowSize
  BY Remainder, SizeAssumption DEF Window

(* What a step of sendWindowPackets or checkForRetransmissions may send is *)
(* queued, in the window, and not acknowledged.                            *)
LEMMA UnackedBounds ==
    ASSUME NEW start \in Nat, NEW n \in Unacked(start)
    PROVE  n \in outgoing /\ n \notin acked /\ n < start + WindowSize
  BY WindowBounds DEF Unacked

(* The window moves forward, past acknowledged packets only. *)
LEMMA MoveBounds ==
    ASSUME NEW start \in Nat, NEW k \in moveWindow(start)
    PROVE  k \in Nat /\ start <= k /\ start .. k - 1 \subseteq acked
  BY WindowBounds DEF moveWindow

(* A handler never finds a gap: it compares the packet with itself. *)
LEMMA NoGap ==
    ASSUME NEW n \in PcktNums
    PROVE  {NAK(i) : i \in Gap(n, n)} = {}
  BY DEF Gap, PcktNums

(* Datagrams of the three types differ. *)
LEMMA DatagramsDiffer ==
    \A m, n : /\ DATA(m) # ACK(n) /\ DATA(m) # NAK(n) /\ ACK(m) # NAK(n)
              /\ DATA(m) = DATA(n) => m = n
              /\ ACK(m) = ACK(n) => m = n
              /\ NAK(m) = NAK(n) => m = n
  BY DEF DATA, ACK, NAK

(* They are what the network carries. *)
LEMMA DatagramType ==
    \A n \in PcktNums : DATA(n) \in Packets /\ ACK(n) \in Packets /\ NAK(n) \in Packets
  BY DEF DATA, ACK, NAK, Packets

-----------------------------------------------------------------------------
(* Types.                                                                  *)

(* The bounds of the model are natural numbers. *)
LEMMA Bounds == MaxPackets \in Nat /\ PcktNums \subseteq Nat
  BY SizeAssumption DEF PcktNums

(* What arrives leaves the datagrams in flight as they were, but for one. *)
LEMMA InFlight ==
    ASSUME NEW p, NEW rest \in InFlightAfter(p)
    PROVE  p \in net /\ rest \subseteq net
  BY DEF InFlightAfter

(* A move of the window passes queued packets only. *)
LEMMA MoveQueued ==
    ASSUME TypeOK, NEW k \in moveWindow(windowStart)
    PROVE  k \in windowStart .. nextPcktNum
<1>1. k \in Nat /\ windowStart <= k /\ windowStart .. k - 1 \subseteq outgoing
  BY MoveBounds, Bounds DEF TypeOK
<1>2. CASE k = windowStart
  BY <1>1, <1>2, Bounds DEF TypeOK
<1>3. CASE k # windowStart
  <2>1. k - 1 \in outgoing
    BY <1>1, <1>3, Bounds DEF TypeOK
  <2> QED
    BY <1>1, <2>1, Bounds DEF TypeOK, outgoing
<1> QED
  BY <1>2, <1>3

(* Every step keeps the types (the two windows, the datagrams in flight).  *)
LEMMA TypeStep == TypeOK /\ [Next]_vars => TypeOK'
<1> SUFFICES ASSUME TypeOK, [Next]_vars PROVE TypeOK'
  OBVIOUS
<1> USE Bounds
<1>1. CASE Queue
  BY <1>1, NextNumber DEF Queue, TypeOK, outgoing, receiverVars
<1>2. ASSUME NEW failed \in SUBSET PcktNums, sendWindowPackets(failed)
      PROVE  TypeOK'
  <2>1. PICK start \in moveWindow(windowStart) :
            windowStart' = start /\ sendPackets(Unacked(start) \ failed)
    BY <1>2 DEF sendWindowPackets
  <2>2. start \in 0 .. nextPcktNum
    BY <2>1, MoveQueued DEF TypeOK
  <2>3. {DATA(n) : n \in Unacked(start) \ failed} \subseteq Packets
    BY DatagramType DEF Unacked, TypeOK, outgoing, PcktNums
  <2> QED
    BY <1>2, <2>1, <2>2, <2>3
    DEF sendWindowPackets, sendPackets, TypeOK, outgoing, receiverVars
<1>3. CASE checkForRetransmissions
  <2>1. PICK late \in SUBSET Unacked(windowStart) : sendPackets(late)
    BY <1>3 DEF checkForRetransmissions
  <2>2. {DATA(n) : n \in late} \subseteq Packets
    BY <2>1, DatagramType DEF Unacked, TypeOK, outgoing, PcktNums
  <2> QED
    BY <1>3, <2>1, <2>2
    DEF checkForRetransmissions, sendPackets, TypeOK, outgoing, receiverVars
<1>4. ASSUME NEW n \in PcktNums, ReceiveACK(n)
      PROVE  TypeOK'
  BY <1>4, InFlight DEF ReceiveACK, TypeOK, outgoing, receiverVars
<1>5. ASSUME NEW n \in PcktNums, ReceiveNAK(n)
      PROVE  TypeOK'
  BY <1>5, InFlight, DatagramType DEF ReceiveNAK, TypeOK, outgoing, receiverVars
<1>6. ASSUME NEW n \in PcktNums, ReceiveDATA(n)
      PROVE  TypeOK'
  BY <1>6, InFlight, DatagramType DEF ReceiveDATA, TypeOK, outgoing, senderVars
<1>7. ASSUME NEW n \in PcktNums, ARQ_Store(n)
      PROVE  TypeOK'
  BY <1>7, NoGap DEF ARQ_Store, TypeOK, outgoing, senderVars
<1>8. ASSUME NEW n \in PcktNums, incomingProcessor(n)
      PROVE  TypeOK'
  BY <1>8 DEF incomingProcessor, TypeOK, outgoing, senderVars
<1>9. ASSUME NEW n \in PcktNums, PeerSendsNAK(n)
      PROVE  TypeOK'
  BY <1>9, DatagramType DEF PeerSendsNAK, TypeOK, outgoing, senderVars, receiverVars
<1>10. ASSUME NEW p \in net, Lose(p)
       PROVE  TypeOK'
  BY <1>10 DEF Lose, TypeOK, outgoing, senderVars, receiverVars
<1>11. CASE UNCHANGED vars
  BY <1>11 DEF vars, senderVars, receiverVars, TypeOK, outgoing
<1> QED
  BY <1>1, <1>2, <1>3, <1>4, <1>5, <1>6, <1>7, <1>8, <1>9, <1>10, <1>11
  DEF Next, Sender, Receiver

(* The two windows and the network only hold what the type invariant says: *)
(* the window starts at a queued packet or just after the last one, and an *)
(* acknowledgement is recorded for queued packets only.                    *)
THEOREM TypeCorrect == Spec => []TypeOK
<1>1. Init => TypeOK
  BY Bounds DEF Init, TypeOK, outgoing
<1> QED
  BY <1>1, TypeStep, PTL DEF Spec

-----------------------------------------------------------------------------
(* What the receiver acknowledged.                                         *)

(* What the receiver's conversation holds or has held. *)
Received == handlers \cup incoming \cup processed

(* No step makes the receiver forget a packet. *)
LEMMA ReceivedGrows ==
    ASSUME [Next]_vars
    PROVE  Received \subseteq Received'
<1>1. CASE UNCHANGED receiverVars
  BY <1>1 DEF receiverVars, Received
<1>2. ASSUME NEW n \in PcktNums, ReceiveDATA(n)
      PROVE  Received \subseteq Received'
  BY <1>2 DEF ReceiveDATA, Received
<1>3. ASSUME NEW n \in PcktNums, ARQ_Store(n)
      PROVE  Received \subseteq Received'
  BY <1>3 DEF ARQ_Store, Received
<1>4. ASSUME NEW n \in PcktNums, incomingProcessor(n)
      PROVE  Received \subseteq Received'
  BY <1>4 DEF incomingProcessor, Received
<1> QED
  BY <1>1, <1>2, <1>3, <1>4
  DEF Next, Sender, Receiver, vars, Queue, sendWindowPackets, checkForRetransmissions,
      ReceiveACK, ReceiveNAK, PeerSendsNAK, Lose

(* An acknowledgement enters the network only for a packet in a handler's  *)
(* hands, and `acked` only from the network.                               *)
LEMMA AcknowledgedStep ==
    ASSUME TypeOK, [Next]_vars, NEW n \in PcktNums,
           ACK(n) \in net' \/ n \in acked'
    PROVE  ACK(n) \in net \/ n \in acked \/ n \in Received'
<1> USE Bounds, DatagramsDiffer
<1>1. CASE Queue
  BY <1>1 DEF Queue
<1>2. ASSUME NEW ns, sendPackets(ns)
      PROVE  ACK(n) \in net \/ n \in acked
  BY <1>2 DEF sendPackets
<1>3. ASSUME NEW m \in PcktNums, ReceiveACK(m)
      PROVE  ACK(n) \in net \/ n \in acked
  BY <1>3, InFlight DEF ReceiveACK
<1>4. ASSUME NEW m \in PcktNums, ReceiveNAK(m)
      PROVE  ACK(n) \in net \/ n \in acked
  BY <1>4, InFlight DEF ReceiveNAK
<1>5. ASSUME NEW m \in PcktNums, ReceiveDATA(m)
      PROVE  ACK(n) \in net \/ n \in acked \/ n \in Received'
  BY <1>5, InFlight DEF ReceiveDATA, senderVars, Received
<1>6. ASSUME NEW m \in PcktNums, ARQ_Store(m)
      PROVE  ACK(n) \in net \/ n \in acked
  BY <1>6, NoGap DEF ARQ_Store, senderVars
<1>7. ASSUME NEW m \in PcktNums, incomingProcessor(m)
      PROVE  ACK(n) \in net \/ n \in acked
  BY <1>7 DEF incomingProcessor, senderVars
<1>8. ASSUME NEW m \in PcktNums, PeerSendsNAK(m)
      PROVE  ACK(n) \in net \/ n \in acked
  BY <1>8 DEF PeerSendsNAK, senderVars
<1>9. ASSUME NEW p \in net, Lose(p)
      PROVE  ACK(n) \in net \/ n \in acked
  BY <1>9 DEF Lose, senderVars
<1>10. CASE UNCHANGED vars
  BY <1>10 DEF vars, senderVars
<1> QED
  BY <1>1, <1>2, <1>3, <1>4, <1>5, <1>6, <1>7, <1>8, <1>9, <1>10
  DEF Next, Sender, Receiver, sendWindowPackets, checkForRetransmissions

(* A packet that the receiver acknowledged is never lost there, although   *)
(* it is acknowledged before it is stored (conversation.go:125, :143).     *)
THEOREM AcknowledgedIsReceived == Spec => []AckedIsReceived
<1>1. Init => AckedIsReceived
  BY DEF Init, AckedIsReceived
<1>2. TypeOK /\ AckedIsReceived /\ [Next]_vars => AckedIsReceived'
  BY AcknowledgedStep, ReceivedGrows DEF AckedIsReceived, Received
<1> QED
  BY <1>1, <1>2, TypeCorrect, PTL DEF Spec

-----------------------------------------------------------------------------
(* The sliding window.                                                     *)

(* No step takes an acknowledgement back: sendPacket resets AckReceived    *)
(* only on packets that it was not set on, be it for the window, for a     *)
(* retransmission or for a NAK.                                            *)
LEMMA AckedGrows ==
    ASSUME TypeOK, [Next]_vars
    PROVE  acked \subseteq acked'
<1>1. ASSUME NEW start \in Nat, NEW ns \in SUBSET Unacked(start), sendPackets(ns)
      PROVE  acked \subseteq acked'
  BY <1>1, UnackedBounds DEF sendPackets
<1>2. ASSUME NEW failed \in SUBSET PcktNums, sendWindowPackets(failed)
      PROVE  acked \subseteq acked'
  <2>1. PICK start \in moveWindow(windowStart) : sendPackets(Unacked(start) \ failed)
    BY <1>2 DEF sendWindowPackets
  <2>2. start \in Nat
    BY <2>1, MoveBounds, Bounds DEF TypeOK
  <2> QED
    BY <1>1, <2>1, <2>2
<1>3. CASE checkForRetransmissions
  BY <1>1, <1>3, Bounds DEF checkForRetransmissions, TypeOK
<1>4. ASSUME NEW n \in PcktNums, ReceiveACK(n) \/ ReceiveNAK(n)
      PROVE  acked \subseteq acked'
  BY <1>4 DEF ReceiveACK, ReceiveNAK
<1> QED
  BY <1>2, <1>3, <1>4
  DEF Next, Sender, Receiver, vars, senderVars, Queue, ReceiveDATA, ARQ_Store,
      incomingProcessor, PeerSendsNAK, Lose

(* An acknowledgement is never taken back. *)
THEOREM AckedIsFinal == Spec => AckedStaysAcked
<1>1. TypeOK /\ [Next]_vars => [acked \subseteq acked']_vars
  BY AckedGrows
<1> QED
  BY <1>1, TypeCorrect, PTL DEF Spec, AckedStaysAcked

(* What the window may do in a step: stay, or move past acknowledged       *)
(* packets.                                                                *)
LEMMA WindowMoves ==
    ASSUME TypeOK, [Next]_vars
    PROVE  windowStart <= windowStart' /\ windowStart .. windowStart' - 1 \subseteq acked
<1>1. ASSUME NEW failed \in SUBSET PcktNums, sendWindowPackets(failed)
      PROVE  windowStart <= windowStart' /\ windowStart .. windowStart' - 1 \subseteq acked
  BY <1>1, MoveBounds, Bounds DEF sendWindowPackets, TypeOK
<1>2. CASE windowStart' = windowStart
  BY <1>2, Bounds DEF TypeOK
<1> QED
  BY <1>1, <1>2
  DEF Next, Sender, Receiver, vars, senderVars, Queue, checkForRetransmissions,
      ReceiveACK, ReceiveNAK, ReceiveDATA, ARQ_Store, incomingProcessor, PeerSendsNAK, Lose

(* A range of numbers splits anywhere. *)
LEMMA SplitRange ==
    ASSUME NEW a \in Nat, NEW b \in Nat, NEW n \in 0 .. b - 1
    PROVE  n \in 0 .. a - 1 \/ n \in a .. b - 1
  OBVIOUS

(* The window leaves only acknowledged packets behind: a packet below it   *)
(* is never sent again, so an unacknowledged one there would be lost.      *)
THEOREM WindowLeavesAcked == Spec => []BehindWindowIsAcked
<1>1. Init => BehindWindowIsAcked
  BY DEF Init, BehindWindowIsAcked
<1>2. TypeOK /\ BehindWindowIsAcked /\ [Next]_vars => BehindWindowIsAcked'
  <2> SUFFICES ASSUME TypeOK, BehindWindowIsAcked, [Next]_vars,
                      NEW n, n \in 0 .. windowStart' - 1
               PROVE  n \in acked'
    BY DEF BehindWindowIsAcked
  <2>1. windowStart \in Nat /\ windowStart' \in Nat
    BY TypeStep, Bounds DEF TypeOK
  <2>2. n \in 0 .. windowStart - 1 \/ n \in windowStart .. windowStart' - 1
    BY <2>1, SplitRange
  <2>3. n \in acked
    BY <2>2, WindowMoves DEF BehindWindowIsAcked
  <2> QED
    BY <2>3, AckedGrows
<1> QED
  BY <1>1, <1>2, TypeCorrect, PTL DEF Spec

-----------------------------------------------------------------------------
(* Where datagrams come from.                                              *)

(* A packet enters the network when the window holds it, or when a NAK     *)
(* asks for it and it was queued.                                          *)
LEMMA DataOrigin ==
    ASSUME TypeOK, [Next]_vars, NEW n \in PcktNums, DATA(n) \in net'
    PROVE  \/ DATA(n) \in net
           \/ n \in outgoing /\ n < windowStart' + WindowSize
           \/ n \in outgoing /\ NAK(n) \in net
<1> USE Bounds, DatagramsDiffer
<1>1. ASSUME NEW failed \in SUBSET PcktNums, sendWindowPackets(failed)
      PROVE  DATA(n) \in net \/ (n \in outgoing /\ n < windowStart' + WindowSize)
  <2>1. PICK start \in moveWindow(windowStart) :
            windowStart' = start /\ sendPackets(Unacked(start) \ failed)
    BY <1>1 DEF sendWindowPackets
  <2>2. windowStart' \in Nat
    BY <2>1, MoveBounds DEF TypeOK
  <2> QED
    BY <2>1, <2>2, UnackedBounds DEF sendPackets
<1>2. CASE checkForRetransmissions
  <2>1. PICK late \in SUBSET Unacked(windowStart) : sendPackets(late)
    BY <1>2 DEF checkForRetransmissions
  <2>2. windowStart \in Nat /\ windowStart' = windowStart
    BY <1>2 DEF checkForRetransmissions, TypeOK
  <2> QED
    BY <2>1, <2>2, UnackedBounds DEF sendPackets
<1>3. ASSUME NEW m \in PcktNums, ReceiveNAK(m)
      PROVE  DATA(n) \in net \/ (n \in outgoing /\ NAK(n) \in net)
  BY <1>3, InFlight DEF ReceiveNAK
<1>4. ASSUME NEW m \in PcktNums, ReceiveACK(m)
      PROVE  DATA(n) \in net
  BY <1>4, InFlight DEF ReceiveACK
<1>5. ASSUME NEW m \in PcktNums, ReceiveDATA(m)
      PROVE  DATA(n) \in net
  BY <1>5, InFlight DEF ReceiveDATA
<1>6. ASSUME NEW m \in PcktNums, ARQ_Store(m)
      PROVE  DATA(n) \in net
  BY <1>6, NoGap DEF ARQ_Store
<1> QED
  BY <1>1, <1>2, <1>3, <1>4, <1>5, <1>6
  DEF Next, Sender, Receiver, vars, Queue, incomingProcessor, PeerSendsNAK, Lose

(* A NAK enters the network only from a peer that has received a later     *)
(* packet.                                                                 *)
LEMMA NAKOrigin ==
    ASSUME TypeOK, [Next]_vars, NEW n \in PcktNums, NAK(n) \in net'
    PROVE  NAK(n) \in net \/ \E m \in PcktNums : n < m /\ m \in Received
<1> USE DatagramsDiffer
<1>1. ASSUME NEW ns, sendPackets(ns)
      PROVE  NAK(n) \in net
  BY <1>1 DEF sendPackets
<1>2. ASSUME NEW m \in PcktNums,
             ReceiveNAK(m) \/ ReceiveACK(m) \/ ReceiveDATA(m)
      PROVE  NAK(n) \in net
  BY <1>2, InFlight DEF ReceiveNAK, ReceiveACK, ReceiveDATA
<1>3. ASSUME NEW m \in PcktNums, ARQ_Store(m)
      PROVE  NAK(n) \in net
  BY <1>3, NoGap DEF ARQ_Store
<1>4. ASSUME NEW m \in PcktNums, PeerSendsNAK(m)
      PROVE  NAK(n) \in net \/ \E k \in PcktNums : n < k /\ k \in Received
  BY <1>4 DEF PeerSendsNAK, Received
<1> QED
  BY <1>1, <1>2, <1>3, <1>4
  DEF Next, Sender, Receiver, vars, Queue, sendWindowPackets, checkForRetransmissions,
      incomingProcessor, Lose

(* The receiver has only packets that arrived. *)
LEMMA ReceivedOrigin ==
    ASSUME TypeOK, [Next]_vars, NEW n \in PcktNums, n \in Received'
    PROVE  n \in Received \/ DATA(n) \in net
<1>1. ASSUME NEW m \in PcktNums, ReceiveDATA(m)
      PROVE  n \in Received \/ DATA(n) \in net
  BY <1>1, InFlight DEF ReceiveDATA, Received
<1>2. ASSUME NEW m \in PcktNums, ARQ_Store(m) \/ incomingProcessor(m)
      PROVE  n \in Received
  BY <1>2 DEF ARQ_Store, incomingProcessor, Received
<1> QED
  BY <1>1, <1>2
  DEF Next, Sender, Receiver, vars, receiverVars, Received, Queue, sendWindowPackets,
      checkForRetransmissions, ReceiveACK, ReceiveNAK, PeerSendsNAK, Lose

-----------------------------------------------------------------------------
(* Flow control.                                                           *)

(* Only packets of the window are asked for again: WithinWindow needs it,  *)
(* because a NAK makes the sender send whatever number it names.           *)
NAKsWithinWindow ==
    \A n \in PcktNums : NAK(n) \in net => n < windowStart + WindowSize

(* What is within a window is within a later one. *)
LEMMA WindowGrows ==
    ASSUME NEW a \in Nat, NEW b \in Nat, a <= b, NEW n \in Nat, n < a + WindowSize
    PROVE  n < b + WindowSize
  BY SizeAssumption

(* Every step keeps the flow within the window, which only moves forward.  *)
LEMMA WithinWindowStep ==
    ASSUME TypeOK, WithinWindow, NAKsWithinWindow, [Next]_vars
    PROVE  WithinWindow' /\ NAKsWithinWindow'
<1>1. windowStart \in Nat /\ windowStart' \in Nat /\ windowStart <= windowStart'
  BY TypeStep, WindowMoves, Bounds DEF TypeOK
<1>2. WindowSize \in Nat
  BY SizeAssumption
<1>3. ASSUME NEW n \in PcktNums, n < windowStart + WindowSize
      PROVE  n < windowStart' + WindowSize
  BY <1>1, <1>3, WindowGrows, Bounds
<1>4. ASSUME NEW n \in PcktNums, DATA(n) \in net'
      PROVE  n < windowStart' + WindowSize
  BY <1>3, <1>4, DataOrigin DEF WithinWindow, NAKsWithinWindow
<1>5. ASSUME NEW n \in PcktNums, n \in Received'
      PROVE  n < windowStart' + WindowSize
  BY <1>3, <1>5, ReceivedOrigin DEF WithinWindow, Received
<1>6. ASSUME NEW n \in PcktNums, NAK(n) \in net'
      PROVE  n < windowStart' + WindowSize
  <2>1. NAK(n) \in net \/ \E m \in PcktNums : n < m /\ m \in Received
    BY <1>6, NAKOrigin
  <2>2. n < windowStart + WindowSize
    BY <1>1, <1>2, <2>1, Bounds DEF WithinWindow, NAKsWithinWindow, Received
  <2> QED
    BY <1>3, <2>2
<1> QED
  BY <1>4, <1>5, <1>6 DEF WithinWindow, NAKsWithinWindow, Received

(* Nothing beyond the window of WindowSize packets after the last one that *)
(* was passed is on the wire, stored or processed (conversation.go:629).   *)
THEOREM FlowControl == Spec => []WithinWindow
<1>1. Init => WithinWindow /\ NAKsWithinWindow
  BY DEF Init, WithinWindow, NAKsWithinWindow
<1>2. TypeOK /\ WithinWindow /\ NAKsWithinWindow /\ [Next]_vars
      => WithinWindow' /\ NAKsWithinWindow'
  BY WithinWindowStep
<1> QED
  BY <1>1, <1>2, TypeCorrect, PTL DEF Spec

-----------------------------------------------------------------------------
(* The channel that the ARQ implements.                                    *)

(* Nothing arrives before it was queued: the refinement needs it, for a    *)
(* packet that was processed first would be owed when it is queued.        *)
OnlyQueuedArrives ==
    \A n \in PcktNums : DATA(n) \in net \/ n \in Received => n \in outgoing

(* Queueing adds a packet, and nothing removes one. *)
LEMMA OutgoingGrows ==
    ASSUME TypeOK, [Next]_vars
    PROVE  outgoing \subseteq outgoing'
<1>1. CASE Queue
  BY <1>1, NextNumber, Bounds DEF Queue, TypeOK, outgoing
<1>2. CASE nextPcktNum' = nextPcktNum
  BY <1>2 DEF outgoing
<1> QED
  BY <1>1, <1>2
  DEF Next, Sender, Receiver, vars, senderVars, sendWindowPackets,
      checkForRetransmissions, ReceiveACK, ReceiveNAK, ReceiveDATA, ARQ_Store,
      incomingProcessor, PeerSendsNAK, Lose

LEMMA OnlyQueuedStep ==
    ASSUME TypeOK, OnlyQueuedArrives, [Next]_vars
    PROVE  OnlyQueuedArrives'
<1>1. ASSUME NEW n \in PcktNums, DATA(n) \in net' \/ n \in Received'
      PROVE  n \in outgoing
  BY <1>1, DataOrigin, ReceivedOrigin DEF OnlyQueuedArrives
<1> QED
  BY <1>1, OutgoingGrows DEF OnlyQueuedArrives

(* What is queued are packet numbers. *)
LEMMA QueuedBounds ==
    ASSUME NEW k \in 0 .. MaxPackets
    PROVE  0 .. k - 1 \subseteq PcktNums
  BY Bounds DEF PcktNums

(* Only incomingProcessor delivers, one packet that was waiting for it.    *)
LEMMA ProcessedStep ==
    ASSUME [Next]_vars
    PROVE  \/ processed' = processed
           \/ \E n \in incoming : processed' = processed \cup {n}
  BY DEF Next, Sender, Receiver, vars, receiverVars, Queue, sendWindowPackets,
         checkForRetransmissions, ReceiveACK, ReceiveNAK, ReceiveDATA, ARQ_Store,
         incomingProcessor, PeerSendsNAK, Lose

(* A step of the ARQ queues a packet, delivers one, or does neither: each  *)
(* is a step of the channel.                                               *)
LEMMA ChannelStep ==
    ASSUME TypeOK, TypeOK', OnlyQueuedArrives, [Next]_vars
    PROVE  Channel!Next
<1>1. outgoing \subseteq outgoing'
  BY OutgoingGrows
<1>2. outgoing' \subseteq PcktNums
  <2>1. nextPcktNum' \in 0 .. MaxPackets
    BY DEF TypeOK
  <2> QED
    BY <2>1, QueuedBounds DEF outgoing
<1>3. outgoing' \ outgoing \subseteq outgoing' \ processed'
  <2> SUFFICES ASSUME NEW n \in PcktNums, n \notin outgoing
               PROVE  n \notin processed'
    BY <1>2
  <2> QED
    BY ProcessedStep DEF OnlyQueuedArrives, Received, TypeOK
<1>4. \A m, n \in (outgoing \ processed) \ (outgoing' \ processed') : m = n
  BY <1>1, ProcessedStep
<1> QED
  BY <1>1, <1>2, <1>3, <1>4 DEF Channel!Next

(* Whatever is lost, repeated or reordered, the ARQ is a channel that      *)
(* delivers only what was queued, one packet at a time.                    *)
THEOREM ARQKeepsChannel == Spec => KeepsChannel
<1>1. Init => OnlyQueuedArrives /\ Channel!Init
  BY DEF Init, OnlyQueuedArrives, Received, Channel!Init, outgoing
<1>2. TypeOK /\ OnlyQueuedArrives /\ [Next]_vars => OnlyQueuedArrives'
  BY OnlyQueuedStep
<1>3. TypeOK /\ TypeOK' /\ OnlyQueuedArrives /\ [Next]_vars
      => [Channel!Next]_(Channel!vars)
  BY ChannelStep
<1> QED
  BY <1>1, <1>2, <1>3, TypeCorrect, PTL DEF Spec, KeepsChannel, Channel!Spec

=============================================================================
