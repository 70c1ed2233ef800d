---------------------------- MODULE LocksProofs -----------------------------
(***************************************************************************)
(* Proofs about Locks, for any number of conversations and datagrams:      *)
(* every routine of a goroutine takes its locks in descending order, gives *)
(* them all back, and touches the map of conversations only under          *)
(* conversations_lock.  So goroutines keep the order of LockOrder, never   *)
(* wait in a circle, and never race on the map.                            *)
(***************************************************************************)
EXTENDS Locks, FiniteSetTheorems, TLAPS

-----------------------------------------------------------------------------
(* Orderly routines.                                                       *)

Steps ==
    {Lock_(l) : l \in Lock} \cup {Unlock(l) : l \in Lock}
    \cup {Range_} \cup {Add(c) : c \in Conversations}

(* Who holds `held` may do `step`, and then holds `after`. *)
Does(held, step, after) ==
    \/ \E l \in Lock : /\ step = Lock_(l)
                       /\ \A k \in held : Level(l) < Level(k)
                       /\ after = held \cup {l}
    \/ \E l \in held : step = Unlock(l) /\ after = held \ {l}
    \/ /\ step = Range_ \/ \E c \in Conversations : step = Add(c)
       /\ conversations_lock \in held
       /\ after = held

(* Who holds `held` may do the steps of s, and then holds `after`: there   *)
(* are sets of locks that it holds before, between and after them.         *)
Orderly(held, s, after) ==
    /\ s \in Seq(Steps)
    /\ \E holds \in [1 .. Len(s) + 1 -> SUBSET Lock] :
          /\ holds[1] = held
          /\ holds[Len(s) + 1] = after
          /\ \A i \in 1 .. Len(s) : Does(holds[i], s[i], holds[i + 1])

(* Nothing changes nothing. *)
LEMMA OrderlyNothing ==
    ASSUME NEW held \in SUBSET Lock
    PROVE  Orderly(held, <<>>, held)
<1> DEFINE holds == [i \in 1 .. 1 |-> held]
<1>1. Len(<<>>) = 0 /\ <<>> \in Seq(Steps) /\ 1 .. 0 = {} /\ 0 + 1 = 1
  OBVIOUS
<1>2. holds \in [1 .. 1 -> SUBSET Lock] /\ holds[1] = held
  OBVIOUS
<1> HIDE DEF holds
<1> QED
  BY <1>1, <1>2, SMT DEF Orderly

(* One step. *)
LEMMA OrderlyStep ==
    ASSUME NEW held \in SUBSET Lock, NEW after \in SUBSET Lock, NEW step \in Steps,
           Does(held, step, after)
    PROVE  Orderly(held, <<step>>, after)
<1> DEFINE holds == [i \in 1 .. 2 |-> IF i = 1 THEN held ELSE after]
<1>1. Len(<<step>>) = 1 /\ <<step>>[1] = step /\ <<step>> \in Seq(Steps)
  OBVIOUS
<1>2. holds \in [1 .. 2 -> SUBSET Lock] /\ holds[1] = held /\ holds[2] = after
  OBVIOUS
<1> HIDE DEF holds
<1> QED
  BY <1>1, <1>2 DEF Orderly

(* One routine after the other. *)
LEMMA OrderlyThen ==
    ASSUME NEW held, NEW mid, NEW after, NEW s, NEW t,
           Orderly(held, s, mid), Orderly(mid, t, after)
    PROVE  Orderly(held, s \o t, after)
<1>1. s \in Seq(Steps) /\ t \in Seq(Steps)
  BY DEF Orderly
<1>2. PICK a \in [1 .. Len(s) + 1 -> SUBSET Lock] :
          /\ a[1] = held /\ a[Len(s) + 1] = mid
          /\ \A i \in 1 .. Len(s) : Does(a[i], s[i], a[i + 1])
  BY DEF Orderly
<1>3. PICK b \in [1 .. Len(t) + 1 -> SUBSET Lock] :
          /\ b[1] = mid /\ b[Len(t) + 1] = after
          /\ \A i \in 1 .. Len(t) : Does(b[i], t[i], b[i + 1])
  BY DEF Orderly
<1> DEFINE m == Len(s)
           n == Len(t)
           both == s \o t
           holds == [i \in 1 .. m + n + 1 |-> IF i <= m THEN a[i] ELSE b[i - m]]
<1>4. m \in Nat /\ n \in Nat
  BY <1>1
<1>5. both \in Seq(Steps) /\ Len(both) = m + n
  BY <1>1
<1>6. \A i \in 1 .. m + n : both[i] = IF i <= m THEN s[i] ELSE t[i - m]
  BY <1>1
<1> HIDE DEF m, n, both
<1>7. holds \in [1 .. m + n + 1 -> SUBSET Lock]
  BY <1>2, <1>3, <1>4 DEF m, n
<1>8. holds[1] = held /\ holds[m + n + 1] = after
  BY <1>2, <1>3, <1>4 DEF m, n
<1>9. \A i \in 1 .. m + n + 1 : holds[i] = IF i <= m THEN a[i] ELSE b[i - m]
  OBVIOUS
<1> HIDE DEF holds
<1>10. ASSUME NEW i \in 1 .. m + n
       PROVE  Does(holds[i], both[i], holds[i + 1])
  <2>1. /\ i \in 1 .. m + n + 1 /\ i + 1 \in 1 .. m + n + 1
        /\ i \in Nat
    BY <1>4
  <2>2. CASE i < m
    <3>1. /\ holds[i] = a[i] /\ holds[i + 1] = a[i + 1]
          /\ both[i] = s[i]
      BY <1>4, <1>6, <1>9, <2>1, <2>2
    <3>2. i \in 1 .. Len(s)
      BY <1>4, <2>2 DEF m
    <3> QED
      BY <1>2, <3>1, <3>2
  <2>3. CASE i = m
    <3>1. (m + 1) - m = 1
      BY <1>4
    <3>2. /\ holds[i] = a[m] /\ holds[i + 1] = b[1]
          /\ both[i] = s[m]
      BY <1>4, <1>6, <1>9, <2>1, <2>3, <3>1
    <3>3. m \in 1 .. Len(s) /\ b[1] = a[m + 1]
      BY <1>2, <1>3, <1>4, <2>3 DEF m
    <3> QED
      BY <1>2, <3>2, <3>3
  <2>4. CASE i > m
    <3>1. i - m \in 1 .. Len(t) /\ (i + 1) - m = (i - m) + 1
      BY <1>4, <2>4 DEF n
    <3>2. /\ holds[i] = b[i - m] /\ holds[i + 1] = b[(i - m) + 1]
          /\ both[i] = t[i - m]
      BY <1>4, <1>6, <1>9, <2>1, <2>4, <3>1
    <3> QED
      BY <1>3, <3>1, <3>2
  <2>5. i < m \/ i = m \/ i > m
    BY <1>4, <2>1
  <2> QED
    BY <2>2, <2>3, <2>4, <2>5
<1> QED
  BY <1>5, <1>7, <1>8, <1>10 DEF Orderly, both

(* What is left after the first step. *)
LEMMA OrderlyRest ==
    ASSUME NEW held, NEW s, NEW after, Orderly(held, s, after), s # <<>>
    PROVE  /\ Head(s) \in Steps
           /\ \E mid \in SUBSET Lock : /\ Does(held, Head(s), mid)
                                       /\ Orderly(mid, Tail(s), after)
<1>1. s \in Seq(Steps)
  BY DEF Orderly
<1>2. PICK a \in [1 .. Len(s) + 1 -> SUBSET Lock] :
          /\ a[1] = held /\ a[Len(s) + 1] = after
          /\ \A i \in 1 .. Len(s) : Does(a[i], s[i], a[i + 1])
  BY DEF Orderly
<1> DEFINE n == Len(s)
           holds == [i \in 1 .. n |-> a[i + 1]]
<1>3. n \in Nat /\ n >= 1 /\ Head(s) = s[1] /\ Head(s) \in Steps
  BY <1>1
<1>4. /\ Tail(s) \in Seq(Steps)
      /\ Len(Tail(s)) = n - 1
      /\ \A i \in 1 .. n - 1 : Tail(s)[i] = s[i + 1]
  BY <1>1
<1> HIDE DEF n
<1>5. /\ holds \in [1 .. (n - 1) + 1 -> SUBSET Lock]
      /\ holds[1] = a[2]
      /\ holds[(n - 1) + 1] = after
  BY <1>2, <1>3 DEF n
<1>6. \A i \in 1 .. n - 1 : Does(holds[i], Tail(s)[i], holds[i + 1])
  BY <1>2, <1>3, <1>4 DEF n
<1>7. a[2] \in SUBSET Lock /\ Does(held, Head(s), a[2])
  BY <1>2, <1>3 DEF n
<1> HIDE DEF holds
<1>8. Orderly(a[2], Tail(s), after)
  BY <1>4, <1>5, <1>6 DEF Orderly
<1> QED
  BY <1>3, <1>7, <1>8

-----------------------------------------------------------------------------
(* Routines of one lock after the other, or inside the other.              *)

(* The levels of the locks: those of conversations are the outermost and   *)
(* the innermost.                                                          *)
LEMMA Levels ==
    /\ \A c \in Conversations : /\ incoming(c) \in Lock /\ Level(incoming(c)) = 4
                                /\ outgoing(c) \in Lock /\ Level(outgoing(c)) = 0
    /\ h_referendums \in Lock /\ Level(h_referendums) = 3
    /\ c_referendums \in Lock /\ Level(c_referendums) = 3
    /\ conversations_lock \in Lock /\ Level(conversations_lock) = 2
    /\ h_referendum \in Lock /\ Level(h_referendum) = 1
    /\ c_referendum \in Lock /\ Level(c_referendum) = 1
    /\ generatedConvIDs \in Lock /\ Level(generatedConvIDs) = 0
    /\ \A l \in Lock : Level(l) \in 0 .. 4
<1> USE DEF Level, LevelOf, incoming, outgoing, h_referendums, c_referendums,
            conversations_lock, generatedConvIDs, h_referendum, c_referendum
<1>1. ASSUME NEW c \in Conversations
      PROVE  /\ incoming(c) \in Lock /\ Level(incoming(c)) = 4
             /\ outgoing(c) \in Lock /\ Level(outgoing(c)) = 0
  BY DEF Lock
<1>2. {h_referendums, c_referendums, conversations_lock, generatedConvIDs,
       h_referendum, c_referendum} \subseteq Lock
  BY DEF Lock
<1>3. Level(h_referendums) = 3 /\ Level(c_referendums) = 3
  OBVIOUS
<1>4. Level(conversations_lock) = 2 /\ Level(generatedConvIDs) = 0
  OBVIOUS
<1>5. Level(h_referendum) = 1 /\ Level(c_referendum) = 1
  OBVIOUS
<1>6. \A l \in Lock : Level(l) \in 0 .. 4
  BY DEF Lock
<1> HIDE DEF Level, LevelOf, incoming, outgoing, h_referendums, c_referendums,
             conversations_lock, generatedConvIDs, h_referendum, c_referendum
<1> QED
  BY <1>1, <1>2, <1>3, <1>4, <1>5, <1>6

(* A lock below those that are held may be taken for the time of a body    *)
(* that leaves it held.                                                    *)
LEMMA OrderlyLocked ==
    ASSUME NEW held \in SUBSET Lock, NEW l \in Lock, NEW body,
           \A k \in held : Level(l) < Level(k),
           Orderly(held \cup {l}, body, held \cup {l})
    PROVE  Orderly(held, Locked(l, body), held)
<1> DEFINE inside == held \cup {l}
<1>1. inside \in SUBSET Lock /\ l \in inside
  OBVIOUS
<1>2. inside \ {l} = held
  <2>1. l \notin held
    BY Levels
  <2> QED
    BY <2>1
<1>3. Lock_(l) \in Steps /\ Unlock(l) \in Steps
  BY DEF Steps
<1>4. Does(held, Lock_(l), inside)
  BY DEF Does
<1>5. Does(inside, Unlock(l), held)
  BY <1>1, <1>2 DEF Does
<1> HIDE DEF inside
<1>6. Orderly(held, <<Lock_(l)>>, inside) /\ Orderly(inside, <<Unlock(l)>>, held)
  BY <1>1, <1>3, <1>4, <1>5, OrderlyStep
<1>7. Orderly(inside, body, inside)
  BY DEF inside
<1>8. Orderly(held, <<Lock_(l)>> \o body, inside)
  BY <1>6, <1>7, OrderlyThen
<1> QED
  BY <1>6, <1>8, OrderlyThen DEF Locked

(* So may one that nothing is done under. *)
LEMMA OrderlyTouch ==
    ASSUME NEW held \in SUBSET Lock, NEW l \in Lock,
           \A k \in held : Level(l) < Level(k)
    PROVE  Orderly(held, Locked(l, <<>>), held)
<1>1. held \cup {l} \in SUBSET Lock
  OBVIOUS
<1> QED
  BY <1>1, OrderlyNothing, OrderlyLocked

(* Who holds no outgoing_lock, nor generatedConvIDs_lock, may queue a      *)
(* packet.                                                                 *)
LEMMA OrderlySend ==
    ASSUME NEW held \in SUBSET Lock, NEW c \in Conversations,
           \A k \in held : 0 < Level(k)
    PROVE  Orderly(held, SendTo(c), held)
<1>1. outgoing(c) \in Lock /\ Level(outgoing(c)) = 0
  BY Levels
<1> QED
  BY <1>1, OrderlyTouch DEF SendTo

(* A step of a sequence of pairs is the first or the second of its pair. *)
LEMMA PairOf ==
    ASSUME NEW n \in Nat, NEW i \in 1 .. 2 * n
    PROVE  \E k \in 1 .. n : i = 2 * (k - 1) + 1 \/ i = 2 * k
<1>1. (i + 1) \div 2 \in 1 .. n
  BY SMT
<1>2. i = 2 * (((i + 1) \div 2) - 1) + 1 \/ i = 2 * ((i + 1) \div 2)
  BY SMT
<1> QED
  BY <1>1, <1>2

(* Who holds no outgoing_lock, nor generatedConvIDs_lock, may queue a      *)
(* packet for one conversation after the other.                            *)
LEMMA OrderlyBroadcast ==
    ASSUME NEW held \in SUBSET Lock, NEW order \in Seq(Conversations),
           \A k \in held : 0 < Level(k)
    PROVE  Orderly(held, Broadcast(order), held)
<1> DEFINE n == Len(order)
           sent == Broadcast(order)
           taken(k) == outgoing(order[k])
           holds == [i \in 1 .. 2 * n + 1 |->
                        IF i % 2 = 1 THEN held ELSE held \cup {taken(i \div 2)}]
<1>1. n \in Nat /\ \A k \in 1 .. n : order[k] \in Conversations
  OBVIOUS
<1>2. ASSUME NEW k \in 1 .. n
      PROVE  /\ taken(k) \in Lock /\ Level(taken(k)) = 0
             /\ Lock_(taken(k)) \in Steps /\ Unlock(taken(k)) \in Steps
             /\ taken(k) \notin held
  BY <1>1, Levels DEF Steps
<1>3. ASSUME NEW c
      PROVE  SendTo(c)[1] = Lock_(outgoing(c)) /\ SendTo(c)[2] = Unlock(outgoing(c))
  BY DEF SendTo, Locked
<1>4. sent = [i \in 1 .. 2 * n |-> sent[i]]
  BY DEF Broadcast
<1>5. \A i \in 1 .. 2 * n : sent[i] = SendTo(order[(i + 1) \div 2])[2 - (i % 2)]
  BY DEF Broadcast
<1>6. \A i \in 1 .. 2 * n + 1 :
          holds[i] = IF i % 2 = 1 THEN held ELSE held \cup {taken(i \div 2)}
  OBVIOUS
<1> HIDE DEF n, sent, holds
<1>7. ASSUME NEW k \in 1 .. n
      PROVE  LET j == 2 * (k - 1) + 1
             IN  /\ j \in 1 .. 2 * n /\ j + 1 = 2 * k /\ 2 * k \in 1 .. 2 * n
                 /\ 2 * k + 1 \in 1 .. 2 * n + 1
                 /\ sent[j] = Lock_(taken(k)) /\ sent[2 * k] = Unlock(taken(k))
                 /\ holds[j] = held /\ holds[2 * k] = held \cup {taken(k)}
                 /\ holds[2 * k + 1] = held
  <2> DEFINE j == 2 * (k - 1) + 1
  <2>1. /\ j \in 1 .. 2 * n /\ j + 1 = 2 * k /\ 2 * k \in 1 .. 2 * n
        /\ 2 * k + 1 \in 1 .. 2 * n + 1
        /\ j \in 1 .. 2 * n + 1 /\ 2 * k \in 1 .. 2 * n + 1
    BY <1>1
  <2>2. /\ j % 2 = 1 /\ (2 * k) % 2 = 0 /\ (2 * k + 1) % 2 = 1
        /\ (2 * k) \div 2 = k /\ (2 * k + 1) \div 2 = k
    BY <1>1, SMT
  <2> HIDE DEF j
  <2>3. sent[j] = Lock_(taken(k)) /\ sent[2 * k] = Unlock(taken(k))
    <3>1. sent[j] = SendTo(order[k])[1]
      <4>1. sent[j] = SendTo(order[(j + 1) \div 2])[2 - (j % 2)]
        BY <1>5, <2>1
      <4> QED
        BY <2>1, <2>2, <4>1
    <3>2. sent[2 * k] = SendTo(order[k])[2]
      <4>1. sent[2 * k] = SendTo(order[(2 * k + 1) \div 2])[2 - ((2 * k) % 2)]
        BY <1>5, <2>1
      <4> QED
        BY <2>2, <4>1
    <3> QED
      BY <1>3, <3>1, <3>2
  <2>4. holds[j] = held /\ holds[2 * k] = held \cup {taken(k)}
    <3>1. holds[j] = held
      BY <1>6, <2>1, <2>2
    <3>2. holds[2 * k] = IF (2 * k) % 2 = 1 THEN held
                         ELSE held \cup {taken((2 * k) \div 2)}
      BY <1>6, <2>1
    <3> QED
      BY <2>2, <3>1, <3>2
  <2>5. holds[2 * k + 1] = held
    BY <1>6, <2>1, <2>2
  <2> QED
    BY <2>1, <2>3, <2>4, <2>5 DEF j
<1>8. ASSUME NEW i \in 1 .. 2 * n
      PROVE  /\ sent[i] \in Steps
             /\ holds[i] \in SUBSET Lock
             /\ Does(holds[i], sent[i], holds[i + 1])
  <2>1. PICK k \in 1 .. n : i = 2 * (k - 1) + 1 \/ i = 2 * k
    BY <1>1, PairOf
  <2>2. Does(held, Lock_(taken(k)), held \cup {taken(k)})
    BY <1>2 DEF Does
  <2>3. (held \cup {taken(k)}) \ {taken(k)} = held
    BY <1>2
  <2>4. Does(held \cup {taken(k)}, Unlock(taken(k)), held)
    BY <1>2, <2>3 DEF Does
  <2> QED
    BY <1>2, <1>7, <2>1, <2>2, <2>4
<1>9. holds[1] = held /\ holds[2 * n + 1] = held
  <2>1. 1 \in 1 .. 2 * n + 1 /\ 2 * n + 1 \in 1 .. 2 * n + 1
    BY <1>1
  <2>2. 1 % 2 = 1 /\ (2 * n + 1) % 2 = 1
    BY <1>1, SMT
  <2> QED
    BY <1>6, <2>1, <2>2
<1>10. holds \in [1 .. 2 * n + 1 -> SUBSET Lock]
  <2>1. \A i \in 1 .. 2 * n + 1 : holds[i] \in SUBSET Lock
    <3>1. \A i \in 1 .. 2 * n + 1 : i \in 1 .. 2 * n \/ i = 2 * n + 1
      BY <1>1
    <3> QED
      BY <1>8, <1>9, <3>1
  <2>2. holds = [i \in 1 .. 2 * n + 1 |-> holds[i]]
    BY DEF holds
  <2> QED
    BY <2>1, <2>2
<1>11. sent \in Seq(Steps) /\ Len(sent) = 2 * n
  <2>1. sent \in [1 .. 2 * n -> Steps] /\ 2 * n \in Nat
    BY <1>1, <1>4, <1>8
  <2> QED
    BY <2>1
<1> QED
  BY <1>8, <1>9, <1>10, <1>11 DEF Orderly, sent

-----------------------------------------------------------------------------
(* The routines of the source.                                             *)

(* Orders are sequences of conversations. *)
LEMMA OrdersType == Orders \subseteq Seq(Conversations)
<1> SUFFICES ASSUME NEW P \in SUBSET Conversations, NEW order \in SetToSeqs(P)
             PROVE  order \in Seq(Conversations)
  BY DEF Orders
<1>1. Cardinality(P) \in Nat
  BY ConversationsAssumption, FS_Subset, FS_CardinalityType
<1>2. order \in [1 .. Cardinality(P) -> P]
  BY DEF SetToSeqs
<1> QED
  BY <1>1, <1>2

(* The copy of the map needs the two locks in between. *)
LEMMA OrderlyCopy ==
    ASSUME NEW held \in SUBSET Lock, \A k \in held : 2 < Level(k)
    PROVE  Orderly(held, copyConversationsMap, held)
<1> DEFINE outer == held \cup {conversations_lock}
           inner == outer \cup {h_referendum}
<1>1. /\ outer \in SUBSET Lock /\ inner \in SUBSET Lock
      /\ conversations_lock \in Lock /\ h_referendum \in Lock
      /\ \A k \in held : Level(conversations_lock) < Level(k)
      /\ \A k \in outer : Level(h_referendum) < Level(k)
  BY Levels
<1>2. Range_ \in Steps /\ Does(inner, Range_, inner)
  BY DEF Steps, Does
<1> HIDE DEF inner
<1>3. Orderly(inner, <<Range_>>, inner)
  BY <1>1, <1>2, OrderlyStep
<1>4. Orderly(outer, Locked(h_referendum, <<Range_>>), outer)
  BY <1>1, <1>3, OrderlyLocked DEF inner
<1> QED
  BY <1>1, <1>4, OrderlyLocked DEF copyConversationsMap

(* A looper holds its incoming_lock when it calls a handler. *)
LEMMA OrderlyCreate ==
    ASSUME NEW held \in SUBSET Lock, \A k \in held : 3 < Level(k),
           NEW routine \in create_referendum_from_client_request
    PROVE  Orderly(held, routine, held)
<1> DEFINE inner == held \cup {h_referendums}
<1>1. PICK order \in Orders :
          routine = Locked(h_referendums, copyConversationsMap \o Broadcast(order))
  BY DEF create_referendum_from_client_request
<1>2. order \in Seq(Conversations)
  BY <1>1, OrdersType
<1>3. /\ inner \in SUBSET Lock /\ h_referendums \in Lock
      /\ \A k \in held : Level(h_referendums) < Level(k)
      /\ \A k \in inner : 2 < Level(k) /\ 0 < Level(k)
  BY Levels
<1> HIDE DEF inner
<1>4. Orderly(inner, copyConversationsMap, inner)
  BY <1>3, OrderlyCopy
<1>5. Orderly(inner, Broadcast(order), inner)
  BY <1>2, <1>3, OrderlyBroadcast
<1>6. Orderly(inner, copyConversationsMap \o Broadcast(order), inner)
  BY <1>4, <1>5, OrderlyThen
<1> QED
  BY <1>1, <1>3, <1>6, OrderlyLocked DEF inner

(* So it does in the handler of a response, which may announce a result. *)
LEMMA OrderlyResponse ==
    ASSUME NEW held \in SUBSET Lock, \A k \in held : 3 < Level(k),
           NEW routine \in handle_response_from_client
    PROVE  Orderly(held, routine, held)
<1> DEFINE outer == held \cup {h_referendums}
           inner == outer \cup {h_referendum}
<1>1. /\ outer \in SUBSET Lock /\ inner \in SUBSET Lock
      /\ h_referendums \in Lock /\ h_referendum \in Lock
      /\ \A k \in held : Level(h_referendums) < Level(k)
      /\ \A k \in outer : Level(h_referendum) < Level(k)
      /\ \A k \in inner : 0 < Level(k)
  BY Levels
<1> HIDE DEF inner
<1>2. CASE routine = Locked(h_referendums, <<>>)
  BY <1>1, <1>2, OrderlyTouch
<1>3. ASSUME NEW order \in Orders,
             routine = Locked(h_referendums, Locked(h_referendum, Broadcast(order)))
      PROVE  Orderly(held, routine, held)
  <2>1. order \in Seq(Conversations)
    BY OrdersType
  <2>2. Orderly(inner, Broadcast(order), inner)
    BY <1>1, <2>1, OrderlyBroadcast
  <2>3. Orderly(outer, Locked(h_referendum, Broadcast(order)), outer)
    BY <1>1, <2>2, OrderlyLocked DEF inner
  <2> QED
    BY <1>1, <1>3, <2>3, OrderlyLocked
<1> QED
  BY <1>2, <1>3 DEF handle_response_from_client

(* And in the handlers of a client. *)
LEMMA OrderlyFromServer ==
    ASSUME NEW held \in SUBSET Lock, \A k \in held : 3 < Level(k),
           NEW c \in Conversations,
           NEW routine \in handle_new_question_from_server(c)
                           \cup handle_result_from_server
    PROVE  Orderly(held, routine, held)
<1> DEFINE outer == held \cup {c_referendums}
           inner == outer \cup {c_referendum}
<1>1. /\ outer \in SUBSET Lock /\ inner \in SUBSET Lock
      /\ c_referendums \in Lock /\ c_referendum \in Lock
      /\ \A k \in held : Level(c_referendums) < Level(k)
      /\ \A k \in outer : Level(c_referendum) < Level(k)
      /\ \A k \in inner : 0 < Level(k)
  BY Levels
<1> HIDE DEF inner
<1>2. Orderly(held, Locked(c_referendums, <<>>), held)
  BY <1>1, OrderlyTouch
<1>3. Orderly(held, Locked(c_referendums, Locked(c_referendum, SendTo(c))), held)
  <2>1. Orderly(inner, SendTo(c), inner)
    BY <1>1, OrderlySend
  <2>2. Orderly(outer, Locked(c_referendum, SendTo(c)), outer)
    BY <1>1, <2>1, OrderlyLocked DEF inner
  <2> QED
    BY <1>1, <2>2, OrderlyLocked
<1>4. Orderly(held, Locked(c_referendums, Locked(c_referendum, <<>>)), held)
  <2>1. Orderly(outer, Locked(c_referendum, <<>>), outer)
    BY <1>1, OrderlyTouch
  <2> QED
    BY <1>1, <2>1, OrderlyLocked
<1> QED
  BY <1>2, <1>3, <1>4 DEF handle_new_question_from_server, handle_result_from_server

(* A round of a looper. *)
LEMMA OrderlyLooper ==
    ASSUME NEW c \in Conversations, NEW routine \in looper(c)
    PROVE  Orderly({}, routine, {})
<1> DEFINE inner == {} \cup {incoming(c)}
<1>1. /\ {} \in SUBSET Lock /\ inner \in SUBSET Lock
      /\ incoming(c) \in Lock
      /\ \A k \in inner : 3 < Level(k) /\ 0 < Level(k)
  BY Levels
<1>2. PICK processed \in incomingProcessor(c) :
          routine = processed \o sendWindowPackets(c) \o checkForRetransmissions(c)
  BY DEF looper
<1> HIDE DEF inner
<1>3. PICK handler \in {<<>>, SendTo(c)}
                       \cup create_referendum_from_client_request
                       \cup handle_response_from_client
                       \cup handle_new_question_from_server(c)
                       \cup handle_result_from_server :
          processed = Locked(incoming(c), handler)
  BY <1>2 DEF incomingProcessor
<1>4. Orderly(inner, handler, inner)
  <2>1. CASE handler \in {<<>>, SendTo(c)}
    BY <1>1, <2>1, OrderlyNothing, OrderlySend
  <2>2. CASE handler \in create_referendum_from_client_request
    BY <1>1, <2>2, OrderlyCreate
  <2>3. CASE handler \in handle_response_from_client
    BY <1>1, <2>3, OrderlyResponse
  <2>4. CASE handler \in handle_new_question_from_server(c)
                         \cup handle_result_from_server
    BY <1>1, <2>4, OrderlyFromServer
  <2> QED
    BY <1>3, <2>1, <2>2, <2>3, <2>4
<1>5. Orderly({}, processed, {})
  BY <1>1, <1>3, <1>4, OrderlyLocked DEF inner
<1>6. Orderly({}, SendTo(c), {})
  BY <1>1, OrderlySend
<1>7. sendWindowPackets(c) = SendTo(c) /\ checkForRetransmissions(c) = SendTo(c)
  BY DEF sendWindowPackets, checkForRetransmissions, SendTo
<1>8. Orderly({}, processed \o sendWindowPackets(c), {})
  BY <1>5, <1>6, <1>7, OrderlyThen
<1> QED
  BY <1>2, <1>6, <1>7, <1>8, OrderlyThen

(* A datagram holds no conversations_lock when ARQ_Receive starts. *)
LEMMA OrderlyDatagram ==
    ASSUME NEW c \in Conversations, NEW routine \in handleIncomingPackets(c)
    PROVE  Orderly({}, routine, {})
<1> DEFINE inner == {} \cup {conversations_lock}
<1>1. /\ {} \in SUBSET Lock /\ inner \in SUBSET Lock
      /\ generatedConvIDs \in Lock /\ conversations_lock \in Lock
      /\ incoming(c) \in Lock /\ outgoing(c) \in Lock
  BY Levels
<1>2. Add(c) \in Steps /\ Does(inner, Add(c), inner)
  BY DEF Steps, Does
<1> HIDE DEF inner
<1>3. Orderly(inner, <<Add(c)>>, inner)
  BY <1>1, <1>2, OrderlyStep
<1>4. Orderly({}, Locked(conversations_lock, <<Add(c)>>), {})
  BY <1>1, <1>3, OrderlyLocked DEF inner
<1>5. \A received \in ARQ_Receive(c) : Orderly({}, received, {})
  BY <1>1, OrderlyNothing, OrderlyTouch DEF ARQ_Receive
<1>6. CASE routine = Locked(generatedConvIDs, <<>>)
  BY <1>1, <1>6, OrderlyTouch
<1>7. ASSUME NEW received \in ARQ_Receive(c),
             routine = Locked(conversations_lock, <<Add(c)>>) \o received
      PROVE  Orderly({}, routine, {})
  BY <1>4, <1>5, <1>7, OrderlyThen
<1> QED
  BY <1>6, <1>7 DEF handleIncomingPackets

(* Every routine takes its locks in descending order, touches the map      *)
(* under conversations_lock, and leaves no lock held.                      *)
LEMMA OrderlyRoutines ==
    ASSUME NEW g \in Goroutines, NEW routine \in Routines(g)
    PROVE  Orderly({}, routine, {})
  BY OrderlyLooper, OrderlyDatagram DEF Routines

-----------------------------------------------------------------------------
(* The invariant.                                                          *)

(* What a step needs and does, by its kind. *)
LEMMA DoesWhat ==
    ASSUME NEW held, NEW step, NEW mid, Does(held, step, mid)
    PROVE  /\ step.does = "lock" =>
                 /\ step.lock \in Lock
                 /\ \A k \in held : Level(step.lock) < Level(k)
                 /\ mid = held \cup {step.lock}
           /\ step.does = "unlock" => step.lock \in held /\ mid = held \ {step.lock}
           /\ step.does \in {"range", "add"} => conversations_lock \in held /\ mid = held
           /\ step.does = "add" => step.conversation \in Conversations
<1>1. ASSUME NEW l, step = Lock_(l)
      PROVE  step.does = "lock" /\ step.lock = l
  BY <1>1 DEF Lock_
<1>2. ASSUME NEW l, step = Unlock(l)
      PROVE  step.does = "unlock" /\ step.lock = l
  BY <1>2 DEF Unlock
<1>3. step = Range_ => step.does = "range"
  BY DEF Range_
<1>4. ASSUME NEW c, step = Add(c)
      PROVE  step.does = "add" /\ step.conversation = c
  BY <1>4 DEF Add
<1>5. CASE \E l \in Lock : /\ step = Lock_(l)
                           /\ \A k \in held : Level(l) < Level(k)
                           /\ mid = held \cup {l}
  BY <1>1, <1>5
<1>6. CASE \E l \in held : step = Unlock(l) /\ mid = held \ {l}
  BY <1>2, <1>6
<1>7. CASE /\ step = Range_ \/ \E c \in Conversations : step = Add(c)
           /\ conversations_lock \in held
           /\ mid = held
  BY <1>3, <1>4, <1>7
<1> QED
  BY <1>5, <1>6, <1>7 DEF Does

(* What a goroutine may do next, by the step that it is in front of. *)
LEMMA OrderlyAt ==
    ASSUME NEW held, NEW s, Orderly(held, s, {}), s # <<>>
    PROVE  /\ Head(s).does = "lock" =>
                 /\ Head(s).lock \in Lock
                 /\ \A k \in held : Level(Head(s).lock) < Level(k)
                 /\ Orderly(held \cup {Head(s).lock}, Tail(s), {})
           /\ Head(s).does = "unlock" =>
                 /\ Head(s).lock \in held
                 /\ Orderly(held \ {Head(s).lock}, Tail(s), {})
           /\ Head(s).does \in {"range", "add"} =>
                 /\ conversations_lock \in held
                 /\ Orderly(held, Tail(s), {})
           /\ Head(s).does = "add" => Head(s).conversation \in Conversations
<1>1. PICK mid \in SUBSET Lock : Does(held, Head(s), mid) /\ Orderly(mid, Tail(s), {})
  BY OrderlyRest
<1> DEFINE step == Head(s)
           rest == Tail(s)
<1>2. Does(held, step, mid) /\ Orderly(mid, rest, {})
  BY <1>1
<1> HIDE DEF step, rest
<1>3. /\ step.does = "lock" =>
            /\ step.lock \in Lock
            /\ \A k \in held : Level(step.lock) < Level(k)
            /\ mid = held \cup {step.lock}
      /\ step.does = "unlock" => step.lock \in held /\ mid = held \ {step.lock}
      /\ step.does \in {"range", "add"} => conversations_lock \in held /\ mid = held
      /\ step.does = "add" => step.conversation \in Conversations
  BY <1>2, DoesWhat
<1>4. /\ step.does = "lock" => Orderly(held \cup {step.lock}, rest, {})
      /\ step.does = "unlock" => Orderly(held \ {step.lock}, rest, {})
      /\ step.does \in {"range", "add"} => Orderly(held, rest, {})
  BY <1>2, <1>3
<1> QED
  BY <1>3, <1>4 DEF step, rest

(* Who has nothing left to do holds nothing. *)
LEMMA OrderlyDone ==
    ASSUME NEW held, Orderly(held, <<>>, {})
    PROVE  held = {}
<1>1. Len(<<>>) + 1 = 1
  OBVIOUS
<1> QED
  BY <1>1 DEF Orderly

Holding(g) == {l \in Lock : owner[l] = g}

(* Every goroutine holds what the steps that it has left give back, and    *)
(* they keep the order.                                                    *)
OrderlyGoroutines ==
    \A g \in Goroutines : Orderly(Holding(g), todo[g], {})

LocksInv ==
    /\ owner \in [Lock -> Goroutines \cup {None}]
    /\ todo = [g \in Goroutines |-> todo[g]]
    /\ conversations \subseteq Conversations
    /\ OrderlyGoroutines

(* A looper starts with a hello, and nobody holds a lock. *)
LEMMA LocksInvInit == Init => LocksInv
<1> SUFFICES ASSUME Init PROVE LocksInv
  OBVIOUS
<1>1. \A g \in Goroutines : Holding(g) = {}
  BY NoneAssumption DEF Init, Holding
<1>2. \A g \in Goroutines : Orderly({}, todo[g], {})
  BY OrderlySend, OrderlyNothing DEF Init
<1>3. OrderlyGoroutines
  BY <1>1, <1>2 DEF OrderlyGoroutines
<1> QED
  BY <1>3 DEF Init, LocksInv

(* A step of g moves g on, and changes what g holds, and no other.  Who    *)
(* starts holds nothing.                                                   *)
LEMMA LocksInvStart ==
    ASSUME LocksInv, NEW g \in Goroutines, Start(g)
    PROVE  LocksInv'
<1>1. PICK routine \in Routines(g) : todo' = [todo EXCEPT ![g] = routine]
  BY DEF Start
<1>2. Orderly({}, routine, {})
  BY OrderlyRoutines
<1>3. \A h \in Goroutines : Holding(h)' = Holding(h)
  BY DEF Start, Holding
<1>4. Holding(g) = {}
  BY OrderlyDone DEF LocksInv, OrderlyGoroutines, Start, Idle
<1>5. OrderlyGoroutines'
  BY <1>1, <1>2, <1>3, <1>4 DEF LocksInv, OrderlyGoroutines
<1>6. todo' = [h \in Goroutines |-> todo'[h]]
  BY <1>1 DEF LocksInv
<1> QED
  BY <1>5, <1>6 DEF LocksInv, Start

(* The lock that g gets was nobody's. *)
LEMMA LocksInvAcquire ==
    ASSUME LocksInv, NEW g \in Goroutines, Acquire(g)
    PROVE  LocksInv'
<1> DEFINE l == Head(todo[g]).lock
<1>1. /\ l \in Lock
      /\ Orderly(Holding(g) \cup {l}, Tail(todo[g]), {})
  BY OrderlyAt DEF LocksInv, OrderlyGoroutines, Acquire, At, Idle
<1>2. owner[l] = None /\ owner' = [owner EXCEPT ![l] = g]
  BY DEF Acquire
<1>3. todo' = [todo EXCEPT ![g] = Tail(todo[g])]
  BY DEF Acquire, Advance, LocksInv
<1> HIDE DEF l
<1>4. Holding(g)' = Holding(g) \cup {l}
  BY <1>1, <1>2 DEF LocksInv, Holding
<1>5. \A h \in Goroutines : h # g => Holding(h)' = Holding(h)
  BY <1>1, <1>2, NoneAssumption DEF LocksInv, Holding
<1>6. OrderlyGoroutines'
  BY <1>1, <1>3, <1>4, <1>5 DEF LocksInv, OrderlyGoroutines
<1>7. owner' \in [Lock -> Goroutines \cup {None}]
  BY <1>1, <1>2 DEF LocksInv
<1>8. todo' = [h \in Goroutines |-> todo'[h]]
  BY <1>3 DEF LocksInv
<1> QED
  BY <1>6, <1>7, <1>8 DEF LocksInv, Acquire

(* The lock that g releases was its own. *)
LEMMA LocksInvRelease ==
    ASSUME LocksInv, NEW g \in Goroutines, Release(g)
    PROVE  LocksInv'
<1> DEFINE l == Head(todo[g]).lock
<1>1. /\ l \in Holding(g)
      /\ Orderly(Holding(g) \ {l}, Tail(todo[g]), {})
  BY OrderlyAt DEF LocksInv, OrderlyGoroutines, Release, At, Idle
<1>2. owner' = [owner EXCEPT ![l] = None]
  BY DEF Release
<1>3. todo' = [todo EXCEPT ![g] = Tail(todo[g])]
  BY DEF Release, Advance, LocksInv
<1> HIDE DEF l
<1>4. Holding(g)' = Holding(g) \ {l}
  BY <1>1, <1>2, NoneAssumption DEF LocksInv, Holding
<1>5. \A h \in Goroutines : h # g => Holding(h)' = Holding(h)
  BY <1>1, <1>2, NoneAssumption DEF LocksInv, Holding
<1>6. OrderlyGoroutines'
  BY <1>1, <1>3, <1>4, <1>5 DEF LocksInv, OrderlyGoroutines
<1>7. owner' \in [Lock -> Goroutines \cup {None}]
  BY <1>1, <1>2 DEF LocksInv
<1>8. todo' = [h \in Goroutines |-> todo'[h]]
  BY <1>3 DEF LocksInv
<1> QED
  BY <1>6, <1>7, <1>8 DEF LocksInv, Release

(* An access to the map leaves the locks alone. *)
LEMMA LocksInvAccess ==
    ASSUME LocksInv, NEW g \in Goroutines, Access(g)
    PROVE  LocksInv'
<1>1. Orderly(Holding(g), Tail(todo[g]), {})
  BY OrderlyAt DEF LocksInv, OrderlyGoroutines, Access, At, Idle
<1>2. todo' = [todo EXCEPT ![g] = Tail(todo[g])] /\ owner' = owner
  BY DEF Access, Advance, LocksInv
<1>3. \A h \in Goroutines : Holding(h)' = Holding(h)
  BY <1>2 DEF Holding
<1>4. OrderlyGoroutines'
  BY <1>1, <1>2, <1>3 DEF LocksInv, OrderlyGoroutines
<1>5. conversations' \subseteq Conversations
  BY OrderlyAt DEF LocksInv, OrderlyGoroutines, Access, At, Idle
<1>6. todo' = [h \in Goroutines |-> todo'[h]]
  BY <1>2 DEF LocksInv
<1> QED
  BY <1>2, <1>4, <1>5, <1>6 DEF LocksInv

(* No other step is there. *)
LEMMA LocksInvNext == LocksInv /\ [Next]_vars => LocksInv'
<1> SUFFICES ASSUME LocksInv, [Next]_vars PROVE LocksInv'
  OBVIOUS
<1>1. CASE UNCHANGED vars
  BY <1>1 DEF vars, LocksInv, OrderlyGoroutines, Holding
<1>2. CASE Next
  BY <1>2, LocksInvStart, LocksInvAcquire, LocksInvRelease, LocksInvAccess DEF Next
<1> QED
  BY <1>1, <1>2

(* So the invariant holds in every state. *)
LEMMA LocksInvCorrect == Spec => []LocksInv
  BY LocksInvInit, LocksInvNext, PTL DEF Spec

-----------------------------------------------------------------------------
(* Theorems.                                                               *)

(* The type invariant; and a goroutine that has nothing left to do has     *)
(* given back every lock: none of the handlers, nor the looper             *)
(* (conversation.go:713), returns with a mutex.                            *)
THEOREM TypeCorrect == Spec => []TypeOK
<1>1. LocksInv => TypeOK
  BY OrderlyDone DEF LocksInv, OrderlyGoroutines, TypeOK, Idle, Holding
<1> QED
  BY <1>1, LocksInvCorrect, PTL

(* Who is in front of an access to the map holds conversations_lock. *)
THEOREM MapAlwaysGuarded == Spec => []MapGuarded
<1>1. LocksInv => MapGuarded
  <2> SUFFICES ASSUME LocksInv, NEW g \in Goroutines, NEW h \in Goroutines,
                      g # h, Writes(g), Reads(h)
               PROVE  FALSE
    BY DEF MapGuarded
  <2>1. conversations_lock \in Holding(g)
    BY OrderlyAt DEF LocksInv, OrderlyGoroutines, Writes, At, Idle
  <2>2. conversations_lock \in Holding(h)
    BY OrderlyAt DEF LocksInv, OrderlyGoroutines, Reads, At, Idle
  <2> QED
    BY <2>1, <2>2 DEF Holding
<1> QED
  BY <1>1, LocksInvCorrect, PTL


-----------------------------------------------------------------------------
(* The refinement of LockOrder, and what it brings with it.                *)

(* LockOrder has the goroutines, the locks and the levels of NodeLocks. *)
LEMMA SameLocks ==
    /\ Order!Goroutines = Goroutines
    /\ Order!Lock = Lock
    /\ \A l : Order!Level(l) = Level(l)
<1>1. Order!Goroutines = Goroutines
  BY DEF Order!Goroutines, Goroutines
<1>2. Order!Lock = Lock
  BY DEF Order!Lock, Order!incoming, Order!outgoing, Order!h_referendums,
         Order!c_referendums, Order!conversations_lock, Order!generatedConvIDs,
         Order!h_referendum, Order!c_referendum,
         Lock, incoming, outgoing, h_referendums, c_referendums,
         conversations_lock, generatedConvIDs, h_referendum, c_referendum
<1>3. \A l : Order!Level(l) = Level(l)
  BY DEF Order!Level, Order!LevelOf, Level, LevelOf
<1> QED
  BY <1>1, <1>2, <1>3

(* A goroutine that wants a lock holds higher ones only. *)
LEMMA WantsMayWant ==
    ASSUME LocksInv, NEW g \in Goroutines
    PROVE  wants[g] \in Order!MayWant(g) \cup {None}
<1>1. CASE At(g, "lock")
  <2>1. /\ wants[g] \in Lock
        /\ \A k \in Holding(g) : Level(wants[g]) < Level(k)
    BY <1>1, OrderlyAt DEF LocksInv, OrderlyGoroutines, wants, At, Idle
  <2> QED
    BY <2>1, SameLocks DEF Order!MayWant, Order!Holds, Holding
<1>2. CASE ~At(g, "lock")
  BY <1>2 DEF wants
<1> QED
  BY <1>1, <1>2

(* No lock is held, and every looper wants its own outgoing_lock. *)
LEMMA LockOrderInit == Init => Order!LockInit
<1> SUFFICES ASSUME Init PROVE Order!LockInit
  OBVIOUS
<1>1. owner = [l \in Order!Lock |-> None]
  BY SameLocks DEF Init
<1>2. LocksInv
  BY LocksInvInit
<1>3. \A g \in Goroutines : wants[g] \in Lock \cup {None}
  BY <1>2, WantsMayWant, SameLocks DEF Order!MayWant
<1>4. wants \in [Goroutines -> Lock \cup {None}]
  BY <1>3 DEF wants
<1> QED
  BY <1>1, <1>4, SameLocks DEF Order!LockInit

(* A step of g in Locks is a step of g in LockOrder, and then g goes on to *)
(* the step that is next in its routine.                                   *)
LEMMA LockOrderStep ==
    LocksInv /\ LocksInv' /\ [Next]_vars => [Order!LockNext]_(Order!lockVars)
<1> SUFFICES ASSUME LocksInv, LocksInv', [Next]_vars
             PROVE  [Order!LockNext]_(Order!lockVars)
  OBVIOUS
<1>1. CASE UNCHANGED vars
  BY <1>1 DEF vars, Order!lockVars, wants, At, Idle
<1>2. CASE Next
  <2>1. PICK g \in Goroutines : Start(g) \/ Acquire(g) \/ Release(g) \/ Access(g)
    BY <1>2 DEF Next
  <2>2. \A h \in Goroutines : h # g => todo'[h] = todo[h]
    BY <2>1 DEF Start, Acquire, Release, Access, Advance, LocksInv
  <2>3. wants' = [wants EXCEPT ![g] = wants'[g]]
    BY <2>2 DEF wants, At, Idle
  <2>4. wants'[g] \in Order!MayWant(g)' \cup {None}
    <3>1. (LocksInv => wants[g] \in Order!MayWant(g) \cup {None})'
      BY WantsMayWant, PTL
    <3> QED
      BY <3>1
  <2>5. Order!GoOn(g)
    BY <2>3, <2>4 DEF Order!GoOn
  <2>6. CASE Acquire(g)
    <3>1. wants[g] = Head(todo[g]).lock /\ Head(todo[g]).lock \in Lock
      BY <2>6, OrderlyAt
         DEF Acquire, wants, At, Idle, LocksInv, OrderlyGoroutines
    <3>2. Order!Acquire(g)
      BY <2>6, <3>1, NoneAssumption DEF Acquire, Order!Acquire
    <3> QED
      BY <2>5, <3>2, SameLocks DEF Order!LockNext
  <2>7. CASE Release(g)
    <3>1. Head(todo[g]).lock \in Holding(g)
      BY <2>7, OrderlyAt DEF Release, At, Idle, LocksInv, OrderlyGoroutines
    <3>2. wants[g] = None
      BY <2>7 DEF Release, wants, At
    <3>3. Order!Release(g, Head(todo[g]).lock) /\ Head(todo[g]).lock \in Lock
      BY <2>7, <3>1, <3>2 DEF Release, Order!Release, Order!Holds, Holding
    <3> QED
      BY <2>5, <3>3, SameLocks DEF Order!LockNext
  <2>8. CASE Start(g) \/ Access(g)
    <3>1. wants[g] = None /\ UNCHANGED owner
      BY <2>8 DEF Start, Access, wants, At
    <3> QED
      BY <2>5, <3>1, SameLocks DEF Order!LockNext, Order!Work
  <2> QED
    BY <2>1, <2>6, <2>7, <2>8
<1> QED
  BY <1>1, <1>2

(* Every goroutine takes the locks in the order of NodeLocks: the handlers *)
(* of a looper (conversation.go:713), and those of a datagram.             *)
THEOREM LockOrderKept == Spec => KeepsLockOrder
<1>1. Spec => Order!LockSpec
  BY LocksInvCorrect, LockOrderInit, LockOrderStep, PTL DEF Spec, Order!LockSpec
<1> QED
  BY <1>1 DEF KeepsLockOrder

-----------------------------------------------------------------------------

(* What LockOrderProofs proves of LockOrder holds of Locks. *)
Proved == INSTANCE LockOrderProofs

(* It is the same LockOrder. *)
LEMMA ProvedIsOrder ==
    /\ Proved!NoneAssumption
    /\ Order!LockInit => Proved!LockInit
    /\ Order!LockNext => Proved!LockNext
    /\ Proved!NoCircularWait => NoCircularWait
<1>1. Proved!Goroutines = Goroutines
  BY DEF Proved!Goroutines, Goroutines
<1>2. Proved!Lock = Lock
  BY DEF Proved!Lock, Proved!incoming, Proved!outgoing, Proved!h_referendums,
         Proved!c_referendums, Proved!conversations_lock, Proved!generatedConvIDs,
         Proved!h_referendum, Proved!c_referendum,
         Lock, incoming, outgoing, h_referendums, c_referendums,
         conversations_lock, generatedConvIDs, h_referendum, c_referendum
<1>3. \A l : Proved!Level(l) = Level(l)
  BY DEF Proved!Level, Proved!LevelOf, Level, LevelOf
<1>4. Proved!NoneAssumption
  BY <1>1, <1>2, NoneAssumption DEF Proved!NoneAssumption
<1>5. Order!LockInit => Proved!LockInit
  BY <1>1, <1>2, SameLocks DEF Order!LockInit, Proved!LockInit
<1>6. \A g : Order!MayWant(g)' = Proved!MayWant(g)'
  BY <1>2, <1>3, SameLocks
     DEF Order!MayWant, Proved!MayWant, Order!Holds, Proved!Holds,
         Proved!Level, Proved!LevelOf, Order!Level, Order!LevelOf
<1>7. Order!LockNext => Proved!LockNext
  BY <1>1, <1>2, <1>6, SameLocks
     DEF Order!LockNext, Proved!LockNext, Order!Acquire, Proved!Acquire,
         Order!Release, Proved!Release, Order!Holds, Proved!Holds,
         Order!Work, Proved!Work, Order!GoOn, Proved!GoOn
<1>8. Proved!NoCircularWait => NoCircularWait
  BY <1>1, SameLocks
     DEF NoCircularWait, Order!NoCircularWait, Proved!NoCircularWait,
         Order!CircularWait, Proved!CircularWait
<1> QED
  BY <1>4, <1>5, <1>7, <1>8

(* Loopers and datagrams never wait for each other in a circle: a looper   *)
(* in a handler holds up to three mutexes and wants everybody's            *)
(* outgoing_lock (conversation.go:713), but none waits for a higher one.   *)
THEOREM NoDeadlock == Spec => []NoCircularWait
<1>1. Order!LockNext => Proved!LockNext
  BY ProvedIsOrder
<1>2. [Order!LockNext]_(Order!lockVars) => [Proved!LockNext]_(Proved!lockVars)
  BY <1>1 DEF Order!lockVars, Proved!lockVars
<1>3. Order!LockInit => Proved!LockInit
  BY ProvedIsOrder
<1>4. Order!LockSpec => Proved!LockSpec
  BY <1>2, <1>3, PTL DEF Order!LockSpec, Proved!LockSpec
<1>5. Proved!NoneAssumption
  BY ProvedIsOrder
<1>6. Proved!LockSpec => []Proved!NoCircularWait
  BY <1>5, Proved!NoDeadlock, PTL
<1>7. Proved!NoCircularWait => NoCircularWait
  BY ProvedIsOrder
<1> QED
  BY <1>4, <1>6, <1>7, LockOrderKept, PTL DEF KeepsLockOrder

=============================================================================
