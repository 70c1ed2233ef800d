--------------------------- MODULE LockOrderProofs ---------------------------
(***************************************************************************)
(* Goroutines that keep the order of NodeLocks never wait in a circle,     *)
(* however many conversations and datagrams there are.                     *)
(***************************************************************************)
EXTENDS LockOrder, TLAPS

(* Levels are numbers up to 4. *)
LEMMA LevelType == \A l \in Lock : Level(l) \in 0..4
  BY DEF Lock, Level, LevelOf, incoming, outgoing, h_referendums, c_referendums,
         conversations_lock, generatedConvIDs, h_referendum, c_referendum

(* What a goroutine may go on to want is a lock. *)
LEMMA MayWantType == \A g : MayWant(g) \subseteq Lock
  BY DEF MayWant

(* Locks are held by goroutines and wanted by them, and nothing else. *)
THEOREM LockTypeCorrect == LockSpec => []LockTypeOK
<1>1. LockInit => LockTypeOK
  BY DEF LockInit, LockTypeOK
<1>2. LockTypeOK /\ [LockNext]_lockVars => LockTypeOK'
  <2> SUFFICES ASSUME LockTypeOK, [LockNext]_lockVars PROVE LockTypeOK'
    OBVIOUS
  <2>1. CASE UNCHANGED lockVars
    BY <2>1 DEF LockTypeOK, lockVars
  <2>2. CASE LockNext
    <3>1. PICK g \in Goroutines :
             /\ Acquire(g) \/ Work(g) \/ \E l \in Lock : Release(g, l)
             /\ GoOn(g)
      BY <2>2 DEF LockNext
    <3>2. owner' \in [Lock -> Goroutines \cup {None}]
      BY <3>1 DEF LockTypeOK, Acquire, Work, Release
    <3>3. wants' \in [Goroutines -> Lock \cup {None}]
      BY <3>1 DEF LockTypeOK, GoOn, MayWant
    <3> QED
      BY <3>2, <3>3 DEF LockTypeOK
  <2> QED
    BY <2>1, <2>2
<1> QED
  BY <1>1, <1>2, PTL DEF LockSpec

-----------------------------------------------------------------------------

(* Nobody holds a lock yet. *)
LEMMA DescendingInit == LockInit => Descending
  BY NoneAssumption DEF LockInit, Descending, Holds

(* In a step of g the others' locks and wishes stay, and g wants a lock    *)
(* below those that it then holds.                                         *)
LEMMA DescendingStep ==
  LockTypeOK /\ Descending /\ [LockNext]_lockVars => Descending'
<1> SUFFICES ASSUME LockTypeOK, Descending, [LockNext]_lockVars,
                    NEW h \in Goroutines, NEW k \in Lock,
                    wants'[h] # None, Holds(h, k)'
             PROVE  Level(wants'[h]) < Level(k)
  BY DEF Descending, Level
<1>1. CASE UNCHANGED lockVars
  BY <1>1 DEF Descending, lockVars, Holds
<1>2. CASE LockNext
  <2>1. PICK g \in Goroutines :
           /\ Acquire(g) \/ Work(g) \/ \E l \in Lock : Release(g, l)
           /\ GoOn(g)
    BY <1>2 DEF LockNext
  <2>2. CASE h = g
    <3>1. wants'[g] \in MayWant(g)'
      BY <2>1, <2>2 DEF GoOn, LockTypeOK
    <3> QED
      BY <2>2, <3>1 DEF MayWant, Level
  <2>3. CASE h # g
    <3>1. wants'[h] = wants[h]
      BY <2>1, <2>3 DEF GoOn, LockTypeOK
    <3>2. Holds(h, k)
      BY <2>1, <2>3, NoneAssumption DEF Acquire, Work, Release, Holds, LockTypeOK
    <3> QED
      BY <3>1, <3>2 DEF Descending
  <2> QED
    BY <2>2, <2>3
<1> QED
  BY <1>1, <1>2

(* In a circle everybody waits for someone who waits for a lower lock; as  *)
(* levels do not go below 0, there is nobody in it.                        *)
LEMMA DescendingBreaksCircles == LockTypeOK /\ Descending => NoCircularWait
<1> SUFFICES ASSUME LockTypeOK, Descending,
                    NEW S \in SUBSET Goroutines, CircularWait(S)
             PROVE  S = {}
  BY DEF NoCircularWait
<1> DEFINE Waits(g) == Level(wants[g])
<1>1. \A g \in S : wants[g] \in Lock
  BY DEF CircularWait, LockTypeOK
<1>2. \A g \in S : Waits(g) \in 0..4
  BY <1>1, LevelType
<1>3. \A g \in S : \E h \in S : Waits(h) < Waits(g)
  <2> TAKE g \in S
  <2>1. owner[wants[g]] \in S
    BY DEF CircularWait
  <2> WITNESS owner[wants[g]] \in S
  <2> QED
    BY <1>1, <2>1 DEF CircularWait, Descending, Holds
<1> HIDE DEF Waits
<1>4. \A g \in S : Waits(g) > 0
  BY <1>2, <1>3
<1>5. \A g \in S : Waits(g) > 1
  BY <1>2, <1>3, <1>4
<1>6. \A g \in S : Waits(g) > 2
  BY <1>2, <1>3, <1>5
<1>7. \A g \in S : Waits(g) > 3
  BY <1>2, <1>3, <1>6
<1> QED
  BY <1>2, <1>3, <1>7

(* Goroutines that take their mutexes in descending order never wait for   *)
(* each other in a circle: the loopers in their handlers                   *)
(* (conversation.go:713), and the datagrams.                               *)
THEOREM NoDeadlock == LockSpec => []NoCircularWait
<1>1. LockTypeOK /\ LockTypeOK' /\ Descending /\ [LockNext]_lockVars => Descending'
  BY DescendingStep
<1> QED
  BY <1>1, LockTypeCorrect, DescendingInit, DescendingBreaksCircles, PTL DEF LockSpec
=============================================================================
