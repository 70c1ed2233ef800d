------------------------------ MODULE LockOrder ------------------------------
(***************************************************************************)
(* Goroutines that take mutexes in descending order of their levels, and   *)
(* release them in any order.  What they do meanwhile is left out.         *)
(***************************************************************************)
EXTENDS NodeLocks

VARIABLES
    owner,   \* the goroutine that holds each lock
    wants    \* the lock in whose Lock() each goroutine is

lockVars == <<owner, wants>>

Holds(g, l) == owner[l] = g

Acquire(g) ==
    /\ wants[g] # None
    /\ owner[wants[g]] = None
    /\ owner' = [owner EXCEPT ![wants[g]] = g]

Release(g, l) ==
    /\ wants[g] = None
    /\ Holds(g, l)
    /\ owner' = [owner EXCEPT ![l] = None]

(* Something that takes or releases no lock. *)
Work(g) == wants[g] = None /\ UNCHANGED owner

MayWant(g) == {l \in Lock : \A k \in Lock : Holds(g, k) => Level(l) < Level(k)}

(* g goes on to its next call of Lock(), if that comes at once. *)
GoOn(g) ==
    \E l \in MayWant(g)' \cup {None} : wants' = [wants EXCEPT ![g] = l]

LockInit ==
    /\ owner = [l \in Lock |-> None]
    /\ wants \in [Goroutines -> Lock \cup {None}]

LockNext ==
    \E g \in Goroutines :
       /\ Acquire(g) \/ Work(g) \/ \E l \in Lock : Release(g, l)
       /\ GoOn(g)

LockSpec == LockInit /\ [][LockNext]_lockVars

-----------------------------------------------------------------------------
(* Properties.                                                             *)

LockTypeOK ==
    /\ owner \in [Lock -> Goroutines \cup {None}]
    /\ wants \in [Goroutines -> Lock \cup {None}]

(* What makes it work: a goroutine that waits holds higher locks only. *)
Descending ==
    \A g \in Goroutines, k \in Lock :
        wants[g] # None /\ Holds(g, k) => Level(wants[g]) < Level(k)

(* Every goroutine of S waits for a lock that one of S holds. *)
CircularWait(S) == \A g \in S : wants[g] # None /\ owner[wants[g]] \in S

(* No goroutines wait for each other in a circle, nor one for itself: a    *)
(* looper in a handler (conversation.go:713), the others that broadcast to *)
(* the same conversations, datagrams and the user.                         *)
NoCircularWait == \A S \in (SUBSET Goroutines) \ {{}} : ~CircularWait(S)
=============================================================================
