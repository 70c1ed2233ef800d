----------------------------- MODULE Referendum -----------------------------
(***************************************************************************)
(* What a referendum promises, with no messages and no counters.  It is    *)
(* opened for an electorate that stays as it is, every member casts at     *)
(* most one ballot, the verdict is called once, as soon as some option has *)
(* more ballots than are still missing, all of the electorate are told it, *)
(* and a client learns one verdict that it was told, for good.             *)
(*                                                                         *)
(* Two things break in on this, where the constants let them: a referendum *)
(* is opened again, from nothing, and all referendums are forgotten.       *)
(*                                                                         *)
(* VoteManager.tla, the model of udp/vote_manager.go, implements it.       *)
(***************************************************************************)
EXTENDS Naturals, FiniteSets

CONSTANTS
    Clients,    \* the clients that may be asked
    VoteIDs,    \* the referendums
    Responses,  \* the possible answers
    Repeats,    \* the referendums that may be opened again
    Restarts,   \* TRUE if all referendums may be forgotten
    None        \* not open, not cast, not called, not learned

VARIABLES
    electorate, \* electorate[v]: who is asked in v, or None while v is not open
    ballots,    \* ballots[v][c]: what c answered in v, or None
    verdict,    \* verdict[v]: the answer that was called, or None
    told,       \* told[v]: who was told which verdict of v, ever
    learned,    \* learned[c][v]: the verdict of v as c knows it, or None
    opened,     \* the referendums that were opened
    reopened    \* those that were opened again

vars == <<electorate, ballots, verdict, told, learned, opened, reopened>>

Init ==
    /\ electorate = [v \in VoteIDs |-> None]
    /\ ballots = [v \in VoteIDs |-> [c \in Clients |-> None]]
    /\ verdict = [v \in VoteIDs |-> None]
    /\ told = [v \in VoteIDs |-> {}]
    /\ learned = [c \in Clients |-> [v \in VoteIDs |-> None]]
    /\ opened = {}
    /\ reopened = {}

Open(v, P) ==
    /\ v \in opened => v \in Repeats
    /\ opened' = opened \cup {v}
    /\ reopened' = reopened \cup ({v} \cap opened)
    /\ electorate' = [electorate EXCEPT ![v] = P]
    /\ ballots' = [ballots EXCEPT ![v] = [c \in Clients |-> None]]
    /\ verdict' = [verdict EXCEPT ![v] = None]
    /\ UNCHANGED <<told, learned>>

(* The options with more ballots in `cast` than members of P are missing. *)
Callable(P, cast) ==
    {r \in Responses : Cardinality({c \in P : cast[c] = r})
                         > Cardinality({c \in P : cast[c] = None})}

(* r is called, and all who were asked are told. *)
Call(v, r) ==
    /\ verdict' = [verdict EXCEPT ![v] = r]
    /\ told' = [told EXCEPT ![v] = @ \cup (electorate[v] \X {r})]

Cast(v, c, r) ==
    /\ electorate[v] # None
    /\ c \in electorate[v]
    /\ ballots[v][c] = None
    /\ verdict[v] = None
    /\ ballots' = [ballots EXCEPT ![v][c] = r]
    /\ LET called == Callable(electorate[v], ballots'[v])
       IN  \/ called = {} /\ UNCHANGED <<verdict, told>>
           \/ \E w \in called : Call(v, w)
    /\ UNCHANGED <<electorate, learned, opened, reopened>>

Learn(c, v, r) ==
    /\ <<c, r>> \in told[v]
    /\ learned[c][v] = None
    /\ learned' = [learned EXCEPT ![c][v] = r]
    /\ UNCHANGED <<electorate, ballots, verdict, told, opened, reopened>>

Forget ==
    /\ Restarts
    /\ electorate' = [v \in VoteIDs |-> None]
    /\ ballots' = [v \in VoteIDs |-> [c \in Clients |-> None]]
    /\ verdict' = [v \in VoteIDs |-> None]
    /\ UNCHANGED <<told, learned, opened, reopened>>

Next ==
    \/ \E v \in VoteIDs :
          \/ \E P \in SUBSET Clients : Open(v, P)
          \/ \E c \in Clients, r \in Responses : Cast(v, c, r) \/ Learn(c, v, r)
    \/ Forget

Spec == Init /\ [][Next]_vars

-----------------------------------------------------------------------------
(* Clients know the same verdict of a referendum that was opened once.     *)
Agreement ==
    \A v \in VoteIDs \ reopened, c, d \in Clients :
        learned[c][v] # None /\ learned[d][v] # None => learned[c][v] = learned[d][v]
=============================================================================
