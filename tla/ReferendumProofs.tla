-------------------------- MODULE ReferendumProofs --------------------------
(***************************************************************************)
(* In a referendum that is opened once everybody learns the same verdict,  *)
(* whatever is forgotten meanwhile.                                        *)
(***************************************************************************)
EXTENDS Referendum, TLAPS

(* The parts that the argument reads. *)
Typed ==
    /\ electorate \in [VoteIDs -> (SUBSET Clients) \cup {None}]
    /\ verdict \in [VoteIDs -> Responses \cup {None}]
    /\ told \in [VoteIDs -> SUBSET (Clients \X Responses)]
    /\ learned \in [Clients -> [VoteIDs -> Responses \cup {None}]]

(* Nobody is told anything before the verdict of the one opening is        *)
(* called, and nothing else afterwards.                                    *)
ToldOnce(v) ==
    /\ v \notin opened => electorate[v] = None
    /\ v \notin opened \/ (electorate[v] # None /\ verdict[v] = None) => told[v] = {}
    /\ \A a, b \in told[v] : a[2] = b[2]

OneVerdict == \A v \in VoteIDs \ reopened : ToldOnce(v)

LearnedIsTold ==
    \A c \in Clients, v \in VoteIDs :
        learned[c][v] # None => <<c, learned[c][v]>> \in told[v]

ReferendumInv == Typed /\ OneVerdict /\ LearnedIsTold

(* A called verdict is the first that the electorate is told. *)
LEMMA CallStep ==
    ASSUME ReferendumInv, None \notin Responses, NEW v \in VoteIDs, NEW r \in Responses,
           electorate[v] # None, verdict[v] = None, Call(v, r),
           UNCHANGED <<electorate, learned, opened, reopened>>
    PROVE  ReferendumInv'
<1>1. electorate[v] \subseteq Clients
  BY DEF ReferendumInv, Typed
<1>2. /\ told'[v] = told[v] \cup (electorate[v] \X {r})
      /\ verdict'[v] = r
      /\ \A w \in VoteIDs \ {v} : told'[w] = told[w] /\ verdict'[w] = verdict[w]
  BY DEF ReferendumInv, Typed, Call
<1>3. Typed'
  BY <1>1 DEF ReferendumInv, Typed, Call
<1>4. ASSUME NEW w \in VoteIDs \ reopened' PROVE ToldOnce(w)'
  <2>1. ToldOnce(w)
    BY DEF ReferendumInv, OneVerdict
  <2>2. CASE w # v
    BY <1>2, <2>1, <2>2 DEF ToldOnce
  <2>3. CASE w = v
    <3>1. v \in opened /\ told[v] = {}
      BY <2>1, <2>3 DEF ToldOnce
    <3>2. \A a, b \in told'[v] : a[2] = b[2]
      BY <1>2, <3>1
    <3> QED
      BY <1>2, <2>3, <3>1, <3>2 DEF ToldOnce
  <2> QED
    BY <2>2, <2>3
<1>5. LearnedIsTold'
  BY <1>2 DEF ReferendumInv, LearnedIsTold
<1> QED
  BY <1>3, <1>4, <1>5 DEF ReferendumInv, OneVerdict

(* A vote that was opened before is now one that was reopened. *)
LEMMA OpenStep ==
    ASSUME ReferendumInv, NEW v \in VoteIDs, NEW P \in SUBSET Clients, Open(v, P)
    PROVE  ReferendumInv'
<1>1. Typed'
  BY DEF ReferendumInv, Typed, Open
<1>2. ASSUME NEW w \in VoteIDs \ reopened' PROVE ToldOnce(w)'
  <2>1. ToldOnce(w) /\ (w = v => w \notin opened)
    BY DEF ReferendumInv, OneVerdict, Open
  <2> QED
    BY <2>1 DEF ReferendumInv, Typed, ToldOnce, Open
<1>3. LearnedIsTold'
  BY DEF ReferendumInv, LearnedIsTold, Open
<1> QED
  BY <1>1, <1>2, <1>3 DEF ReferendumInv, OneVerdict

(* A client learns something that it was told. *)
LEMMA LearnStep ==
    ASSUME ReferendumInv, NEW v \in VoteIDs, NEW c \in Clients, NEW r \in Responses,
           Learn(c, v, r)
    PROVE  ReferendumInv'
<1>1. Typed'
  BY DEF ReferendumInv, Typed, Learn
<1>2. OneVerdict'
  BY DEF ReferendumInv, OneVerdict, ToldOnce, Learn
<1>3. LearnedIsTold'
  BY DEF ReferendumInv, Typed, LearnedIsTold, Learn
<1> QED
  BY <1>1, <1>2, <1>3 DEF ReferendumInv

LEMMA ForgetStep ==
    ASSUME ReferendumInv, Forget
    PROVE  ReferendumInv'
<1>1. Typed'
  BY DEF ReferendumInv, Typed, Forget
<1>2. OneVerdict'
  BY DEF ReferendumInv, OneVerdict, ToldOnce, Forget
<1>3. LearnedIsTold'
  BY DEF ReferendumInv, LearnedIsTold, Forget
<1> QED
  BY <1>1, <1>2, <1>3 DEF ReferendumInv

LEMMA ReferendumInvStep ==
    ASSUME ReferendumInv, None \notin Responses, [Next]_vars
    PROVE  ReferendumInv'
<1>1. ASSUME NEW v \in VoteIDs, NEW c \in Clients, NEW r \in Responses, Cast(v, c, r)
      PROVE  ReferendumInv'
  <2>1. CASE UNCHANGED <<verdict, told>>
    BY <1>1, <2>1 DEF Cast, ReferendumInv, Typed, OneVerdict, ToldOnce, LearnedIsTold
  <2>2. ASSUME NEW w \in Responses, Call(v, w)
        PROVE  ReferendumInv'
    BY <1>1, <2>2, CallStep DEF Cast
  <2> QED
    BY <1>1, <2>1, <2>2 DEF Cast, Callable
<1>2. CASE UNCHANGED vars
  BY <1>2 DEF vars, ReferendumInv, Typed, OneVerdict, ToldOnce, LearnedIsTold
<1> QED
  BY <1>1, <1>2, OpenStep, LearnStep, ForgetStep DEF Next

(* Clients know the same verdict of a referendum that was opened once: the *)
(* host calls it once and says nothing else about it afterwards.           *)
THEOREM OneVerdictLearned ==
    ASSUME None \notin Responses
    PROVE  Spec => []Agreement
<1>1. Init => ReferendumInv
  BY DEF Init, ReferendumInv, Typed, OneVerdict, ToldOnce, LearnedIsTold
<1>2. ReferendumInv /\ [Next]_vars => ReferendumInv'
  BY ReferendumInvStep
<1>3. ReferendumInv => Agreement
  <2> SUFFICES ASSUME ReferendumInv, NEW v \in VoteIDs \ reopened,
                      NEW c \in Clients, NEW d \in Clients,
                      learned[c][v] # None, learned[d][v] # None
               PROVE  learned[c][v] = learned[d][v]
    BY DEF Agreement
  <2>1. <<c, learned[c][v]>> \in told[v] /\ <<d, learned[d][v]>> \in told[v]
    BY DEF ReferendumInv, LearnedIsTold
  <2>2. <<c, learned[c][v]>>[2] = <<d, learned[d][v]>>[2]
    BY <2>1 DEF ReferendumInv, OneVerdict, ToldOnce
  <2> QED
    BY <2>2
<1> QED
  BY <1>1, <1>2, <1>3, PTL DEF Spec

=============================================================================
