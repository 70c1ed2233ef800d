-------------------------- MODULE AgreementProofs ---------------------------
(***************************************************************************)
(* The vote manager implements the abstract referendums of Referendum: for *)
(* any clients and votes, joining and leaving, over a channel that repeats *)
(* every message at will, and through restarts of the server.  What        *)
(* ReferendumProofs proves of those is then true of the vote manager: its  *)
(* clients agree on every vote that was opened once.                       *)
(***************************************************************************)
EXTENDS VoteManagerProofs

-----------------------------------------------------------------------------
(* A vote is requested once.                                               *)

(* Uuids are fresh: no two clients request the same vote. *)
RequestedOnce ==
    \A v \in VoteIDs, c, d \in Clients :
        Request(v, c) \in sent /\ Request(v, d) \in sent => c = d

(* While a request waits for its first delivery its vote was not opened.   *)
OpenedLater ==
    \A v \in VoteIDs, c \in Clients : Request(v, c) \in undelivered => v \notin opened

(* A vote that was opened was requested. *)
OnlyRequested ==
    \A v \in opened : \E c \in Clients : Request(v, c) \in sent

OpeningInv == RequestedOnce /\ OpenedLater /\ OnlyRequested

(* No other message looks like a request, or like a result. *)
LEMMA RequestsDiffer ==
    ASSUME NEW v, NEW c, NEW w, NEW d, NEW r
    PROVE  /\ Request(v, c) # Question(w, d)
           /\ Request(v, c) # Response(w, d, r)
           /\ Request(v, c) # Result(w, d, r)
           /\ Request(v, c) = Request(w, d) => v = w /\ c = d
  BY DEF Request, Question, Response, Result

LEMMA ResultsDiffer ==
    ASSUME NEW v, NEW c, NEW r, NEW w, NEW d, NEW q
    PROVE  /\ Result(v, c, r) # Request(w, d)
           /\ Result(v, c, r) # Question(w, d)
           /\ Result(v, c, r) # Response(w, d, q)
           /\ Result(v, c, r) = Result(w, d, q) => v = w /\ c = d /\ r = q
  BY DEF Request, Question, Response, Result

(* A message is one of the four that the constructors build. *)
LEMMA RequestAndResultForms ==
    ASSUME NEW m \in Messages
    PROVE  /\ m.type = "vote_c2s_request_vote" => m = Request(m.vote, m.client)
           /\ m.type = "vote_s2c_broadcast_result" =>
                  m.response \in Responses /\ m = Result(m.vote, m.client, m.response)
  BY DEF Messages, Request, Result

(* A step that requests and opens nothing. *)
LEMMA OpeningFrame ==
    ASSUME OpeningInv, UNCHANGED opened,
           \A v \in VoteIDs, c \in Clients :
              /\ Request(v, c) \in sent' <=> Request(v, c) \in sent
              /\ Request(v, c) \in undelivered' => Request(v, c) \in undelivered,
           TypeOK
    PROVE  OpeningInv'
  BY DEF OpeningInv, RequestedOnce, OpenedLater, OnlyRequested, TypeOK

(* A request for a vote that nobody asked for yet. *)
LEMMA OpeningRequested ==
    ASSUME TypeOK, OpeningInv, NEW c \in Clients, NEW v \in VoteIDs, RequestVote(c, v)
    PROVE  OpeningInv'
<1>1. /\ \A w \in VoteIDs, d \in Clients :
            Request(w, d) \in sent' <=> Request(w, d) \in sent \/ (w = v /\ d = c)
      /\ \A w \in VoteIDs, d \in Clients :
            Request(w, d) \in undelivered' <=>
                Request(w, d) \in undelivered \/ (w = v /\ d = c)
      /\ UNCHANGED opened
  <2>1. /\ sent' = sent \cup {Request(v, c)}
        /\ undelivered' = undelivered \cup {Request(v, c)}
        /\ UNCHANGED opened
    BY DEF RequestVote, Send, history
  <2>2. \A w \in VoteIDs, d \in Clients : Request(w, d) = Request(v, c) <=> w = v /\ d = c
    BY RequestsDiffer
  <2> QED
    BY <2>1, <2>2
<1>2. (\A d \in Clients : Request(v, d) \notin sent) /\ v \notin opened
  BY DEF RequestVote, OpeningInv, OnlyRequested
<1>3. RequestedOnce'
  BY <1>1, <1>2 DEF OpeningInv, RequestedOnce
<1>4. OpenedLater'
  BY <1>1, <1>2 DEF OpeningInv, OpenedLater
<1>5. OnlyRequested'
  BY <1>1 DEF OpeningInv, OnlyRequested, TypeOK
<1> QED
  BY <1>3, <1>4, <1>5 DEF OpeningInv

(* The request that is handled is the only one for its vote, and does not  *)
(* wait for its first delivery any more.                                   *)
LEMMA OpeningCreated ==
    ASSUME TypeOK, OpeningInv, NEW m \in sent, create_referendum_from_client_request(m)
    PROVE  OpeningInv'
<1> DEFINE v == m.vote
           c == m.client
<1>1. v \in VoteIDs /\ c \in Clients /\ m = Request(v, c)
  BY MessageForms, RequestAndResultForms
  DEF create_referendum_from_client_request, TypeOK
<1>2. /\ \A w \in VoteIDs, d \in Clients :
            Request(w, d) \in sent' <=> Request(w, d) \in sent
      /\ \A w \in VoteIDs, d \in Clients :
            Request(w, d) \in undelivered' =>
                Request(w, d) \in undelivered /\ ~(w = v /\ d = c)
  <2>1. /\ sent' = sent \cup {Question(v, d) : d \in copyConversationsMap}
        /\ undelivered' = (undelivered \ {Request(v, c)})
                              \cup {Question(v, d) : d \in copyConversationsMap}
    BY <1>1 DEF create_referendum_from_client_request, Consume
  <2>2. \A w \in VoteIDs, d \in Clients :
            Request(w, d) \notin {Question(v, e) : e \in copyConversationsMap}
    BY RequestsDiffer
  <2> HIDE DEF v, c
  <2> QED
    BY <2>1, <2>2
<1>3. opened' = opened \cup {v}
  BY DEF create_referendum_from_client_request
<1>4. Request(v, c) \in sent
  BY <1>1
<1> HIDE DEF v, c
<1>5. RequestedOnce'
  BY <1>2 DEF OpeningInv, RequestedOnce
<1>6. OpenedLater'
  <2> SUFFICES ASSUME NEW w \in VoteIDs, NEW d \in Clients, Request(w, d) \in undelivered'
               PROVE  w \notin opened'
    BY DEF OpenedLater
  <2>1. Request(w, d) \in undelivered /\ ~(w = v /\ d = c)
    BY <1>2
  <2>2. w # v
    BY <1>1, <1>4, <2>1 DEF OpeningInv, RequestedOnce, TypeOK
  <2> QED
    BY <1>3, <2>1, <2>2 DEF OpeningInv, OpenedLater
<1>7. OnlyRequested'
  BY <1>1, <1>2, <1>3, <1>4 DEF OpeningInv, OnlyRequested, TypeOK
<1> QED
  BY <1>5, <1>6, <1>7 DEF OpeningInv

(* What is broadcast is the result of a closed referendum.                 *)
LEMMA ResultsOfForms ==
    ASSUME NEW v, NEW h, NEW a \in ResultsOf(v, h)
    PROVE  ~h.ongoing /\ \E c \in h.participants : a = Result(v, c, h.result)
<1>1. CASE h.ongoing
  BY <1>1 DEF ResultsOf
<1>2. CASE ~h.ongoing
  BY <1>2 DEF ResultsOf
<1> QED
  BY <1>1, <1>2

(* Delivering a message and sending no request. *)
LEMMA OpeningAnswered ==
    ASSUME TypeOK, OpeningInv, UNCHANGED opened, NEW m, NEW ms, Consume(m, ms),
           \A v, c : Request(v, c) \notin ms
    PROVE  OpeningInv'
  BY OpeningFrame DEF Consume

(* Every step keeps the three. *)
LEMMA OpeningStep ==
    ASSUME TypeOK, OpeningInv, [Next]_vars
    PROVE  OpeningInv'
<1>1. ASSUME NEW c \in Clients, Presence(c) PROVE OpeningInv'
  BY <1>1, OpeningFrame
  DEF Presence, NewConversation, HelloProcessed, GoOffline, ComeBack, Disconnect, history
<1>2. ASSUME NEW c \in Clients, NEW v \in VoteIDs, RequestVote(c, v) PROVE OpeningInv'
  BY <1>2, OpeningRequested
<1>3. ASSUME NEW m \in sent, create_referendum_from_client_request(m) PROVE OpeningInv'
  BY <1>3, OpeningCreated
<1>4. ASSUME NEW m \in sent, handle_new_question_from_server(m) PROVE OpeningInv'
  <2>1. CASE Consume(m, {})
    BY <1>4, <2>1, OpeningAnswered DEF handle_new_question_from_server, history
  <2>2. ASSUME NEW r, Consume(m, {Response(m.vote, m.client, r)}) PROVE OpeningInv'
    <3>1. \A v, c : Request(v, c) \notin {Response(m.vote, m.client, r)}
      BY RequestsDiffer
    <3> QED
      BY <1>4, <2>2, <3>1, OpeningAnswered DEF handle_new_question_from_server, history
  <2> QED
    BY <1>4, <2>1, <2>2 DEF handle_new_question_from_server
<1>5. ASSUME NEW m \in sent, handle_response_from_client(m) PROVE OpeningInv'
  <2>1. CASE Consume(m, {})
    BY <1>5, <2>1, OpeningAnswered DEF handle_response_from_client, history
  <2>2. ASSUME NEW h, Consume(m, ResultsOf(m.vote, h)) PROVE OpeningInv'
    <3>1. \A v, c : Request(v, c) \notin ResultsOf(m.vote, h)
      BY ResultsOfForms, RequestsDiffer
    <3> QED
      BY <1>5, <2>2, <3>1, OpeningAnswered DEF handle_response_from_client, history
  <2> QED
    BY <1>5, <2>1, <2>2 DEF handle_response_from_client
<1>6. ASSUME NEW m \in sent, handle_result_from_server(m) PROVE OpeningInv'
  BY <1>6, OpeningAnswered DEF handle_result_from_server, history
<1>7. CASE ServerRestarts
  BY <1>7, OpeningFrame DEF ServerRestarts, history
<1>8. CASE UNCHANGED vars
  BY <1>8, OpeningFrame DEF vars, history
<1> QED
  BY <1>1, <1>2, <1>3, <1>4, <1>5, <1>6, <1>7, <1>8 DEF Next, Deliver

(* However a vote was asked for, it was asked for by one client, before it *)
(* was opened (vote_manager.go:117).                                       *)
THEOREM OpeningCorrect == Spec => []OpeningInv
<1>1. Init => OpeningInv
  BY DEF Init, OpeningInv, RequestedOnce, OpenedLater, OnlyRequested
<1>2. TypeOK /\ OpeningInv /\ [Next]_vars => OpeningInv'
  BY OpeningStep
<1> QED
  BY <1>1, <1>2, TypeCorrect, PTL DEF Spec

(* A vote is opened for the first time, or its request may be repeated.    *)
LEMMA OpenedAgain ==
    ASSUME OpeningInv, NEW v \in VoteIDs, NEW c \in Clients, Request(v, c) \in Deliverable
    PROVE  v \in opened => v \in Repeats
<1>1. Request(v, c).type = "vote_c2s_request_vote" /\ Request(v, c).vote = v
  BY DEF Request
<1> QED
  BY <1>1 DEF Deliverable, OpeningInv, OpenedLater

(* No step takes a message back from `sent`. *)
LEMMA SentGrows ==
    ASSUME [Next]_vars
    PROVE  sent \subseteq sent'
  BY DEF Next, vars, Presence, NewConversation, HelloProcessed, GoOffline, ComeBack,
         Disconnect, ServerRestarts, RequestVote, Send, Deliver, Consume,
         create_referendum_from_client_request, handle_new_question_from_server,
         handle_response_from_client, handle_result_from_server

(* A new referendum is hosted. *)
LEMMA NewIsHosted ==
    ASSUME NEW participants \in SUBSET Clients
    PROVE  newHostReferendum(participants) # NoReferendum
<1>1. newHostReferendum(participants) \in HostReferendum
  BY DEF newHostReferendum, HostReferendum, Responses, SYNTAX_ERROR
<1> QED
  BY <1>1, NoReferendumAssumption

-----------------------------------------------------------------------------
(* The refinement mapping.                                                 *)

(* A client is counted in v, here and in BallotOf. *)
Counted(v, c) == Hosted(v) /\ c \in h_referendums[v].who

(* A client's only answer is the one that CHOOSE finds. *)
LEMMA OnlyAnswer ==
    ASSUME NEW S, NEW v, NEW c, NEW r \in Responses, Response(v, c, r) \in S,
           \A s \in Responses : Response(v, c, s) \in S => s = r
    PROVE  (CHOOSE s \in Responses : Response(v, c, s) \in S) = r
  OBVIOUS

(* The ballot of a counted client is what it answered, which is no         *)
(* NoReferendum; nobody else has a ballot.                                 *)
BallotsAreAnswers ==
    \A v \in VoteIDs, c \in Clients :
        /\ ~Counted(v, c) => BallotOf(v, c) = NoReferendum
        /\ Counted(v, c) =>
              /\ BallotOf(v, c) \in Responses
              /\ BallotOf(v, c) # NoReferendum
              /\ \A r \in Responses : Response(v, c, r) \in sent <=> BallotOf(v, c) = r

LEMMA BallotValue == TypeOK /\ TallyInv => BallotsAreAnswers
<1> SUFFICES ASSUME TypeOK, TallyInv, NEW v \in VoteIDs, NEW c \in Clients, Counted(v, c)
             PROVE  /\ BallotOf(v, c) \in Responses
                    /\ BallotOf(v, c) # NoReferendum
                    /\ \A r \in Responses : Response(v, c, r) \in sent <=> BallotOf(v, c) = r
  BY DEF BallotsAreAnswers, BallotOf, Counted
<1>1. PICK r \in Responses : Response(v, c, r) \in sent
  BY DEF TallyInv, TallyMatchesBallots, Tally, BallotsFor, Counted
<1>2. \A s \in Responses : Response(v, c, s) \in sent => s = r
  BY <1>1 DEF TallyInv, AnsweredOnce
<1>3. BallotOf(v, c) = r
  BY <1>1, <1>2, OnlyAnswer DEF BallotOf, Counted
<1> QED
  BY <1>1, <1>2, <1>3, NoReferendumAssumption

LEMMA BallotValueNext == TypeOK' /\ TallyInv' => BallotsAreAnswers'
  BY BallotValue, PTL

(* A ballot stays as it is while its client stays counted, or uncounted.   *)
LEMMA BallotStays ==
    ASSUME BallotsAreAnswers, BallotsAreAnswers', sent \subseteq sent',
           NEW v \in VoteIDs, NEW c \in Clients, Counted(v, c)' <=> Counted(v, c)
    PROVE  BallotOf(v, c)' = BallotOf(v, c)
  BY DEF BallotsAreAnswers

(* The members of a referendum that were counted for q, and those missing. *)
LEMMA BallotSets ==
    ASSUME TypeOK, TallyInv, NEW v \in VoteIDs, Hosted(v)
    PROVE  LET P == h_referendums[v].participants
           IN  /\ \A q \in Responses : {c \in P : BallotOf(v, c) = q} = BallotsFor(v, q)
               /\ {c \in P : BallotOf(v, c) = NoReferendum} = P \ h_referendums[v].who
<1> DEFINE P == h_referendums[v].participants
<1>1. P \subseteq Clients /\ h_referendums[v].who \subseteq P
  BY DEF TypeOK, Hosted, HostReferendum, TallyInv, TallyMatchesBallots, Tally
<1>2. BallotsAreAnswers
  BY BallotValue
<1>3. \A q \in Responses : {c \in P : BallotOf(v, c) = q} = BallotsFor(v, q)
  BY <1>1, <1>2, NoReferendumAssumption DEF BallotsAreAnswers, BallotsFor, Counted
<1>4. {c \in P : BallotOf(v, c) = NoReferendum} = P \ h_referendums[v].who
  BY <1>1, <1>2 DEF BallotsAreAnswers, Counted
<1> QED
  BY <1>3, <1>4

(* The counters are the sizes of these sets. *)
BallotsMatchCounters ==
    \A v \in VoteIDs : Hosted(v) =>
        LET h == h_referendums[v]
        IN  /\ \A q \in Responses :
                  Cardinality({c \in h.participants : BallotOf(v, c) = q}) = h.votes[q]
            /\ Cardinality({c \in h.participants : BallotOf(v, c) = NoReferendum})
                  = missingVotes(h)

LEMMA BallotCounts == TypeOK /\ TallyInv => BallotsMatchCounters
<1> SUFFICES ASSUME TypeOK, TallyInv, NEW v \in VoteIDs, Hosted(v)
             PROVE  LET h == h_referendums[v]
                    IN  /\ \A q \in Responses :
                              Cardinality({c \in h.participants : BallotOf(v, c) = q}) = h.votes[q]
                        /\ Cardinality({c \in h.participants : BallotOf(v, c) = NoReferendum})
                              = missingVotes(h)
  BY DEF BallotsMatchCounters
<1>1. h_referendums[v] \in HostReferendum /\ Tally(v)
  BY DEF TypeOK, Hosted, TallyInv, TallyMatchesBallots
<1>2. missingVotes(h_referendums[v]) = Missing(v)
  BY <1>1, MissingVotes DEF Tally
<1> QED
  BY <1>1, <1>2, BallotSets DEF Tally, Missing

LEMMA BallotCountsNext == TypeOK' /\ TallyInv' => BallotsMatchCounters'
  BY BallotCounts, PTL

(* Referendum counts as the server does. *)
LEMMA SameCardinality == \A S : Abstract!Cardinality(S) = Cardinality(S)
  BY DEF Cardinality, Abstract!Cardinality

(* The options that Referendum may call are the winners the server finds.  *)
LEMMA CallableIsWinners ==
    ASSUME NEW h \in HostReferendum, NEW cast,
           \A q \in Responses : Cardinality({c \in h.participants : cast[c] = q}) = h.votes[q],
           Cardinality({c \in h.participants : cast[c] = NoReferendum}) = missingVotes(h)
    PROVE  Abstract!Callable(h.participants, cast) = winners(h)
  BY SameCardinality DEF Abstract!Callable, winners

-----------------------------------------------------------------------------
(* Steps.                                                                  *)

(* A step that keeps the hosted referendums, what the server announced and *)
(* what clients have learned.                                              *)
LEMMA Stutters ==
    ASSUME BallotsAreAnswers, BallotsAreAnswers', sent \subseteq sent',
           UNCHANGED <<h_referendums, opened, reopened>>,
           \A v \in VoteIDs : ToldOf(v)' = ToldOf(v),
           \A c \in Clients, v \in VoteIDs : LearnedBy(c, v)' = LearnedBy(c, v)
    PROVE  UNCHANGED Abstract!vars
<1>1. \A v \in VoteIDs, c \in Clients : Counted(v, c)' <=> Counted(v, c)
  BY DEF Counted, Hosted
<1>2. \A v \in VoteIDs, c \in Clients : BallotOf(v, c)' = BallotOf(v, c)
  BY <1>1, BallotStays
<1>3. \A v \in VoteIDs : ElectorateOf(v)' = ElectorateOf(v) /\ VerdictOf(v)' = VerdictOf(v)
  BY DEF ElectorateOf, VerdictOf, Closed, Hosted
<1> QED
  BY <1>2, <1>3 DEF Abstract!vars

(* Sending no result tells nobody anything. *)
LEMMA NothingTold ==
    ASSUME NEW ms, sent' = sent \cup ms, \A v, c, r : Result(v, c, r) \notin ms
    PROVE  \A v \in VoteIDs : ToldOf(v)' = ToldOf(v)
  BY DEF ToldOf

(* A request opens its vote, for the clients that are there: for the first *)
(* time, or anew.                                                          *)
LEMMA RequestOpens ==
    ASSUME TypeOK, OpeningInv, BallotsAreAnswers, BallotsAreAnswers',
           NEW m \in sent, create_referendum_from_client_request(m)
    PROVE  Abstract!Next
<1> DEFINE v == m.vote
           P == copyConversationsMap
<1>1. /\ v \in VoteIDs
      /\ P \in SUBSET Clients
      /\ v \in opened => v \in Repeats
  BY MessageForms, RequestAndResultForms, OpenedAgain
  DEF create_referendum_from_client_request, TypeOK, copyConversationsMap
<1> HIDE DEF v, P
<1>2. /\ h_referendums' = [h_referendums EXCEPT ![v] = newHostReferendum(P)]
      /\ opened' = opened \cup {v}
      /\ reopened' = reopened \cup ({v} \cap opened)
      /\ UNCHANGED c_referendums
      /\ sent' = sent \cup {Question(v, c) : c \in P}
  BY DEF create_referendum_from_client_request, v, P, Consume
<1>3. /\ h_referendums'[v] = newHostReferendum(P)
      /\ newHostReferendum(P) # NoReferendum
      /\ \A w \in VoteIDs \ {v} : h_referendums'[w] = h_referendums[w]
  BY <1>1, <1>2, NewIsHosted DEF TypeOK
<1>4. \A w \in VoteIDs : ElectorateOf(w)' = IF w = v THEN P ELSE ElectorateOf(w)
  BY <1>3 DEF ElectorateOf, Hosted, newHostReferendum
<1>5. \A w \in VoteIDs : VerdictOf(w)' = IF w = v THEN NoReferendum ELSE VerdictOf(w)
  BY <1>3 DEF VerdictOf, Closed, Hosted, newHostReferendum
<1>6. /\ \A c \in Clients : ~Counted(v, c)'
      /\ \A w \in VoteIDs \ {v}, c \in Clients : Counted(w, c)' <=> Counted(w, c)
  BY <1>3 DEF Counted, Hosted, newHostReferendum
<1>7. \A w \in VoteIDs, c \in Clients :
          BallotOf(w, c)' = IF w = v THEN NoReferendum ELSE BallotOf(w, c)
  <2>1. sent \subseteq sent'
    BY <1>2
  <2>2. \A c \in Clients : BallotOf(v, c)' = NoReferendum
    BY <1>1, <1>6 DEF BallotsAreAnswers
  <2> QED
    BY <1>6, <2>1, <2>2, BallotStays
<1>8. \A c \in Clients, w \in VoteIDs : LearnedBy(c, w)' = LearnedBy(c, w)
  BY <1>2 DEF LearnedBy, HasVerdict, Knows
<1>9. \A w \in VoteIDs : ToldOf(w)' = ToldOf(w)
  <2>1. \A w, c, r : Result(w, c, r) \notin {Question(v, d) : d \in P}
    BY ResultsDiffer
  <2> QED
    BY <1>2, <2>1, NothingTold
<1>10. Abstract!Open(v, P)
  <2>1. [w \in VoteIDs |-> ElectorateOf(w)']
            = [[w \in VoteIDs |-> ElectorateOf(w)] EXCEPT ![v] = P]
    BY <1>4
  <2>2. [w \in VoteIDs |-> VerdictOf(w)']
            = [[w \in VoteIDs |-> VerdictOf(w)] EXCEPT ![v] = NoReferendum]
    BY <1>5
  <2>3. [w \in VoteIDs |-> [c \in Clients |-> BallotOf(w, c)']]
            = [[w \in VoteIDs |-> [c \in Clients |-> BallotOf(w, c)]]
                  EXCEPT ![v] = [c \in Clients |-> NoReferendum]]
    BY <1>7
  <2>4. /\ [w \in VoteIDs |-> ToldOf(w)'] = [w \in VoteIDs |-> ToldOf(w)]
        /\ [c \in Clients |-> [w \in VoteIDs |-> LearnedBy(c, w)']]
              = [c \in Clients |-> [w \in VoteIDs |-> LearnedBy(c, w)]]
    BY <1>8, <1>9
  <2> QED
    BY <1>1, <1>2, <2>1, <2>2, <2>3, <2>4 DEF Abstract!Open
<1> QED
  BY <1>1, <1>10 DEF Abstract!Next

(* The broadcast of a result tells it to the participants. *)
LEMMA ResultsTell ==
    ASSUME NEW v \in VoteIDs, NEW h \in HostReferendum, sent' = sent \cup ResultsOf(v, h)
    PROVE  \A w \in VoteIDs :
              ToldOf(w)' = IF w = v /\ ~h.ongoing
                           THEN ToldOf(w) \cup (h.participants \X {h.result})
                           ELSE ToldOf(w)
<1>1. CASE h.ongoing
  <2>1. \A w, c, r : Result(w, c, r) \notin ResultsOf(v, h)
    BY <1>1, ResultsOfForms
  <2> QED
    BY <1>1, <2>1, NothingTold
<1>2. CASE ~h.ongoing
  <2>1. h.participants \subseteq Clients /\ h.result \in Responses
    BY DEF HostReferendum
  <2>2. \A w, c, r : Result(w, c, r) \in ResultsOf(v, h) <=>
                         w = v /\ c \in h.participants /\ r = h.result
    BY <1>2, ResultsDiffer DEF ResultsOf
  <2>3. \A w \in VoteIDs, a \in Clients \X Responses :
            a \in ToldOf(w)' <=> a \in ToldOf(w) \/ Result(w, a[1], a[2]) \in ResultsOf(v, h)
    BY DEF ToldOf
  <2>4. ASSUME NEW a
        PROVE  a \in h.participants \X {h.result} <=>
                 a \in Clients \X Responses /\ a[1] \in h.participants /\ a[2] = h.result
    BY <2>1
  <2>5. \A w \in VoteIDs : ToldOf(w) \subseteq Clients \X Responses
                           /\ ToldOf(w)' \subseteq Clients \X Responses
    BY DEF ToldOf
  <2>6. ToldOf(v)' = ToldOf(v) \cup (h.participants \X {h.result})
    <3>1. ASSUME NEW a PROVE a \in ToldOf(v)' <=>
                               a \in ToldOf(v) \/ a \in h.participants \X {h.result}
      BY <2>2, <2>3, <2>4, <2>5
    <3> QED
      BY <3>1
  <2>7. \A w \in VoteIDs \ {v} : ToldOf(w)' = ToldOf(w)
    <3> SUFFICES ASSUME NEW w \in VoteIDs \ {v} PROVE ToldOf(w)' = ToldOf(w)
      OBVIOUS
    <3>1. ASSUME NEW a PROVE a \in ToldOf(w)' <=> a \in ToldOf(w)
      BY <2>2, <2>3, <2>5
    <3> QED
      BY <3>1
  <2> QED
    BY <1>2, <2>6, <2>7
<1> QED
  BY <1>1, <1>2

(* A response that is counted casts a ballot, and the server calls the     *)
(* vote exactly when Referendum may.                                       *)
LEMMA ResponseCasts ==
    ASSUME TypeOK, TypeOK', TallyInv, TallyInv',
           NEW v \in VoteIDs, NEW c \in Clients, NEW r \in Responses,
           Response(v, c, r) \in sent, UNCHANGED <<c_referendums, opened, reopened>>,
           MayVote(c, h_referendums[v]),
           NEW counted \in broadcast_result_to_clients(addVote(h_referendums[v], c, r)),
           h_referendums' = [h_referendums EXCEPT ![v] = counted],
           sent' = sent \cup ResultsOf(v, counted)
    PROVE  Abstract!Next
<1> DEFINE h == h_referendums[v]
           g == addVote(h, c, r)
           ballots == [w \in VoteIDs |-> [d \in Clients |-> BallotOf(w, d)]]
           cast == [d \in Clients |-> BallotOf(v, d)']
<1>1. /\ h \in HostReferendum /\ Hosted(v) /\ h.ongoing
      /\ c \in h.participants /\ c \notin h.who
  BY DEF TypeOK, MayVote, Hosted
<1>2. /\ g \in HostReferendum
      /\ g.participants = h.participants
      /\ g.who = h.who \cup {c}
      /\ g.ongoing
  BY <1>1, AddVoteType DEF addVote, HostReferendum
<1>3. /\ counted \in HostReferendum
      /\ counted.participants = g.participants
      /\ counted.who = g.who
      /\ counted.votes = g.votes
      /\ \/ winners(g) = {} /\ counted = g
         \/ ~counted.ongoing /\ counted.result \in winners(g)
  BY <1>2, BroadcastOutcome
<1>4. winners(counted) = winners(g)
  BY <1>3 DEF winners, missingVotes
<1>5. /\ h_referendums'[v] = counted
      /\ Hosted(v)'
      /\ \A w \in VoteIDs \ {v} : h_referendums'[w] = h_referendums[w]
  BY <1>3, NoReferendumAssumption DEF TypeOK, Hosted
<1>6. \A w \in VoteIDs : ElectorateOf(w)' = ElectorateOf(w)
  BY <1>1, <1>2, <1>3, <1>5 DEF ElectorateOf, Hosted
<1>7. \A w \in VoteIDs, d \in Clients :
          Counted(w, d)' <=> Counted(w, d) \/ (w = v /\ d = c)
  BY <1>1, <1>2, <1>3, <1>5 DEF Counted, Hosted
<1>8. BallotsAreAnswers /\ BallotsAreAnswers'
  BY BallotValue, BallotValueNext
<1>9. BallotOf(v, c)' = r /\ BallotOf(v, c) = NoReferendum
  BY <1>1, <1>7, <1>8 DEF BallotsAreAnswers, Counted
<1>10. \A w \in VoteIDs, d \in Clients :
           BallotOf(w, d)' = IF w = v /\ d = c THEN r ELSE BallotOf(w, d)
  BY <1>7, <1>8, <1>9, BallotStays
<1>11. \A d \in Clients, w \in VoteIDs : LearnedBy(d, w)' = LearnedBy(d, w)
  BY DEF LearnedBy, HasVerdict, Knows
<1>12. /\ ElectorateOf(v) = h.participants /\ ElectorateOf(v) # NoReferendum
       /\ VerdictOf(v) = NoReferendum
  BY <1>1, NoReferendumAssumption DEF ElectorateOf, VerdictOf, Closed, HostReferendum
<1>13. Abstract!Callable(h.participants, cast) = winners(g)
  <2>1. counted.participants \subseteq Clients
    BY <1>3 DEF HostReferendum
  <2>2. \A q : {d \in counted.participants : cast[d] = q}
                 = {d \in counted.participants : BallotOf(v, d)' = q}
    BY <2>1
  <2>3. /\ \A q \in Responses :
              Cardinality({d \in counted.participants : BallotOf(v, d)' = q})
                  = counted.votes[q]
        /\ Cardinality({d \in counted.participants : BallotOf(v, d)' = NoReferendum})
              = missingVotes(counted)
    BY <1>5, BallotCountsNext DEF BallotsMatchCounters
  <2> HIDE DEF cast
  <2>4. \A q \in Responses :
            Cardinality({d \in counted.participants : cast[d] = q}) = counted.votes[q]
    BY <2>2, <2>3
  <2>5. Cardinality({d \in counted.participants : cast[d] = NoReferendum})
            = missingVotes(counted)
    BY <2>2, <2>3
  <2>6. Abstract!Callable(counted.participants, cast) = winners(counted)
    BY <1>3, <2>4, <2>5, CallableIsWinners
  <2> QED
    BY <1>2, <1>3, <1>4, <2>6
<1>14. [w \in VoteIDs |-> [d \in Clients |-> BallotOf(w, d)']]
           = [ballots EXCEPT ![v][c] = r]
  BY <1>10
<1>15. \/ /\ winners(g) = {}
          /\ \A w \in VoteIDs : VerdictOf(w)' = VerdictOf(w) /\ ToldOf(w)' = ToldOf(w)
       \/ \E q \in winners(g) : \A w \in VoteIDs :
             /\ VerdictOf(w)' = IF w = v THEN q ELSE VerdictOf(w)
             /\ ToldOf(w)' = IF w = v THEN ToldOf(w) \cup (h.participants \X {q})
                                     ELSE ToldOf(w)
  <2>1. \A w \in VoteIDs \ {v} : VerdictOf(w)' = VerdictOf(w)
    BY <1>5 DEF VerdictOf, Closed, Hosted
  <2>2. \A w \in VoteIDs :
            ToldOf(w)' = IF w = v /\ ~counted.ongoing
                         THEN ToldOf(w) \cup (h.participants \X {counted.result})
                         ELSE ToldOf(w)
    BY <1>2, <1>3, ResultsTell
  <2>3. CASE winners(g) = {} /\ counted = g
    <3>1. VerdictOf(v)' = VerdictOf(v)
      BY <1>2, <1>5, <1>12, <2>3 DEF VerdictOf, Closed
    <3>2. \A w \in VoteIDs : ToldOf(w)' = ToldOf(w)
      BY <1>2, <2>2, <2>3
    <3> QED
      BY <2>1, <2>3, <3>1, <3>2
  <2>4. CASE ~counted.ongoing /\ counted.result \in winners(g)
    <3>1. VerdictOf(v)' = counted.result
      BY <1>5, <2>4 DEF VerdictOf, Closed
    <3> QED
      BY <2>1, <2>2, <2>4, <3>1
  <2> QED
    BY <1>3, <2>3, <2>4
<1>16. Abstract!Cast(v, c, r)
  <2>1. /\ [w \in VoteIDs |-> ElectorateOf(w)][v] = h.participants
        /\ [w \in VoteIDs |-> ElectorateOf(w)][v] # NoReferendum
        /\ ballots[v][c] = NoReferendum
        /\ [w \in VoteIDs |-> VerdictOf(w)][v] = NoReferendum
    BY <1>9, <1>12
  <2>2. Abstract!Callable([w \in VoteIDs |-> ElectorateOf(w)][v],
                          [w \in VoteIDs |-> [d \in Clients |-> BallotOf(w, d)']][v])
            = winners(g)
    BY <1>13, <2>1
  <2>3. /\ [w \in VoteIDs |-> ElectorateOf(w)'] = [w \in VoteIDs |-> ElectorateOf(w)]
        /\ [d \in Clients |-> [w \in VoteIDs |-> LearnedBy(d, w)']]
              = [d \in Clients |-> [w \in VoteIDs |-> LearnedBy(d, w)]]
    BY <1>6, <1>11
  <2>4. \/ /\ winners(g) = {}
           /\ [w \in VoteIDs |-> VerdictOf(w)'] = [w \in VoteIDs |-> VerdictOf(w)]
           /\ [w \in VoteIDs |-> ToldOf(w)'] = [w \in VoteIDs |-> ToldOf(w)]
        \/ \E q \in winners(g) : Abstract!Call(v, q)
    <3>1. CASE /\ winners(g) = {}
               /\ \A w \in VoteIDs : VerdictOf(w)' = VerdictOf(w) /\ ToldOf(w)' = ToldOf(w)
      BY <3>1
    <3>2. ASSUME NEW q \in winners(g),
                 \A w \in VoteIDs :
                    /\ VerdictOf(w)' = IF w = v THEN q ELSE VerdictOf(w)
                    /\ ToldOf(w)' = IF w = v THEN ToldOf(w) \cup (h.participants \X {q})
                                            ELSE ToldOf(w)
          PROVE  Abstract!Call(v, q)
      BY <2>1, <3>2 DEF Abstract!Call
    <3> QED
      BY <1>15, <3>1, <3>2
  <2> HIDE DEF g
  <2> QED
    BY <1>1, <1>14, <2>1, <2>2, <2>3, <2>4 DEF Abstract!Cast
<1> QED
  BY <1>16 DEF Abstract!Next

(* A result that a client waits for teaches it what the server told it.    *)
LEMMA ResultTeaches ==
    ASSUME TypeOK, BallotsAreAnswers, BallotsAreAnswers',
           NEW v \in VoteIDs, NEW c \in Clients, NEW r \in Responses,
           Result(v, c, r) \in sent, UNCHANGED <<sent, h_referendums, opened, reopened>>,
           AwaitsVerdict(c, v),
           c_referendums' = [c_referendums EXCEPT ![c][v] = [result |-> r, complete |-> TRUE]]
    PROVE  Abstract!Next
<1>1. <<c, r>> \in ToldOf(v)
  BY DEF ToldOf
<1>2. \A w \in VoteIDs, d \in Clients : BallotOf(w, d)' = BallotOf(w, d)
  BY BallotStays DEF Counted, Hosted
<1>3. \A w \in VoteIDs : /\ ElectorateOf(w)' = ElectorateOf(w)
                         /\ VerdictOf(w)' = VerdictOf(w)
                         /\ ToldOf(w)' = ToldOf(w)
  BY DEF ElectorateOf, VerdictOf, Closed, Hosted, ToldOf
<1>4. LearnedBy(c, v) = NoReferendum
  BY DEF AwaitsVerdict, LearnedBy, HasVerdict
<1>5. \A d \in Clients, w \in VoteIDs :
          LearnedBy(d, w)' = IF d = c /\ w = v THEN r ELSE LearnedBy(d, w)
  <2>1. c_referendums'[c][v] = [result |-> r, complete |-> TRUE]
    BY DEF TypeOK
  <2>2. LearnedBy(c, v)' = r
    <3>1. [result |-> r, complete |-> TRUE] # NoReferendum
      BY CopyExists
    <3>2. HasVerdict(c, v)'
      BY <2>1, <3>1 DEF HasVerdict, Knows
    <3> QED
      BY <2>1, <3>2 DEF LearnedBy
  <2>3. \A d \in Clients, w \in VoteIDs :
            d # c \/ w # v => c_referendums'[d][w] = c_referendums[d][w]
    BY DEF TypeOK
  <2> QED
    BY <2>2, <2>3 DEF LearnedBy, HasVerdict, Knows
<1>6. Abstract!Learn(c, v, r)
  <2>1. /\ <<c, r>> \in [w \in VoteIDs |-> ToldOf(w)][v]
        /\ [d \in Clients |-> [w \in VoteIDs |-> LearnedBy(d, w)]][c][v] = NoReferendum
    BY <1>1, <1>4
  <2>2. [d \in Clients |-> [w \in VoteIDs |-> LearnedBy(d, w)']]
            = [[d \in Clients |-> [w \in VoteIDs |-> LearnedBy(d, w)]] EXCEPT ![c][v] = r]
    BY <1>5
  <2>3. /\ [w \in VoteIDs |-> ElectorateOf(w)'] = [w \in VoteIDs |-> ElectorateOf(w)]
        /\ [w \in VoteIDs |-> VerdictOf(w)'] = [w \in VoteIDs |-> VerdictOf(w)]
        /\ [w \in VoteIDs |-> ToldOf(w)'] = [w \in VoteIDs |-> ToldOf(w)]
        /\ [w \in VoteIDs |-> [d \in Clients |-> BallotOf(w, d)']]
              = [w \in VoteIDs |-> [d \in Clients |-> BallotOf(w, d)]]
    BY <1>2, <1>3
  <2> QED
    BY <2>1, <2>2, <2>3 DEF Abstract!Learn
<1> QED
  BY <1>6 DEF Abstract!Next

(* The server starts again, and hosts nothing. *)
LEMMA RestartForgets ==
    ASSUME BallotsAreAnswers', ServerRestarts
    PROVE  Abstract!Next
<1>1. \A v \in VoteIDs : ~Hosted(v)'
  BY DEF ServerRestarts, Hosted
<1>2. \A v \in VoteIDs : /\ ElectorateOf(v)' = NoReferendum
                         /\ VerdictOf(v)' = NoReferendum
                         /\ ToldOf(v)' = ToldOf(v)
  BY <1>1 DEF ElectorateOf, VerdictOf, Closed, ToldOf, ServerRestarts
<1>3. \A v \in VoteIDs, c \in Clients : BallotOf(v, c)' = NoReferendum
  BY <1>1 DEF BallotsAreAnswers, Counted
<1>4. \A c \in Clients, v \in VoteIDs : LearnedBy(c, v)' = LearnedBy(c, v)
  BY DEF LearnedBy, HasVerdict, Knows, ServerRestarts
<1>5. Restarts /\ UNCHANGED <<opened, reopened>>
  BY DEF ServerRestarts, history
<1>6. Abstract!Forget
  BY <1>2, <1>3, <1>4, <1>5 DEF Abstract!Forget
<1> QED
  BY <1>6 DEF Abstract!Next

(* A step in which the server keeps its referendums and announces nothing, *)
(* and clients keep their verdicts.                                        *)
LEMMA QuietStep ==
    ASSUME BallotsAreAnswers, BallotsAreAnswers',
           UNCHANGED <<h_referendums, history>>,
           NEW ms, sent' = sent \cup ms, \A v, c, r : Result(v, c, r) \notin ms,
           \A c \in Clients, v \in VoteIDs : LearnedBy(c, v)' = LearnedBy(c, v)
    PROVE  UNCHANGED Abstract!vars
<1>1. UNCHANGED <<h_referendums, opened, reopened>>
  BY DEF history
<1>2. \A v \in VoteIDs : ToldOf(v)' = ToldOf(v)
  BY NothingTold
<1> QED
  BY <1>1, <1>2, Stutters

(* Every step of the vote manager is a step of Referendum, or none.        *)
LEMMA ReferendumStep ==
    ASSUME TypeOK, TypeOK', TallyInv, TallyInv', OpeningInv, [Next]_vars
    PROVE  [Abstract!Next]_(Abstract!vars)
<1>1. BallotsAreAnswers /\ BallotsAreAnswers'
  BY BallotValue, BallotValueNext
<1>2. CASE UNCHANGED <<h_referendums, c_referendums, sent, history>>
  <2>1. sent' = sent \cup {}
    BY <1>2
  <2> QED
    BY <1>1, <1>2, <2>1, QuietStep DEF LearnedBy, HasVerdict, Knows
<1>3. ASSUME NEW c \in Clients, NEW v \in VoteIDs, RequestVote(c, v)
      PROVE  UNCHANGED Abstract!vars
  <2>1. \A w, d, r : Result(w, d, r) \notin {Request(v, c)}
    BY ResultsDiffer
  <2>2. UNCHANGED <<h_referendums, c_referendums, history>> /\ sent' = sent \cup {Request(v, c)}
    BY <1>3 DEF RequestVote, Send
  <2> QED
    BY <1>1, <2>1, <2>2, QuietStep DEF LearnedBy, HasVerdict, Knows
<1>4. ASSUME NEW m \in sent, create_referendum_from_client_request(m)
      PROVE  Abstract!Next
  BY <1>1, <1>4, RequestOpens
<1>5. ASSUME NEW m \in sent, handle_new_question_from_server(m)
      PROVE  UNCHANGED Abstract!vars
  <2>1. m.vote \in VoteIDs /\ m.client \in Clients
    BY MessageForms DEF TypeOK
  <2>2. UNCHANGED <<h_referendums, history>>
    BY <1>5 DEF handle_new_question_from_server
  <2>3. CASE Consume(m, {}) /\ UNCHANGED c_referendums
    <3>1. sent' = sent \cup {}
      BY <2>3 DEF Consume
    <3> QED
      BY <1>1, <2>2, <2>3, <3>1, QuietStep DEF LearnedBy, HasVerdict, Knows
  <2>4. ASSUME NEW response, ~Knows(m.client, m.vote),
               c_referendums' = [c_referendums EXCEPT ![m.client][m.vote] =
                                    [result |-> response, complete |-> FALSE]],
               Consume(m, {Response(m.vote, m.client, response)})
        PROVE  UNCHANGED Abstract!vars
    <3>1. \A c \in Clients, v \in VoteIDs : LearnedBy(c, v)' = LearnedBy(c, v)
      BY <2>1, <2>4 DEF LearnedBy, HasVerdict, Knows, TypeOK
    <3>2. \A w, d, r : Result(w, d, r) \notin {Response(m.vote, m.client, response)}
      BY ResultsDiffer
    <3>3. sent' = sent \cup {Response(m.vote, m.client, response)}
      BY <2>4 DEF Consume
    <3> QED
      BY <1>1, <2>2, <3>1, <3>2, <3>3, QuietStep
  <2> QED
    BY <1>5, <2>3, <2>4 DEF handle_new_question_from_server, Knows
<1>6. ASSUME NEW m \in sent, handle_response_from_client(m),
             MayVote(m.client, h_referendums[m.vote])
      PROVE  Abstract!Next
  <2>1. /\ m.vote \in VoteIDs /\ m.client \in Clients /\ m.response \in Responses
        /\ m = Response(m.vote, m.client, m.response)
    BY <1>6, MessageForms DEF TypeOK, handle_response_from_client
  <2>2. UNCHANGED <<c_referendums, opened, reopened>>
    BY <1>6 DEF handle_response_from_client, history
  <2>3. PICK counted \in broadcast_result_to_clients(
                            addVote(h_referendums[m.vote], m.client, m.response)) :
            /\ h_referendums' = [h_referendums EXCEPT ![m.vote] = counted]
            /\ Consume(m, ResultsOf(m.vote, counted))
    BY <1>6 DEF handle_response_from_client
  <2>4. sent' = sent \cup ResultsOf(m.vote, counted)
    BY <2>3 DEF Consume
  <2> QED
    BY <1>6, <2>1, <2>2, <2>3, <2>4, ResponseCasts
<1>7. ASSUME NEW m \in sent, handle_result_from_server(m), AwaitsVerdict(m.client, m.vote)
      PROVE  Abstract!Next
  <2>1. /\ m.vote \in VoteIDs /\ m.client \in Clients /\ m.response \in Responses
        /\ m = Result(m.vote, m.client, m.response)
    BY <1>7, MessageForms, RequestAndResultForms DEF TypeOK, handle_result_from_server
  <2>2. UNCHANGED <<sent, h_referendums, opened, reopened>>
    BY <1>7 DEF handle_result_from_server, Consume, history
  <2>3. c_referendums' = [c_referendums EXCEPT ![m.client][m.vote] =
                             [result |-> m.response, complete |-> TRUE]]
    BY <1>7 DEF handle_result_from_server
  <2> QED
    BY <1>1, <1>7, <2>1, <2>2, <2>3, ResultTeaches
<1>8. CASE ServerRestarts
  BY <1>1, <1>8, RestartForgets
<1>9. ASSUME NEW m \in sent, handle_response_from_client(m),
             ~MayVote(m.client, h_referendums[m.vote])
      PROVE  UNCHANGED <<h_referendums, c_referendums, sent, history>>
  BY <1>9 DEF handle_response_from_client, Consume
<1>10. ASSUME NEW m \in sent, handle_result_from_server(m), ~AwaitsVerdict(m.client, m.vote)
       PROVE  UNCHANGED <<h_referendums, c_referendums, sent, history>>
  BY <1>10 DEF handle_result_from_server, Consume
<1>11. ASSUME NEW c \in Clients, Presence(c)
       PROVE  UNCHANGED <<h_referendums, c_referendums, sent, history>>
  BY <1>11 DEF Presence, NewConversation, HelloProcessed, GoOffline, ComeBack, Disconnect
<1>12. UNCHANGED vars => UNCHANGED <<h_referendums, c_referendums, sent, history>>
  BY DEF vars
<1> QED
  BY <1>2, <1>3, <1>4, <1>5, <1>6, <1>7, <1>8, <1>9, <1>10, <1>11, <1>12 DEF Next, Deliver

(* The initial states: no vote is open, nobody voted, was told or learned. *)
LEMMA ReferendumInit == Init => Abstract!Init
<1> SUFFICES ASSUME Init PROVE Abstract!Init
  OBVIOUS
<1>1. \A v \in VoteIDs : ~Hosted(v) /\ \A c \in Clients : ~HasVerdict(c, v)
  BY DEF Init, Hosted, HasVerdict, Knows
<1>2. \A v \in VoteIDs :
          /\ ElectorateOf(v) = NoReferendum
          /\ VerdictOf(v) = NoReferendum
          /\ ToldOf(v) = {}
          /\ \A c \in Clients : BallotOf(v, c) = NoReferendum /\ LearnedBy(c, v) = NoReferendum
  BY <1>1 DEF ElectorateOf, VerdictOf, ToldOf, BallotOf, LearnedBy, Closed, Init
<1>3. opened = {} /\ reopened = {}
  BY DEF Init
<1> QED
  BY <1>2, <1>3 DEF Abstract!Init

(* The messages and counters of the vote manager are referendums that take *)
(* one ballot of each member, are called as soon as they can be and whose  *)
(* verdict is all that anyone learns, until a repeated request opens one   *)
(* again (vote_manager.go:124) or a restart forgets them all.              *)
THEOREM ReferendumImplemented == Spec => ImplementsReferendum
<1>1. TypeOK /\ TypeOK' /\ TallyInv /\ TallyInv' /\ OpeningInv /\ [Next]_vars
      => [Abstract!Next]_(Abstract!vars)
  BY ReferendumStep
<1>2. Spec => []TallyInv
  BY TallyInvInit, TallyInvStep, TypeCorrect, PTL DEF Spec
<1> QED
  BY <1>1, <1>2, ReferendumInit, TypeCorrect, OpeningCorrect, PTL
  DEF Spec, ImplementsReferendum, Abstract!Spec

-----------------------------------------------------------------------------
(* Agreement.                                                              *)

(* What ReferendumProofs proves of Referendum holds of its implementation. *)
Proved == INSTANCE ReferendumProofs WITH
    None <- NoReferendum,
    electorate <- [v \in VoteIDs |-> ElectorateOf(v)],
    ballots <- [v \in VoteIDs |-> [c \in Clients |-> BallotOf(v, c)]],
    verdict <- [v \in VoteIDs |-> VerdictOf(v)],
    told <- [v \in VoteIDs |-> ToldOf(v)],
    learned <- [c \in Clients |-> [v \in VoteIDs |-> LearnedBy(c, v)]]

(* It is the same Referendum. *)
LEMMA ProvedIsAbstract ==
    /\ Abstract!Init => Proved!Init
    /\ [Abstract!Next]_(Abstract!vars) => [Proved!Next]_(Proved!vars)
<1>1. Abstract!Init => Proved!Init
  BY DEF Abstract!Init, Proved!Init
<1>2. \A P, cast : Abstract!Callable(P, cast) = Proved!Callable(P, cast)
  BY DEF Abstract!Callable, Proved!Callable, Abstract!Cardinality, Proved!Cardinality
<1>3. Abstract!Next => Proved!Next
  BY <1>2 DEF Abstract!Next, Proved!Next, Abstract!Open, Proved!Open, Abstract!Cast,
              Proved!Cast, Abstract!Call, Proved!Call, Abstract!Learn, Proved!Learn,
              Abstract!Forget, Proved!Forget
<1> QED
  BY <1>1, <1>3 DEF Abstract!vars, Proved!vars

(* Whom Referendum lets agree, VoteManager does. *)
LEMMA SameAgreement == TypeOK /\ Proved!Agreement => AgreementUnlessReopened
<1> SUFFICES ASSUME TypeOK, Proved!Agreement, NEW v \in VoteIDs \ reopened,
                    NEW c \in Clients, NEW d \in Clients, HasVerdict(c, v), HasVerdict(d, v)
             PROVE  c_referendums[c][v].result = c_referendums[d][v].result
  BY DEF AgreementUnlessReopened, AgreedOn
<1>1. /\ LearnedBy(c, v) = c_referendums[c][v].result
      /\ LearnedBy(d, v) = c_referendums[d][v].result
  BY DEF LearnedBy
<1>2. LearnedBy(c, v) # NoReferendum /\ LearnedBy(d, v) # NoReferendum
  BY <1>1, NoReferendumAssumption DEF TypeOK, HasVerdict, Knows, ClientReferendum
<1>3. LearnedBy(c, v) = LearnedBy(d, v)
  BY <1>2 DEF Proved!Agreement
<1> QED
  BY <1>1, <1>3

(* No two clients ever hold different verdicts of a vote whose request was *)
(* handled once (vote_manager.go:118-138, :303-327), whatever else of it   *)
(* the transport repeats and whenever the server starts again.             *)
THEOREM AgreementCorrect == Spec => []AgreementUnlessReopened
<1>1. Abstract!Spec => Proved!Spec
  BY ProvedIsAbstract, PTL DEF Abstract!Spec, Proved!Spec
<1>2. NoReferendum \notin Responses
  BY NoReferendumAssumption
<1>3. Proved!Spec => []Proved!Agreement
  BY <1>2, Proved!OneVerdictLearned
<1> QED
  BY <1>1, <1>3, ReferendumImplemented, TypeCorrect, SameAgreement, PTL
  DEF ImplementsReferendum

=============================================================================
