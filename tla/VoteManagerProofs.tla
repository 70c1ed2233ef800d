------------------------- MODULE VoteManagerProofs --------------------------
(***************************************************************************)
(* Proofs about VoteManager: the type invariant, the tally, and what the   *)
(* host's early call guarantees, for any clients, votes and repetitions.   *)
(***************************************************************************)
EXTENDS VoteManager, FiniteSetTheorems, TLAPS

-----------------------------------------------------------------------------
(* Messages.                                                               *)

(* What a delivered message is was sent. *)
LEMMA DeliverableWasSent ==
    ASSUME TypeOK, NEW m \in Deliverable
    PROVE  m \in sent /\ m \in Messages
BY DEF TypeOK, Deliverable

(* A message is determined by its type and its fields. *)
LEMMA MessageForms ==
    ASSUME NEW m \in Messages
    PROVE  /\ m.vote \in VoteIDs
           /\ m.client \in Clients
           /\ m.type = "vote_c2s_response_to_question" =>
                 /\ m.response \in Responses
                 /\ m = Response(m.vote, m.client, m.response)
           /\ m.type = "vote_s2c_broadcast_result" => m.response \in Responses
BY DEF Messages, Response

(* The constructors build messages. *)
LEMMA MessageTypes ==
    ASSUME NEW v \in VoteIDs, NEW c \in Clients, NEW r \in Responses
    PROVE  /\ Request(v, c) \in Messages
           /\ Question(v, c) \in Messages
           /\ Response(v, c, r) \in Messages
           /\ Result(v, c, r) \in Messages
BY DEF Messages, Request, Question, Response, Result

-----------------------------------------------------------------------------
(* Types.                                                                  *)

(* Sending messages keeps the channel well typed. *)
LEMMA SendType ==
    ASSUME TypeOK, NEW ms \in SUBSET Messages, Send(ms)
    PROVE  sent' \subseteq Messages /\ undelivered' \subseteq sent'
BY DEF TypeOK, Send

LEMMA ConsumeType ==
    ASSUME TypeOK, NEW m, NEW ms \in SUBSET Messages, Consume(m, ms)
    PROVE  sent' \subseteq Messages /\ undelivered' \subseteq sent'
BY DEF TypeOK, Consume

(* Counting a vote gives a referendum. *)
LEMMA AddVoteType ==
    ASSUME NEW h \in HostReferendum, NEW c \in Clients, NEW r \in Responses
    PROVE  addVote(h, c, r) \in HostReferendum
<1>1. h.who \cup {c} \in SUBSET Clients
  BY DEF HostReferendum
<1>2. [h.votes EXCEPT ![r] = @ + 1] \in [Responses -> Nat]
  BY DEF HostReferendum
<1>. QED  BY <1>1, <1>2 DEF addVote, HostReferendum

(* What broadcast_result_to_clients changes: nothing while there is no     *)
(* winner, else it closes the referendum and names a winner.               *)
LEMMA BroadcastOutcome ==
    ASSUME NEW h \in HostReferendum, NEW counted \in broadcast_result_to_clients(h)
    PROVE  /\ counted \in HostReferendum
           /\ counted.participants = h.participants
           /\ counted.who = h.who
           /\ counted.votes = h.votes
           /\ \/ winners(h) = {} /\ counted = h
              \/ ~counted.ongoing /\ counted.result \in winners(h)
<1>1. CASE winners(h) = {}
  BY <1>1 DEF broadcast_result_to_clients
<1>2. CASE winners(h) # {}
  <2>1. PICK r \in winners(h) : counted = [h EXCEPT !.result = r, !.ongoing = FALSE]
    BY <1>2 DEF broadcast_result_to_clients
  <2>2. r \in Responses
    BY DEF winners
  <2>. QED  BY <2>1, <2>2 DEF HostReferendum
<1>. QED  BY <1>1, <1>2

(* Every map of the vote manager, and the channel, stay well typed. *)
THEOREM TypeCorrect == Spec => []TypeOK
<1>1. Init => TypeOK
  BY BoundsAssumption DEF Init, TypeOK
<1>2. TypeOK /\ [Next]_vars => TypeOK'
  <2>. SUFFICES ASSUME TypeOK, [Next]_vars PROVE TypeOK'
    OBVIOUS
  <2>1. ASSUME NEW c \in Clients, Presence(c) PROVE TypeOK'
    BY <2>1 DEF Presence, NewConversation, HelloProcessed, GoOffline, ComeBack,
                Disconnect, history, TypeOK
  <2>2. ASSUME NEW c \in Clients, NEW v \in VoteIDs, RequestVote(c, v) PROVE TypeOK'
    <3>1. Request(v, c) \in Messages
      BY DEF Messages, Request
    <3>. QED  BY <2>2, <3>1, SendType DEF RequestVote, presence, history, TypeOK
  <2>3. ASSUME NEW m \in sent, create_referendum_from_client_request(m) PROVE TypeOK'
    <3>1. m.vote \in VoteIDs
      BY MessageForms DEF TypeOK
    <3>2. copyConversationsMap \subseteq Clients
      BY DEF copyConversationsMap, TypeOK
    <3>3. newHostReferendum(copyConversationsMap) \in HostReferendum
      BY <3>2 DEF newHostReferendum, HostReferendum, Responses, SYNTAX_ERROR
    <3>4. {Question(m.vote, c) : c \in copyConversationsMap} \subseteq Messages
      BY <3>1, <3>2 DEF Messages, Question
    <3>5. sent' \subseteq Messages /\ undelivered' \subseteq sent'
      BY <2>3, <3>4, ConsumeType DEF create_referendum_from_client_request
    <3>. QED  BY <2>3, <3>1, <3>3, <3>5 DEF create_referendum_from_client_request, presence, history, TypeOK
  <2>4. ASSUME NEW m \in sent, handle_new_question_from_server(m) PROVE TypeOK'
    <3>1. m.vote \in VoteIDs /\ m.client \in Clients
      BY MessageForms DEF TypeOK
    <3>2. CASE Consume(m, {}) /\ UNCHANGED c_referendums
      BY <2>4, <3>2, ConsumeType DEF handle_new_question_from_server, presence, history, TypeOK
    <3>3. ASSUME NEW response \in computeQuestion(m.vote),
                 c_referendums' = [c_referendums EXCEPT ![m.client][m.vote] =
                                      [result |-> response, complete |-> FALSE]],
                 Consume(m, {Response(m.vote, m.client, response)})
          PROVE  TypeOK'
      <4>1. response \in Responses
        BY <3>3 DEF computeQuestion, Responses
      <4>2. {Response(m.vote, m.client, response)} \subseteq Messages
        BY <3>1, <4>1, MessageTypes
      <4>3. sent' \subseteq Messages /\ undelivered' \subseteq sent'
        BY <3>3, <4>2, ConsumeType
      <4>4. [result |-> response, complete |-> FALSE] \in ClientReferendum
        BY <4>1 DEF ClientReferendum
      <4>. QED  BY <2>4, <3>1, <3>3, <4>3, <4>4
                DEF handle_new_question_from_server, presence, history, TypeOK
    <3>. QED  BY <2>4, <3>2, <3>3 DEF handle_new_question_from_server
  <2>5. ASSUME NEW m \in sent, handle_response_from_client(m) PROVE TypeOK'
    <3>1. /\ m.vote \in VoteIDs /\ m.client \in Clients
          /\ m.response \in Responses
      BY <2>5, MessageForms DEF TypeOK, handle_response_from_client
    <3>2. CASE Consume(m, {}) /\ UNCHANGED h_referendums
      BY <2>5, <3>2, ConsumeType DEF handle_response_from_client, presence, history, TypeOK
    <3>3. ASSUME MayVote(m.client, h_referendums[m.vote]),
                 NEW counted \in broadcast_result_to_clients(
                        addVote(h_referendums[m.vote], m.client, m.response)),
                 h_referendums' = [h_referendums EXCEPT ![m.vote] = counted],
                 Consume(m, ResultsOf(m.vote, counted))
          PROVE  TypeOK'
      <4>1. h_referendums[m.vote] \in HostReferendum
        BY <3>1, <3>3 DEF TypeOK, MayVote
      <4>2. counted \in HostReferendum
        BY <3>1, <3>3, <4>1, AddVoteType, BroadcastOutcome
      <4>3. ResultsOf(m.vote, counted) \subseteq Messages
        BY <3>1, <4>2, MessageTypes DEF ResultsOf, HostReferendum
      <4>4. sent' \subseteq Messages /\ undelivered' \subseteq sent'
        BY <3>3, <4>3, ConsumeType
      <4>. QED  BY <2>5, <3>1, <3>3, <4>2, <4>4
                DEF handle_response_from_client, presence, history, TypeOK
    <3>. QED  BY <2>5, <3>2, <3>3 DEF handle_response_from_client
  <2>6. ASSUME NEW m \in sent, handle_result_from_server(m) PROVE TypeOK'
    <3>1. /\ m.vote \in VoteIDs /\ m.client \in Clients
          /\ m.response \in Responses
      BY <2>6, MessageForms DEF TypeOK, handle_result_from_server
    <3>2. [result |-> m.response, complete |-> TRUE] \in ClientReferendum
      BY <3>1 DEF ClientReferendum
    <3>3. sent' \subseteq Messages /\ undelivered' \subseteq sent'
      BY <2>6, ConsumeType DEF handle_result_from_server
    <3>. QED  BY <2>6, <3>1, <3>2, <3>3 DEF handle_result_from_server, presence, history, TypeOK
  <2>7. CASE ServerRestarts
    BY <2>7 DEF ServerRestarts, history, TypeOK
  <2>8. CASE UNCHANGED vars
    BY <2>8 DEF vars, presence, history, TypeOK
  <2>. QED  BY <2>1, <2>2, <2>3, <2>4, <2>5, <2>6, <2>7, <2>8 DEF Next, Deliver
<1>. QED  BY <1>1, <1>2, PTL DEF Spec

-----------------------------------------------------------------------------
(* The tally.  It is inductive together with the fact that a client        *)
(* answers a vote once, when it creates its copy of the referendum.        *)

AnsweredOnce ==
    \A v \in VoteIDs, c \in Clients, r \in Responses : Response(v, c, r) \in sent =>
        /\ Knows(c, v)
        /\ \A s \in Responses : Response(v, c, s) \in sent => s = r

TallyInv == AnsweredOnce /\ TallyMatchesBallots

(* No other message looks like a response. *)
LEMMA ResponsesDiffer ==
    ASSUME NEW v \in VoteIDs, NEW c \in Clients, NEW r \in Responses,
           NEW w, NEW d, NEW q
    PROVE  /\ Response(v, c, r) # Request(w, d)
           /\ Response(v, c, r) # Question(w, d)
           /\ Response(v, c, r) # Result(w, d, q)
           /\ Response(v, c, r) = Response(w, d, q) => v = w /\ c = d /\ r = q
BY DEF Response, Request, Question, Result

(* A client's copy of a referendum is not mistaken for its absence. *)
LEMMA CopyExists ==
    ASSUME NEW r \in Responses, NEW b \in BOOLEAN
    PROVE  [result |-> r, complete |-> b] # NoReferendum
<1>1. [result |-> r, complete |-> b] \in ClientReferendum
  BY DEF ClientReferendum
<1>. QED  BY <1>1, NoReferendumAssumption

(* A referendum keeps its tally when it is left alone and no counted       *)
(* client answers anew.                                                    *)
LEMMA TallyFrame ==
    ASSUME NEW v \in VoteIDs, Hosted(v) => Tally(v),
           h_referendums'[v] = h_referendums[v],
           \A c, r : Hosted(v) /\ c \in h_referendums[v].who /\ r \in Responses =>
              (Response(v, c, r) \in sent' <=> Response(v, c, r) \in sent)
    PROVE  Hosted(v)' => Tally(v)'
<1>. SUFFICES ASSUME Hosted(v)' PROVE Tally(v)'
  OBVIOUS
<1>1. Hosted(v) /\ Tally(v)
  BY DEF Hosted
<1>2. \A r \in Responses : BallotsFor(v, r)' = BallotsFor(v, r)
  BY <1>1 DEF BallotsFor
<1>. QED  BY <1>1, <1>2 DEF Tally

(* Steps that send no response and leave the referendums alone. *)
LEMMA TallyInvFrame ==
    ASSUME TallyInv, UNCHANGED h_referendums,
           \A v \in VoteIDs, c \in Clients : Knows(c, v) => Knows(c, v)',
           \A v \in VoteIDs, c \in Clients, r \in Responses :
              Response(v, c, r) \in sent' <=> Response(v, c, r) \in sent,
           TypeOK
    PROVE  TallyInv'
<1>1. AnsweredOnce'
  BY DEF TallyInv, AnsweredOnce
<1>2. ASSUME NEW v \in VoteIDs PROVE Hosted(v)' => Tally(v)'
  <2>1. Hosted(v) => h_referendums[v].who \subseteq Clients
    BY DEF TypeOK, Hosted, HostReferendum
  <2>. QED  BY <2>1, TallyFrame DEF TallyInv, TallyMatchesBallots
<1>. QED  BY <1>1, <1>2 DEF TallyInv, TallyMatchesBallots

(* A new referendum has counted nobody. *)
LEMMA TallyOfNew ==
    ASSUME NEW v \in VoteIDs, NEW participants,
           h_referendums'[v] = newHostReferendum(participants)
    PROVE  Tally(v)'
<1>1. \A r \in Responses : BallotsFor(v, r)' = {}
  BY DEF BallotsFor, newHostReferendum
<1>. QED  BY <1>1, FS_EmptySet DEF Tally, newHostReferendum

(* Counting the response that a participant sent keeps the tally. *)
LEMMA TallyOfCounted ==
    ASSUME TypeOK, TallyInv,
           NEW v \in VoteIDs, NEW c \in Clients, NEW r \in Responses,
           MayVote(c, h_referendums[v]),
           Response(v, c, r) \in sent,
           h_referendums'[v] \in broadcast_result_to_clients(addVote(h_referendums[v], c, r)),
           \A d \in Clients, q \in Responses :
              Response(v, d, q) \in sent' <=> Response(v, d, q) \in sent
    PROVE  Tally(v)'
<1>. DEFINE h == h_referendums[v]
<1>1. h \in HostReferendum /\ Hosted(v) /\ Tally(v)
  BY DEF TypeOK, MayVote, TallyInv, TallyMatchesBallots, Hosted
<1>2. addVote(h, c, r) \in HostReferendum
  BY <1>1, AddVoteType
<1>3. /\ h_referendums'[v].participants = h.participants
      /\ h_referendums'[v].who = h.who \cup {c}
      /\ h_referendums'[v].votes = [h.votes EXCEPT ![r] = @ + 1]
  <2>1. /\ addVote(h, c, r).participants = h.participants
        /\ addVote(h, c, r).who = h.who \cup {c}
        /\ addVote(h, c, r).votes = [h.votes EXCEPT ![r] = @ + 1]
    BY <1>1 DEF addVote, HostReferendum
  <2>. QED  BY <1>2, <2>1, BroadcastOutcome
<1>4. c \in h.participants /\ c \notin h.who
  BY DEF MayVote
<1>5. \A d \in Clients, q \in Responses :
         d \in BallotsFor(v, q)' <=> d \in BallotsFor(v, q) \/ (d = c /\ q = r)
  <2>1. \A q \in Responses : Response(v, c, q) \in sent <=> q = r
    BY DEF TallyInv, AnsweredOnce
  <2>. QED  BY <1>3, <1>4, <2>1 DEF BallotsFor
<1>6. \A q \in Responses : /\ BallotsFor(v, q) \subseteq Clients
                           /\ BallotsFor(v, q)' \subseteq Clients
  BY <1>1, <1>3 DEF BallotsFor, HostReferendum
<1>7. BallotsFor(v, r)' = BallotsFor(v, r) \cup {c}
  BY <1>5, <1>6
<1>8. \A q \in Responses \ {r} : BallotsFor(v, q)' = BallotsFor(v, q)
  BY <1>5, <1>6
<1>9. c \notin BallotsFor(v, r)
  BY <1>4 DEF BallotsFor
<1>10. Cardinality(BallotsFor(v, r)') = Cardinality(BallotsFor(v, r)) + 1
  <2>1. IsFiniteSet(BallotsFor(v, r))
    BY <1>6, ClientsAssumption, FS_Subset
  <2>. QED  BY <1>7, <1>9, <2>1, FS_AddElement
<1>11. h_referendums'[v].who \subseteq h_referendums'[v].participants
  BY <1>1, <1>3, <1>4 DEF Tally
<1>12. \A d \in h_referendums'[v].who : \E q \in Responses : d \in BallotsFor(v, q)'
  BY <1>1, <1>3, <1>5, <1>7 DEF Tally, HostReferendum
<1>13. \A p, q \in Responses : p # q => BallotsFor(v, p)' \cap BallotsFor(v, q)' = {}
  <2>1. \A q \in Responses \ {r} : c \notin BallotsFor(v, q)
    BY <1>4 DEF BallotsFor
  <2>. QED  BY <1>1, <1>7, <1>8, <2>1 DEF Tally
<1>14. \A q \in Responses : h_referendums'[v].votes[q] = Cardinality(BallotsFor(v, q)')
  BY <1>1, <1>3, <1>8, <1>10 DEF Tally, HostReferendum
<1>. QED  BY <1>11, <1>12, <1>13, <1>14 DEF Tally

LEMMA TallyInvInit == Init => TallyInv
BY DEF Init, TallyInv, AnsweredOnce, TallyMatchesBallots, Hosted

LEMMA TallyInvStep ==
    ASSUME TypeOK, TypeOK', TallyInv, [Next]_vars
    PROVE  TallyInv'
<1>1. ASSUME NEW c \in Clients, Presence(c) PROVE TallyInv'
  <2>1. UNCHANGED <<h_referendums, c_referendums, sent>>
    BY <1>1 DEF Presence, NewConversation, HelloProcessed, GoOffline, ComeBack, Disconnect
  <2>. QED  BY <2>1, TallyInvFrame DEF Knows
<1>2. ASSUME NEW c \in Clients, NEW v \in VoteIDs, RequestVote(c, v) PROVE TallyInv'
  BY <1>2, ResponsesDiffer, TallyInvFrame DEF RequestVote, Send, Knows
<1>3. ASSUME NEW m \in sent, create_referendum_from_client_request(m) PROVE TallyInv'
  <2>1. m.vote \in VoteIDs
    BY MessageForms DEF TypeOK
  <2>2. ASSUME NEW v \in VoteIDs, NEW c \in Clients, NEW r \in Responses
        PROVE  Response(v, c, r) \in sent' <=> Response(v, c, r) \in sent
    <3>1. \A d : Response(v, c, r) # Question(m.vote, d)
      BY DEF Response, Question
    <3>. QED  BY <1>3, <3>1 DEF create_referendum_from_client_request, Consume
  <2>3. AnsweredOnce'
    BY <1>3, <2>2 DEF create_referendum_from_client_request, TallyInv, AnsweredOnce, Knows
  <2>4. h_referendums'[m.vote] = newHostReferendum(copyConversationsMap)
    BY <1>3, <2>1 DEF create_referendum_from_client_request, TypeOK
  <2>5. ASSUME NEW v \in VoteIDs, v # m.vote PROVE Hosted(v)' => Tally(v)'
    <3>1. h_referendums'[v] = h_referendums[v]
      BY <1>3, <2>5 DEF create_referendum_from_client_request, TypeOK
    <3>2. Hosted(v) => h_referendums[v].who \subseteq Clients
      BY DEF TypeOK, Hosted, HostReferendum
    <3>. QED  BY <2>2, <3>1, <3>2, TallyFrame DEF TallyInv, TallyMatchesBallots
  <2>6. Tally(m.vote)'
    BY <2>1, <2>4, TallyOfNew
  <2>. QED  BY <2>3, <2>5, <2>6 DEF TallyInv, TallyMatchesBallots
<1>4. ASSUME NEW m \in sent, handle_new_question_from_server(m) PROVE TallyInv'
  <2>1. m.vote \in VoteIDs /\ m.client \in Clients
    BY MessageForms DEF TypeOK
  <2>2. CASE Consume(m, {}) /\ UNCHANGED c_referendums
    BY <1>4, <2>2, TallyInvFrame DEF handle_new_question_from_server, Consume, Knows
  <2>3. ASSUME NEW response \in computeQuestion(m.vote),
               ~Knows(m.client, m.vote),
               c_referendums' = [c_referendums EXCEPT ![m.client][m.vote] =
                                    [result |-> response, complete |-> FALSE]],
               Consume(m, {Response(m.vote, m.client, response)})
        PROVE  TallyInv'
    <3>1. response \in Responses
      BY <2>3 DEF computeQuestion, Responses
    <3>2. \A v \in VoteIDs, c \in Clients, r \in Responses :
             Response(v, c, r) \in sent' <=>
                \/ Response(v, c, r) \in sent
                \/ v = m.vote /\ c = m.client /\ r = response
      BY <2>3, ResponsesDiffer DEF Consume
    <3>3. \A r \in Responses : Response(m.vote, m.client, r) \notin sent
      BY <2>1, <2>3 DEF TallyInv, AnsweredOnce
    <3>4. /\ Knows(m.client, m.vote)'
          /\ \A v \in VoteIDs, c \in Clients : Knows(c, v) => Knows(c, v)'
      <4>1. [result |-> response, complete |-> FALSE] # NoReferendum
        BY <3>1, CopyExists
      <4>. QED  BY <2>1, <2>3, <4>1 DEF Knows, TypeOK
    <3>5. AnsweredOnce'
      BY <3>2, <3>3, <3>4 DEF TallyInv, AnsweredOnce
    <3>6. ASSUME NEW v \in VoteIDs PROVE Hosted(v)' => Tally(v)'
      <4>1. Hosted(v) => /\ h_referendums[v].who \subseteq Clients
                         /\ v = m.vote => m.client \notin h_referendums[v].who
        BY <3>3 DEF TypeOK, Hosted, HostReferendum, TallyInv, TallyMatchesBallots,
                    Tally, BallotsFor
      <4>2. h_referendums'[v] = h_referendums[v]
        BY <1>4 DEF handle_new_question_from_server
      <4>. QED  BY <3>2, <4>1, <4>2, TallyFrame DEF TallyInv, TallyMatchesBallots
    <3>. QED  BY <3>5, <3>6 DEF TallyInv, TallyMatchesBallots
  <2>. QED  BY <1>4, <2>2, <2>3 DEF handle_new_question_from_server, Knows
<1>5. ASSUME NEW m \in sent, handle_response_from_client(m) PROVE TallyInv'
  <2>1. /\ m.vote \in VoteIDs /\ m.client \in Clients
        /\ m.response \in Responses
        /\ m = Response(m.vote, m.client, m.response)
    BY <1>5, MessageForms DEF TypeOK, handle_response_from_client
  <2>2. CASE Consume(m, {}) /\ UNCHANGED h_referendums
    BY <1>5, <2>2, TallyInvFrame DEF handle_response_from_client, Consume, Knows
  <2>3. ASSUME MayVote(m.client, h_referendums[m.vote]),
               NEW counted \in broadcast_result_to_clients(
                      addVote(h_referendums[m.vote], m.client, m.response)),
               h_referendums' = [h_referendums EXCEPT ![m.vote] = counted],
               Consume(m, ResultsOf(m.vote, counted))
        PROVE  TallyInv'
    <3>1. \A v \in VoteIDs, c \in Clients, r \in Responses :
             Response(v, c, r) \in sent' <=> Response(v, c, r) \in sent
      BY <2>3, ResponsesDiffer DEF Consume, ResultsOf
    <3>2. AnsweredOnce'
      BY <1>5, <3>1 DEF handle_response_from_client, TallyInv, AnsweredOnce, Knows
    <3>3. Tally(m.vote)'
      BY <2>1, <2>3, <3>1, TallyOfCounted DEF TypeOK
    <3>4. ASSUME NEW v \in VoteIDs, v # m.vote PROVE Hosted(v)' => Tally(v)'
      <4>1. h_referendums'[v] = h_referendums[v]
        BY <2>3, <3>4 DEF TypeOK
      <4>2. Hosted(v) => h_referendums[v].who \subseteq Clients
        BY DEF TypeOK, Hosted, HostReferendum
      <4>. QED  BY <3>1, <4>1, <4>2, TallyFrame DEF TallyInv, TallyMatchesBallots
    <3>. QED  BY <3>2, <3>3, <3>4 DEF TallyInv, TallyMatchesBallots
  <2>. QED  BY <1>5, <2>2, <2>3 DEF handle_response_from_client
<1>6. ASSUME NEW m \in sent, handle_result_from_server(m) PROVE TallyInv'
  <2>1. /\ m.vote \in VoteIDs /\ m.client \in Clients
        /\ m.response \in Responses
    BY <1>6, MessageForms DEF TypeOK, handle_result_from_server
  <2>2. \A v \in VoteIDs, c \in Clients : Knows(c, v) => Knows(c, v)'
    <3>1. [result |-> m.response, complete |-> TRUE] # NoReferendum
      BY <2>1, CopyExists
    <3>. QED  BY <1>6, <2>1, <3>1 DEF handle_result_from_server, Knows, TypeOK
  <2>. QED  BY <1>6, <2>2, TallyInvFrame DEF handle_result_from_server, Consume
<1>7. CASE ServerRestarts
  BY <1>7 DEF ServerRestarts, TallyInv, AnsweredOnce, Knows, TallyMatchesBallots, Hosted
<1>8. CASE UNCHANGED vars
  BY <1>8, TallyInvFrame DEF vars, Knows
<1>. QED  BY <1>1, <1>2, <1>3, <1>4, <1>5, <1>6, <1>7, <1>8 DEF Next, Deliver

(* The counters of every hosted referendum match the ballots received from *)
(* its participants, however messages are reordered and repeated, vote     *)
(* requests included (vote_manager.go:118-138, :213-272).                  *)
THEOREM TallyCorrect == Spec => []TallyMatchesBallots
<1>1. Spec => []TallyInv
  BY TallyInvInit, TallyInvStep, TypeCorrect, PTL DEF Spec
<1>2. TallyInv => TallyMatchesBallots
  BY DEF TallyInv
<1>. QED  BY <1>1, <1>2, PTL

-----------------------------------------------------------------------------
(* The early call.                                                         *)

CallInv == OngoingUndecided /\ NearPlurality

(* len(participants) - len(who) is the number of participants that were    *)
(* not counted, as long as only participants are.                          *)
LEMMA MissingVotes ==
    ASSUME NEW v, h_referendums[v] \in HostReferendum,
           h_referendums[v].who \subseteq h_referendums[v].participants
    PROVE  /\ missingVotes(h_referendums[v]) = Missing(v)
           /\ Missing(v) \in Nat
<1>. DEFINE h == h_referendums[v]
<1>1. IsFiniteSet(h.participants)
  BY ClientsAssumption, FS_Subset DEF HostReferendum
<1>2. h.participants \cap h.who = h.who
  OBVIOUS
<1>3. /\ IsFiniteSet(h.participants \ h.who)
      /\ Cardinality(h.participants \ h.who) = Cardinality(h.participants) - Cardinality(h.who)
  BY <1>1, <1>2, FS_Difference
<1>. QED  BY <1>3, FS_CardinalityType DEF Missing, missingVotes

(* A referendum that is left alone is as decided as it was. *)
LEMMA CallFrame ==
    ASSUME CallInv, NEW v \in VoteIDs, h_referendums'[v] = h_referendums[v]
    PROVE  /\ Hosted(v)' /\ h_referendums'[v].ongoing =>
                 \A r \in Responses : h_referendums'[v].votes[r] <= Missing(v)'
           /\ Closed(v)' =>
                 /\ h_referendums'[v].votes[h_referendums'[v].result] > Missing(v)'
                 /\ \A r \in Responses : h_referendums'[v].votes[r]
                        <= h_referendums'[v].votes[h_referendums'[v].result] + 1
BY DEF CallInv, OngoingUndecided, NearPlurality, Hosted, Closed, Missing

(* One more vote: either no option is decided yet and the referendum stays *)
(* open, or it is closed with a winner that trails no option by two.       *)
LEMMA CallOfCounted ==
    ASSUME TypeOK, TallyMatchesBallots, CallInv,
           NEW v \in VoteIDs, NEW c \in Clients, NEW r \in Responses,
           MayVote(c, h_referendums[v]),
           h_referendums'[v] \in broadcast_result_to_clients(addVote(h_referendums[v], c, r))
    PROVE  /\ h_referendums'[v].ongoing =>
                 \A q \in Responses : h_referendums'[v].votes[q] <= Missing(v)'
           /\ ~h_referendums'[v].ongoing =>
                 /\ h_referendums'[v].votes[h_referendums'[v].result] > Missing(v)'
                 /\ \A q \in Responses : h_referendums'[v].votes[q]
                        <= h_referendums'[v].votes[h_referendums'[v].result] + 1
<1>. DEFINE h == h_referendums[v]
            g == addVote(h, c, r)
<1>1. h \in HostReferendum /\ Hosted(v) /\ h.who \subseteq h.participants /\ h.ongoing
  BY DEF TypeOK, MayVote, TallyMatchesBallots, Tally, Hosted
<1>2. g \in HostReferendum
  BY <1>1, AddVoteType
<1>3. /\ g.participants = h.participants
      /\ g.who = h.who \cup {c}
      /\ g.votes = [h.votes EXCEPT ![r] = @ + 1]
      /\ g.ongoing
  BY <1>1 DEF addVote, HostReferendum
<1>4. /\ h_referendums'[v] \in HostReferendum
      /\ h_referendums'[v].participants = h.participants
      /\ h_referendums'[v].who = h.who \cup {c}
      /\ h_referendums'[v].votes = g.votes
      /\ \/ winners(g) = {} /\ h_referendums'[v] = g
         \/ ~h_referendums'[v].ongoing /\ h_referendums'[v].result \in winners(g)
  BY <1>2, <1>3, BroadcastOutcome
<1>5. Missing(v) \in Nat /\ Missing(v)' = Missing(v) - 1 /\ missingVotes(g) = Missing(v) - 1
  <2>1. c \in h.participants \ h.who
    BY DEF MayVote
  <2>2. IsFiniteSet(h.who)
    BY <1>1, ClientsAssumption, FS_Subset DEF HostReferendum
  <2>3. Cardinality(h.who \cup {c}) = Cardinality(h.who) + 1
    BY <2>1, <2>2, FS_AddElement
  <2>4. missingVotes(h) = Missing(v) /\ Missing(v) \in Nat
    BY <1>1, MissingVotes
  <2>5. IsFiniteSet(h.participants) /\ Cardinality(h.participants) \in Nat
    BY <1>1, ClientsAssumption, FS_Subset, FS_CardinalityType DEF HostReferendum
  <2>6. Cardinality(h.who) \in Nat
    BY <2>2, FS_CardinalityType
  <2>7. missingVotes(g) = Missing(v) - 1
    BY <1>3, <2>3, <2>4, <2>5, <2>6 DEF missingVotes
  <2>8. h.participants \cap (h.who \cup {c}) = h.who \cup {c}
    BY <1>1, <2>1
  <2>9. Cardinality(h.participants \ (h.who \cup {c}))
           = Cardinality(h.participants) - Cardinality(h.who \cup {c})
    <3>1. \A T : Cardinality(h.participants \ T)
                   = Cardinality(h.participants) - Cardinality(h.participants \cap T)
      BY <2>5, FS_Difference
    <3>. QED  BY <2>8, <3>1
  <2>10. Missing(v)' = missingVotes(g)
    BY <1>3, <1>4, <2>9 DEF Missing, missingVotes
  <2>. QED  BY <2>4, <2>7, <2>10
<1>6. \A q \in Responses : h.votes[q] \in Nat /\ h.votes[q] <= Missing(v)
  BY <1>1 DEF CallInv, OngoingUndecided, HostReferendum
<1>7. \A q \in Responses : /\ g.votes[q] \in Nat
                           /\ g.votes[q] <= Missing(v) + 1
  BY <1>1, <1>3, <1>5, <1>6 DEF HostReferendum
<1>8. CASE winners(g) = {} /\ h_referendums'[v] = g
  <2>1. \A q \in Responses : ~(g.votes[q] > missingVotes(g))
    BY <1>8 DEF winners
  <2>2. \A q \in Responses : g.votes[q] <= Missing(v)'
    BY <1>5, <1>7, <2>1
  <2>. QED  BY <1>3, <1>8, <2>2
<1>9. CASE ~h_referendums'[v].ongoing /\ h_referendums'[v].result \in winners(g)
  <2>1. /\ h_referendums'[v].result \in Responses
        /\ g.votes[h_referendums'[v].result] > Missing(v) - 1
    BY <1>5, <1>9 DEF winners
  <2>. QED  BY <1>4, <1>5, <1>7, <1>9, <2>1
<1>. QED  BY <1>4, <1>8, <1>9

(* What a step does to one referendum of the server. *)
LEMMA HostStep ==
    ASSUME TypeOK, [Next]_vars, NEW v \in VoteIDs
    PROVE  \/ h_referendums'[v] = h_referendums[v]
           \/ h_referendums'[v] = NoReferendum
           \/ \E P \in SUBSET Clients : h_referendums'[v] = newHostReferendum(P)
           \/ \E c \in Clients, r \in Responses :
                 /\ MayVote(c, h_referendums[v])
                 /\ h_referendums'[v] \in
                       broadcast_result_to_clients(addVote(h_referendums[v], c, r))
<1>1. ASSUME NEW c \in Clients, Presence(c) PROVE h_referendums'[v] = h_referendums[v]
  BY <1>1 DEF Presence, NewConversation, HelloProcessed, GoOffline, ComeBack, Disconnect
<1>2. ASSUME NEW c \in Clients, NEW w \in VoteIDs, RequestVote(c, w)
      PROVE  h_referendums'[v] = h_referendums[v]
  BY <1>2 DEF RequestVote
<1>3. ASSUME NEW m \in sent, create_referendum_from_client_request(m)
      PROVE  \/ h_referendums'[v] = h_referendums[v]
             \/ \E P \in SUBSET Clients : h_referendums'[v] = newHostReferendum(P)
  <2>1. copyConversationsMap \in SUBSET Clients
    BY DEF copyConversationsMap, TypeOK
  <2>. QED  BY <1>3, <2>1 DEF create_referendum_from_client_request, TypeOK
<1>4. ASSUME NEW m \in sent,
             handle_new_question_from_server(m) \/ handle_result_from_server(m)
      PROVE  h_referendums'[v] = h_referendums[v]
  BY <1>4 DEF handle_new_question_from_server, handle_result_from_server
<1>5. ASSUME NEW m \in sent, handle_response_from_client(m)
      PROVE  \/ h_referendums'[v] = h_referendums[v]
             \/ \E c \in Clients, r \in Responses :
                   /\ MayVote(c, h_referendums[v])
                   /\ h_referendums'[v] \in
                         broadcast_result_to_clients(addVote(h_referendums[v], c, r))
  <2>1. /\ m.vote \in VoteIDs /\ m.client \in Clients
        /\ m.response \in Responses
    BY <1>5, MessageForms DEF TypeOK, handle_response_from_client
  <2>2. CASE v # m.vote \/ UNCHANGED h_referendums
    BY <1>5, <2>2 DEF handle_response_from_client, TypeOK
  <2>3. CASE v = m.vote /\ ~UNCHANGED h_referendums
    <3>1. PICK counted \in broadcast_result_to_clients(
                              addVote(h_referendums[v], m.client, m.response)) :
             h_referendums' = [h_referendums EXCEPT ![v] = counted]
      BY <1>5, <2>3 DEF handle_response_from_client
    <3>2. h_referendums'[v] = counted
      BY <3>1 DEF TypeOK
    <3>. QED  BY <1>5, <2>1, <2>3, <3>1, <3>2 DEF handle_response_from_client
  <2>. QED  BY <2>2, <2>3
<1>6. CASE ServerRestarts
  BY <1>6 DEF ServerRestarts
<1>7. CASE UNCHANGED vars
  BY <1>7 DEF vars
<1>. QED  BY <1>1, <1>2, <1>3, <1>4, <1>5, <1>6, <1>7 DEF Next, Deliver

(* A new referendum is open and no option has a vote. *)
LEMMA CallOfNew ==
    ASSUME NEW v \in VoteIDs, NEW P \in SUBSET Clients,
           h_referendums'[v] = newHostReferendum(P)
    PROVE  /\ h_referendums'[v].ongoing
           /\ \A r \in Responses : h_referendums'[v].votes[r] <= Missing(v)'
<1>1. IsFiniteSet(P \ {})
  BY ClientsAssumption, FS_Subset
<1>2. Missing(v)' \in Nat
  BY <1>1, FS_CardinalityType DEF Missing, newHostReferendum
<1>. QED  BY <1>2 DEF newHostReferendum

LEMMA CallInvStep ==
    ASSUME TypeOK, TallyMatchesBallots, CallInv, [Next]_vars
    PROVE  CallInv'
<1>1. ASSUME NEW v \in VoteIDs
      PROVE  /\ Hosted(v)' /\ h_referendums'[v].ongoing =>
                   \A r \in Responses : h_referendums'[v].votes[r] <= Missing(v)'
             /\ Closed(v)' =>
                   /\ h_referendums'[v].votes[h_referendums'[v].result] > Missing(v)'
                   /\ \A r \in Responses : h_referendums'[v].votes[r]
                          <= h_referendums'[v].votes[h_referendums'[v].result] + 1
  <2>1. CASE h_referendums'[v] = h_referendums[v]
    BY <2>1, CallFrame
  <2>2. ASSUME NEW P \in SUBSET Clients, h_referendums'[v] = newHostReferendum(P)
        PROVE  h_referendums'[v].ongoing
               /\ \A r \in Responses : h_referendums'[v].votes[r] <= Missing(v)'
    BY <2>2, CallOfNew
  <2>3. ASSUME NEW c \in Clients, NEW r \in Responses, MayVote(c, h_referendums[v]),
               h_referendums'[v] \in
                  broadcast_result_to_clients(addVote(h_referendums[v], c, r))
        PROVE  /\ h_referendums'[v].ongoing =>
                     \A q \in Responses : h_referendums'[v].votes[q] <= Missing(v)'
               /\ ~h_referendums'[v].ongoing =>
                     /\ h_referendums'[v].votes[h_referendums'[v].result] > Missing(v)'
                     /\ \A q \in Responses : h_referendums'[v].votes[q]
                            <= h_referendums'[v].votes[h_referendums'[v].result] + 1
    BY <2>3, CallOfCounted
  <2>4. CASE h_referendums'[v] = NoReferendum
    BY <2>4 DEF Hosted, Closed
  <2>. QED  BY <2>1, <2>2, <2>3, <2>4, HostStep DEF Closed
<1>. QED  BY <1>1 DEF CallInv, OngoingUndecided, NearPlurality

LEMMA CallInvCorrect == Spec => []CallInv
<1>1. Init => CallInv
  BY DEF Init, CallInv, OngoingUndecided, NearPlurality, Hosted, Closed
<1>. QED  BY <1>1, CallInvStep, TypeCorrect, TallyCorrect, PTL DEF Spec

(* The server never sits on a decided vote (vote_manager.go:278-289). *)
THEOREM OngoingUndecidedCorrect == Spec => []OngoingUndecided
<1>1. CallInv => OngoingUndecided
  BY DEF CallInv
<1>. QED  BY <1>1, CallInvCorrect, PTL

(* Whatever order the map is ranged over in, the result that is broadcast  *)
(* has more votes than are missing and trails no option by two votes       *)
(* (vote_manager.go:280-285).                                              *)
THEOREM NearPluralityCorrect == Spec => []NearPlurality
<1>1. CallInv => NearPlurality
  BY DEF CallInv
<1>. QED  BY <1>1, CallInvCorrect, PTL

(* When every participant was counted, some option has a vote and none is  *)
(* missing, which no open referendum allows.                               *)
LEMMA FullTurnoutDecides ==
    ASSUME TypeOK, TallyMatchesBallots, OngoingUndecided
    PROVE  FullTurnoutCloses
<1>. SUFFICES ASSUME NEW v \in VoteIDs, Hosted(v),
                     h_referendums[v].participants # {},
                     h_referendums[v].who = h_referendums[v].participants,
                     h_referendums[v].ongoing
              PROVE  FALSE
  BY DEF FullTurnoutCloses, Closed
<1>1. PICK c \in h_referendums[v].who, r \in Responses : c \in BallotsFor(v, r)
  BY DEF TallyMatchesBallots, Tally
<1>2. BallotsFor(v, r) \subseteq Clients
  BY DEF BallotsFor, TypeOK, Hosted, HostReferendum
<1>3. Cardinality(BallotsFor(v, r)) \in Nat /\ Cardinality(BallotsFor(v, r)) # 0
  BY <1>1, <1>2, ClientsAssumption, FS_Subset, FS_EmptySet, FS_CardinalityType
<1>4. h_referendums[v].votes[r] = Cardinality(BallotsFor(v, r))
  BY DEF TallyMatchesBallots, Tally
<1>5. Missing(v) = 0
  <2>1. h_referendums[v].participants \ h_referendums[v].who = {}
    OBVIOUS
  <2>. QED  BY <2>1, FS_EmptySet DEF Missing
<1>6. h_referendums[v].votes[r] <= 0
  BY <1>5 DEF OngoingUndecided
<1>. QED  BY <1>3, <1>4, <1>6

(* Once every participant was counted the referendum is closed, however    *)
(* the answers split (vote_manager.go:276-299).                            *)
THEOREM FullTurnoutClosesCorrect == Spec => []FullTurnoutCloses
BY FullTurnoutDecides, TypeCorrect, TallyCorrect, OngoingUndecidedCorrect, PTL

(* A step leaves a complete copy of a referendum alone. *)
LEMMA VerdictStandsStep ==
    ASSUME TypeOK, [Next]_vars, NEW c \in Clients, NEW v \in VoteIDs, HasVerdict(c, v)
    PROVE  c_referendums'[c][v] = c_referendums[c][v]
<1>1. ASSUME NEW m \in sent, handle_new_question_from_server(m)
      PROVE  c_referendums'[c][v] = c_referendums[c][v]
  <2>1. m.vote \in VoteIDs /\ m.client \in Clients
    BY MessageForms DEF TypeOK
  <2>2. CASE m.client = c /\ m.vote = v
    <3>1. c_referendums[m.client][m.vote] # NoReferendum
      BY <2>2 DEF HasVerdict, Knows
    <3>2. UNCHANGED c_referendums
      BY <1>1, <3>1 DEF handle_new_question_from_server
    <3>. QED  BY <3>2
  <2>3. CASE m.client # c \/ m.vote # v
    <3>1. \/ UNCHANGED c_referendums
          \/ \E copy : c_referendums' = [c_referendums EXCEPT ![m.client][m.vote] = copy]
      BY <1>1 DEF handle_new_question_from_server
    <3>2. c_referendums \in [Clients -> [VoteIDs -> ClientReferendum \cup {NoReferendum}]]
      BY DEF TypeOK
    <3>3. ASSUME NEW copy,
                 c_referendums' = [c_referendums EXCEPT ![m.client][m.vote] = copy]
          PROVE  c_referendums'[c][v] = c_referendums[c][v]
      BY <2>1, <2>3, <3>2, <3>3
    <3>. QED  BY <3>1, <3>3
  <2>. QED  BY <2>2, <2>3
<1>2. ASSUME NEW m \in sent, handle_result_from_server(m)
      PROVE  c_referendums'[c][v] = c_referendums[c][v]
  <2>1. m.vote \in VoteIDs /\ m.client \in Clients
    BY MessageForms DEF TypeOK
  <2>2. CASE m.client = c /\ m.vote = v
    BY <1>2, <2>2 DEF handle_result_from_server, AwaitsVerdict, HasVerdict
  <2>3. CASE m.client # c \/ m.vote # v
    BY <1>2, <2>1, <2>3 DEF handle_result_from_server, TypeOK
  <2>. QED  BY <2>2, <2>3
<1>. QED  BY <1>1, <1>2 DEF Next, Deliver, Presence, NewConversation, HelloProcessed,
          GoOffline, ComeBack, Disconnect, ServerRestarts, RequestVote,
          create_referendum_from_client_request, handle_response_from_client, vars

(* A recorded verdict is never changed: the question and result handlers   *)
(* leave a complete copy alone (vote_manager.go:146, :320).                *)
THEOREM VerdictStandsCorrect == Spec => VerdictStands
<1>1. ASSUME TypeOK, [Next]_vars
      PROVE  [\A c \in Clients, v \in VoteIDs :
                HasVerdict(c, v) => c_referendums'[c][v] = c_referendums[c][v]]_vars
  BY <1>1, VerdictStandsStep
<1>. QED  BY <1>1, TypeCorrect, PTL DEF Spec, VerdictStands
=============================================================================
