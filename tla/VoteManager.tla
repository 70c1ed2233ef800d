---------------------------- MODULE VoteManager -----------------------------
(***************************************************************************)
(* The referendum manager of udp/vote_manager.go, on the server that hosts *)
(* the referendums and on the clients that answer and learn.               *)
(*                                                                         *)
(* Each handler is one action: it runs under h_referendums_lock (server)   *)
(* or c_referendums_lock (client), the broadcasts it makes included.       *)
(*                                                                         *)
(* The transport is the channel that SelectiveRepeat.tla implements        *)
(* (AtLeastOnce.tla): a message handed to a conversation is delivered at   *)
(* least once, in no order, and may be delivered again at any time.        *)
(***************************************************************************)
EXTENDS Integers, FiniteSets

CONSTANTS
    Clients,       \* conversation IDs of the client nodes
    VoteIDs,       \* the uuids that clients draw for their vote requests
    Malformed,     \* the votes whose question does not compile or run
    Repeats,       \* bound: votes whose request may be handled again, all in the code
    Askers,        \* bound: clients whose users ask for votes
    Unsteady,      \* bound: clients that join late, fall silent, come back
    Mortal,        \* bound: clients that may disconnect for good
    Restarts,      \* bound: TRUE if the server may crash and start again
    NoReferendum   \* "no entry" in a referendum map

ASSUME MalformedAssumption == Malformed \subseteq VoteIDs
ASSUME BoundsAssumption ==
    /\ Repeats \subseteq VoteIDs
    /\ Askers \subseteq Clients /\ Unsteady \subseteq Clients /\ Mortal \subseteq Clients
    /\ Restarts \in BOOLEAN
ASSUME ClientsAssumption == IsFiniteSet(Clients)

VARIABLES
    conversations, \* server: clients that have a conversation
    features,      \* server: those whose hello, with simple_eval, was processed
    online,        \* server: those whose conversation is marked online
    alive,         \* the client processes that run
    contacted,     \* clients that have met the server, so that users may ask
    h_referendums, \* server: the hosted referendum of each VoteID
    c_referendums, \* clients: each client's copy of each referendum
    sent,          \* every message handed to a conversation so far
    undelivered,   \* those not yet delivered since they were last handed over
    opened,        \* history: votes whose request was handled
    reopened       \* history: votes whose request was handled again

presence == <<conversations, features, online, alive, contacted>>
history == <<opened, reopened>>
vars == <<presence, h_referendums, c_referendums, sent, undelivered, history>>

-----------------------------------------------------------------------------
(* Data.                                                                   *)

UNSAT == 0
SAT == 1
SYNTAX_ERROR == 2
Responses == {UNSAT, SAT, SYNTAX_ERROR}

(* An answer that no vote holds counts 0, like a missing key of the map.   *)
HostReferendum ==
    [ongoing : BOOLEAN, participants : SUBSET Clients, who : SUBSET Clients,
     votes : [Responses -> Nat], result : Responses]

ClientReferendum == [result : Responses, complete : BOOLEAN]

ASSUME NoReferendumAssumption ==
    /\ NoReferendum \notin HostReferendum \cup ClientReferendum \cup Responses
    /\ \A participants \in SUBSET Clients : NoReferendum # participants

Request(v, c) ==
    [type |-> "vote_c2s_request_vote", vote |-> v, client |-> c]
Question(v, c) ==
    [type |-> "vote_s2c_broadcast_question", vote |-> v, client |-> c]
Response(v, c, r) ==
    [type |-> "vote_c2s_response_to_question", vote |-> v, client |-> c, response |-> r]
Result(v, c, r) ==
    [type |-> "vote_s2c_broadcast_result", vote |-> v, client |-> c, response |-> r]

Messages ==
    [type : {"vote_c2s_request_vote", "vote_s2c_broadcast_question"},
     vote : VoteIDs, client : Clients]
    \cup
    [type : {"vote_c2s_response_to_question", "vote_s2c_broadcast_result"},
     vote : VoteIDs, client : Clients, response : Responses]

ToServer == {"vote_c2s_request_vote", "vote_c2s_response_to_question"}

-----------------------------------------------------------------------------
(* The channel.  Packets wait in a conversation's `outgoing` and are sent  *)
(* until acknowledged; a packet whose acknowledgement is late is sent, and *)
(* handled, again.                                                         *)

Deliverable ==
    undelivered \cup {m \in sent : m.type = "vote_c2s_request_vote" => m.vote \in Repeats}

Send(ms) ==
    /\ sent' = sent \cup ms
    /\ undelivered' = undelivered \cup ms

(* m is handled, and the handler sends `replies`. *)
Consume(m, replies) ==
    /\ sent' = sent \cup replies
    /\ undelivered' = (undelivered \ {m}) \cup replies

-----------------------------------------------------------------------------
(* Server: which clients take part.                                        *)

copyConversationsMap == conversations \cap features \cap online

(* First packet of a client: newConversation, which starts online.  The    *)
(* packet may have been under way since before its client went.            *)
NewConversation(c) ==
    /\ c \in Clients \ conversations
    /\ conversations' = conversations \cup {c}
    /\ online' = online \cup {c}
    /\ contacted' = contacted \cup {c}
    /\ UNCHANGED <<features, alive, h_referendums, c_referendums, sent, undelivered,
                   history>>

(* The client's hello is processed: from now on it may vote. *)
HelloProcessed(c) ==
    /\ c \in conversations \ features
    /\ features' = features \cup {c}
    /\ UNCHANGED <<conversations, online, alive, contacted, h_referendums,
                   c_referendums, sent, undelivered, history>>

(* The cleaner marks a silent client offline. *)
GoOffline(c) ==
    /\ c \in Unsteady \cup (Clients \ alive)
    /\ c \in conversations \cap online
    /\ online' = online \ {c}
    /\ UNCHANGED <<conversations, features, alive, contacted, h_referendums,
                   c_referendums, sent, undelivered, history>>

(* Any packet of the client marks it online again. *)
ComeBack(c) ==
    /\ c \in conversations \ online
    /\ online' = online \cup {c}
    /\ UNCHANGED <<conversations, features, alive, contacted, h_referendums,
                   c_referendums, sent, undelivered, history>>

(* The user leaves, or the process dies.  A client that starts again gets  *)
(* a new conversation ID: it is another member of Clients.                 *)
Disconnect(c) ==
    /\ c \in Mortal \cap alive
    /\ alive' = alive \ {c}
    /\ UNCHANGED <<conversations, features, online, contacted, h_referendums,
                   c_referendums, sent, undelivered, history>>

(* The server process dies and is started again: it keeps nothing.  The    *)
(* clients keep their referendums, and go on sending what no server has    *)
(* acknowledged; its own unacknowledged packets are gone.                  *)
ServerRestarts ==
    /\ Restarts
    /\ conversations' = {} /\ features' = {} /\ online' = {}
    /\ h_referendums' = [v \in VoteIDs |-> NoReferendum]
    /\ undelivered' = {m \in undelivered : m.type \in ToServer}
    /\ UNCHANGED <<alive, contacted, c_referendums, sent, history>>

-----------------------------------------------------------------------------
(* Asking.                                                                 *)

(* A client asks the server to host a vote, under a fresh uuid. *)
RequestVote(c, v) ==
    /\ c \in Askers \cap alive \cap contacted
    /\ \A d \in Clients : Request(v, d) \notin sent
    /\ Send({Request(v, c)})
    /\ UNCHANGED <<presence, h_referendums, c_referendums, history>>

(* Mutant: the result starts as TIMEOUT. *)
newHostReferendum_Timeout(participants) ==
    [ongoing |-> TRUE, participants |-> participants, who |-> {},
     votes |-> [r \in Responses |-> 0], result |-> 3]

newHostReferendum(participants) ==
    [ongoing |-> TRUE, participants |-> participants, who |-> {},
     votes |-> [r \in Responses |-> 0], result |-> SYNTAX_ERROR]

(* A VoteID that is already hosted is only logged (:124): the entry is     *)
(* replaced and the question goes out again.                               *)
create_referendum_from_client_request(m) ==
    /\ m \in Deliverable
    /\ m.type = "vote_c2s_request_vote"
    /\ m.client \in conversations
    /\ h_referendums' =
          [h_referendums EXCEPT ![m.vote] = newHostReferendum(copyConversationsMap)]
    /\ Consume(m, {Question(m.vote, c) : c \in copyConversationsMap})
    /\ opened' = opened \cup {m.vote}
    /\ reopened' = reopened \cup ({m.vote} \cap opened)
    /\ UNCHANGED <<presence, c_referendums>>

(* Every client evaluates the same expression; defect_constant may flip a  *)
(* boolean answer, never a syntax error.                                   *)
computeQuestion(v) == IF v \in Malformed THEN {SYNTAX_ERROR} ELSE {UNSAT, SAT}

handle_new_question_from_server(m) ==
    /\ m \in Deliverable
    /\ m.type = "vote_s2c_broadcast_question"
    /\ m.client \in alive
    /\ \/ /\ c_referendums[m.client][m.vote] # NoReferendum
          /\ Consume(m, {})
          /\ UNCHANGED c_referendums
       \/ /\ c_referendums[m.client][m.vote] = NoReferendum
          /\ \E response \in computeQuestion(m.vote) :
                /\ c_referendums' = [c_referendums EXCEPT ![m.client][m.vote] =
                                        [result |-> response, complete |-> FALSE]]
                /\ Consume(m, {Response(m.vote, m.client, response)})
    /\ UNCHANGED <<presence, h_referendums, history>>

-----------------------------------------------------------------------------
(* Counting.                                                               *)

missingVotes(referendum) ==
    Cardinality(referendum.participants) - Cardinality(referendum.who)

(* Mutant: >= for >. *)
winners_AtLeast(referendum) ==
    {r \in Responses : referendum.votes[r] >= missingVotes(referendum)}

(* Mutant: an absolute majority of the participants is needed. *)
winners_Majority(referendum) ==
    {r \in Responses : 2 * referendum.votes[r] > Cardinality(referendum.participants)}

winners(referendum) ==
    {r \in Responses : referendum.votes[r] > missingVotes(referendum)}

(* What broadcast_result_to_clients may leave the referendum as: the map   *)
(* is ranged over in random order, so any winner may be the result.        *)
broadcast_result_to_clients(referendum) ==
    IF winners(referendum) = {}
    THEN {referendum}
    ELSE {[referendum EXCEPT !.result = r, !.ongoing = FALSE] : r \in winners(referendum)}

(* Mutant: broadcast from within the loop over the winners. *)
ResultsOf_EachWinner(v, referendum) ==
    IF referendum.ongoing
    THEN {}
    ELSE {Result(v, c, r) : c \in referendum.participants, r \in winners(referendum)}

(* Mutant: participants that are offline are not told. *)
ResultsOf_Online(v, referendum) ==
    IF referendum.ongoing
    THEN {}
    ELSE {Result(v, c, referendum.result) : c \in referendum.participants \cap online}

ResultsOf(v, referendum) ==
    IF referendum.ongoing
    THEN {}
    ELSE {Result(v, c, referendum.result) : c \in referendum.participants}

(* Mutant: no check that the referendum is ongoing. *)
MayVote_Late(c, referendum) ==
    /\ referendum # NoReferendum
    /\ c \in referendum.participants \ referendum.who

(* Mutant: no check who has voted already. *)
MayVote_Twice(c, referendum) ==
    /\ referendum # NoReferendum
    /\ referendum.ongoing
    /\ c \in referendum.participants

MayVote(c, referendum) ==
    /\ referendum # NoReferendum
    /\ referendum.ongoing
    /\ c \in referendum.participants \ referendum.who

(* Mutant: the responder is not recorded when its option has votes already. *)
addVote_FirstOnly(referendum, c, r) ==
    [referendum EXCEPT !.who = IF referendum.votes[r] = 0 THEN @ \cup {c} ELSE @,
                       !.votes[r] = @ + 1]

addVote(referendum, c, r) ==
    [referendum EXCEPT !.who = @ \cup {c}, !.votes[r] = @ + 1]

handle_response_from_client(m) ==
    /\ m \in Deliverable
    /\ m.type = "vote_c2s_response_to_question"
    /\ m.client \in conversations
    /\ \/ /\ ~MayVote(m.client, h_referendums[m.vote])
          /\ Consume(m, {})
          /\ UNCHANGED h_referendums
       \/ /\ MayVote(m.client, h_referendums[m.vote])
          /\ \E counted \in broadcast_result_to_clients(
                               addVote(h_referendums[m.vote], m.client, m.response)) :
                /\ h_referendums' = [h_referendums EXCEPT ![m.vote] = counted]
                /\ Consume(m, ResultsOf(m.vote, counted))
    /\ UNCHANGED <<presence, c_referendums, history>>

(* Mutant: no check that the verdict is in already. *)
AwaitsVerdict_Again(c, v) == c_referendums[c][v] # NoReferendum

AwaitsVerdict(c, v) ==
    /\ c_referendums[c][v] # NoReferendum
    /\ ~c_referendums[c][v].complete

(* A result for a question the client does not know is dropped (:308). *)
handle_result_from_server(m) ==
    /\ m \in Deliverable
    /\ m.type = "vote_s2c_broadcast_result"
    /\ m.client \in alive
    /\ \/ /\ ~AwaitsVerdict(m.client, m.vote)
          /\ UNCHANGED c_referendums
       \/ /\ AwaitsVerdict(m.client, m.vote)
          /\ c_referendums' = [c_referendums EXCEPT ![m.client][m.vote] =
                                  [result |-> m.response, complete |-> TRUE]]
    /\ Consume(m, {})
    /\ UNCHANGED <<presence, h_referendums, history>>

-----------------------------------------------------------------------------
(* Steady clients have connected and said hello; the others are to come.   *)
Init ==
    /\ conversations = Clients \ Unsteady
    /\ features = Clients \ Unsteady
    /\ online = Clients \ Unsteady
    /\ alive = Clients
    /\ contacted = Clients \ Unsteady
    /\ h_referendums = [v \in VoteIDs |-> NoReferendum]
    /\ c_referendums = [c \in Clients |-> [v \in VoteIDs |-> NoReferendum]]
    /\ sent = {}
    /\ undelivered = {}
    /\ opened = {}
    /\ reopened = {}

Deliver(m) ==
    \/ create_referendum_from_client_request(m)
    \/ handle_new_question_from_server(m)
    \/ handle_response_from_client(m)
    \/ handle_result_from_server(m)

Presence(c) ==
    \/ NewConversation(c)
    \/ HelloProcessed(c)
    \/ GoOffline(c)
    \/ ComeBack(c)
    \/ Disconnect(c)

Next ==
    \/ \E c \in Clients : Presence(c)
    \/ ServerRestarts
    \/ \E c \in Clients, v \in VoteIDs : RequestVote(c, v)
    \/ \E m \in sent : Deliver(m)

Spec == Init /\ [][Next]_vars

(* A live client and the server keep resending what was not acknowledged   *)
(* and each looper handles what arrived: a message between them is handled *)
(* in the end.  Nothing makes a user ask or a client stay.                 *)
FirstDelivery(m) == m \in undelivered /\ m.client \in alive /\ Deliver(m)

FairSpec == Spec /\ \A m \in Messages : WF_vars(FirstDelivery(m))

-----------------------------------------------------------------------------
(* Properties.                                                             *)

Hosted(v) == h_referendums[v] # NoReferendum
Closed(v) == Hosted(v) /\ ~h_referendums[v].ongoing
Knows(c, v) == c_referendums[c][v] # NoReferendum
HasVerdict(c, v) == Knows(c, v) /\ c_referendums[c][v].complete

(* The type invariant: what each map of vote_manager.go holds. *)
TypeOK ==
    /\ conversations \subseteq Clients
    /\ features \subseteq conversations
    /\ online \subseteq conversations
    /\ alive \subseteq Clients
    /\ contacted \subseteq Clients
    /\ h_referendums \in [VoteIDs -> HostReferendum \cup {NoReferendum}]
    /\ c_referendums \in [Clients -> [VoteIDs -> ClientReferendum \cup {NoReferendum}]]
    /\ sent \subseteq Messages
    /\ undelivered \subseteq sent
    /\ opened \subseteq VoteIDs
    /\ reopened \subseteq opened

(* How many participants of v were not counted. *)
Missing(v) == Cardinality(h_referendums[v].participants \ h_referendums[v].who)

(* The clients counted in v whose answer was r. *)
BallotsFor(v, r) == {c \in h_referendums[v].who : Response(v, c, r) \in sent}

(* votes[r] counts the clients that answered r, each counted client is a   *)
(* participant that gave one answer and no other.                          *)
Tally(v) ==
    /\ h_referendums[v].who \subseteq h_referendums[v].participants
    /\ \A c \in h_referendums[v].who : \E r \in Responses : c \in BallotsFor(v, r)
    /\ \A r, s \in Responses : r # s => BallotsFor(v, r) \cap BallotsFor(v, s) = {}
    /\ \A r \in Responses : h_referendums[v].votes[r] = Cardinality(BallotsFor(v, r))

(* The counters agree with the ballots: late, repeated and foreign         *)
(* responses, and a referendum that is created again, must not disturb     *)
(* them (:218-267).                                                        *)
TallyMatchesBallots == \A v \in VoteIDs : Hosted(v) => Tally(v)

(* The server never sits on a decided vote: while a referendum is open no  *)
(* option has more votes than are missing (:278-289).                      *)
OngoingUndecided ==
    \A v \in VoteIDs : Hosted(v) /\ h_referendums[v].ongoing =>
        \A r \in Responses : h_referendums[v].votes[r] <= Missing(v)

(* Once every participant was counted the referendum is closed, however    *)
(* the answers split ("or if everyone has voted if the vote was a close    *)
(* tie", README.md:9).                                                     *)
FullTurnoutCloses ==
    \A v \in VoteIDs :
        Hosted(v) /\ h_referendums[v].participants # {}
                  /\ h_referendums[v].who = h_referendums[v].participants
        => Closed(v)

(* Random iteration may name any of several winners (:280-285), but the    *)
(* result has more votes than are missing and no option is more than one   *)
(* vote ahead of it.                                                       *)
NearPlurality ==
    \A v \in VoteIDs : Closed(v) =>
        /\ h_referendums[v].votes[h_referendums[v].result] > Missing(v)
        /\ \A r \in Responses :
              h_referendums[v].votes[r] <= h_referendums[v].votes[h_referendums[v].result] + 1

(* No two clients hold different verdicts of v. *)
AgreedOn(v) ==
    \A c, d \in Clients :
        HasVerdict(c, v) /\ HasVerdict(d, v)
        => c_referendums[c][v].result = c_referendums[d][v].result

(* Clients agree on every vote ("nodes who voted against the system are    *)
(* forced back in line", README.md:9).                                     *)
Agreement == \A v \in VoteIDs : AgreedOn(v)

(* They do unless the vote was opened again: whatever else is repeated,    *)
(* late or lost, and though the server may start again, nothing but a      *)
(* request that is handled twice (:124) can part them.                     *)
AgreementUnlessReopened == \A v \in VoteIDs \ reopened : AgreedOn(v)

(* A client is overruled at most once: a verdict it has recorded is never  *)
(* changed or forgotten, whatever arrives again or late (:146, :320).      *)
VerdictStands ==
    [][\A c \in Clients, v \in VoteIDs :
          HasVerdict(c, v) => c_referendums'[c][v] = c_referendums[c][v]]_vars

(* README.md:9: the ballots still missing "will not be able to sway the    *)
(* vote another way regardless of how they vote".                          *)
EarlyCallIsFinal ==
    \A v \in VoteIDs : Closed(v) =>
        \A r \in Responses \ {h_referendums[v].result} :
            h_referendums[v].votes[r] + Missing(v)
                <= h_referendums[v].votes[h_referendums[v].result]

(* A referendum with participants is closed in the end.  It need not be if *)
(* its request is handled again: clients that have answered the question   *)
(* do not answer it again (:146), and the new counters start from 0.       *)
Closes ==
    \A v \in VoteIDs :
        Hosted(v) /\ h_referendums[v].participants # {} ~> Closed(v)

(* Every client whose vote was counted in a closed referendum learns the   *)
(* verdict: its question was handled before it voted, so the result cannot *)
(* come too early for it.                                                  *)
VotersLearn ==
    \A v \in VoteIDs, c \in Clients :
        Closed(v) /\ c \in h_referendums[v].who ~> HasVerdict(c, v)

(* README.md:9: the verdict is distributed "back to the nodes themselves": *)
(* every participant of a closed referendum learns it.                     *)
ParticipantsLearn ==
    \A v \in VoteIDs, c \in Clients :
        Closed(v) /\ c \in h_referendums[v].participants ~> HasVerdict(c, v)

-----------------------------------------------------------------------------
(* Refinement: hide messages and counters.                                 *)

BallotOf(v, c) ==
    IF Hosted(v) /\ c \in h_referendums[v].who
    THEN CHOOSE r \in Responses : Response(v, c, r) \in sent
    ELSE NoReferendum

ElectorateOf(v) == IF Hosted(v) THEN h_referendums[v].participants ELSE NoReferendum

VerdictOf(v) == IF Closed(v) THEN h_referendums[v].result ELSE NoReferendum

ToldOf(v) == {a \in Clients \X Responses : Result(v, a[1], a[2]) \in sent}

LearnedBy(c, v) == IF HasVerdict(c, v) THEN c_referendums[c][v].result ELSE NoReferendum

Abstract == INSTANCE Referendum WITH
    None <- NoReferendum,
    electorate <- [v \in VoteIDs |-> ElectorateOf(v)],
    ballots <- [v \in VoteIDs |-> [c \in Clients |-> BallotOf(v, c)]],
    verdict <- [v \in VoteIDs |-> VerdictOf(v)],
    told <- [v \in VoteIDs |-> ToldOf(v)],
    learned <- [c \in Clients |-> [v \in VoteIDs |-> LearnedBy(c, v)]]

(* Whatever is repeated, reordered or late, and whenever the server starts *)
(* again, each handler opens a vote, casts one ballot and perhaps calls    *)
(* the vote, teaches a client a verdict that it was told, or does nothing. *)
ImplementsReferendum == Abstract!Spec

=============================================================================
