# Formal models of consensus-protocol

TLA+ models, TLC runs and TLAPS proofs for the UDP voting system under `src/udp`: a server hosts
referendums over Boolean expressions, every client node evaluates the expression and votes, the server
calls the result and tells the nodes. Client and server speak an application protocol over a
selective-repeat ARQ of their own, on UDP.

To check: `tlc -config vote_once.cfg MCVoteManager.tla` (likewise for the other `.cfg` files, see
"Runs"), and `tlapm VoteManagerProofs.tla` (likewise for the other modules whose names end in `Proofs`;
each also reads the modules it extends, and repeats none of their proofs).

## 1. Inventory

### Components

| component | code | state | operations |
|---|---|---|---|
| referendum manager, server | `vote_manager.go` `host_referendum` | `h_referendums`: per VoteID `ongoing`, `participants`, `who`, `votes`, `result` | `create_referendum_from_client_request`, `handle_response_from_client`, `broadcast_result_to_clients` |
| referendum manager, client | `vote_manager.go` `client_referendum` | `c_referendums`: per VoteID the question, `result`, `complete` | request a vote, `handle_new_question_from_server`, `handle_result_from_server` |
| ARQ, sending | `conversation.go` `sliding_window` | `outgoing` (with `AckReceived`, `LastSent`), `nextPcktNum`, `windowStart` | queue a packet, `moveWindow`, `sendWindowPackets`, `checkForRetransmissions`, ACK and NAK handling |
| ARQ, receiving | `conversation.go` `receiving_window` | `incoming`, `lastPcktReceived` | `ARQ_Receive` of DATA (acknowledge, then store), `incomingProcessor` |
| presence | `conversation.go`, `global.go` | per conversation `features`, `online`, `LastOnline`, `missedSYNs` | hello and hello response, SYN, `checkLastOnline`, the cleaner |
| session set-up | `listener.go`, `client.go`, `server.go`, `global.go` | `conversation_id_self`, `conversations`, `generatedConvIDs` | PING request and response, `newConversation`, `client_connect`, leaving, the restart of the server |
| locks | all of them | `incoming_lock`, `outgoing_lock`, `h_referendums_lock`, `c_referendums_lock`, `referendum_lock`, `conversations_lock`, `generatedConvIDs_lock` | taken by the loopers and by one goroutine per datagram |
| encoding | `packet.go`, `pip.go` | none | encode, decode, checksum, magic |
| command line | `Brainloop.go` | rates of loss, duplication and defection | ask, list, disconnect, set a rate |
| the rest | `client_UDP_ARQ_2.go`, `tcp_test/` | - | a file that is one comment; a separate experiment |

### How they interact

A user's request becomes a `vote_c2s_request_vote` message. `conversation.go` gives it the next packet
number and puts it in `outgoing`. The sender's looper (one goroutine per conversation, every 20 ms)
slides the window and sends whatever in it is not acknowledged. At the receiver each datagram is handled
by a goroutine of its own: a DATA packet is acknowledged, then stored in `incoming`. The receiver's
looper takes one stored packet, in the random order in which Go ranges over a map, and calls the
handler of its message. A request makes the server copy the set of clients that take part (conversation
exists, its hello was processed, it is online) into `participants` and send each the question. A client
that handles the question evaluates it, keeps its answer and responds. A response is counted, and if it
decides the vote the server closes the referendum and sends the result to every participant, which
overwrites its own answer with it.

Before any of that a client pings the server, which draws a conversation ID for each PING_REQ; the client
keeps what a PING_RES brings, sends SYN until some datagram of the server makes a conversation, and every
new conversation's looper starts with a hello, on both sides. Any datagram marks its conversation online
and just heard; a conversation that was silent for 5 s is sent SYNs, and the cleaner marks it offline.

### What is hard

* **Order.** Nothing above the ARQ restores the order of packets, so a result can be handled before its
  question, a request before the hello of its sender, and responses at any time.
* **Repetition.** A packet that arrives again after it was processed is processed again; every handler
  must bear being called twice with the same message.
* **Loss and timing.** Datagrams are lost, repeated and reordered; the acknowledgement leaves before the
  packet is stored; a retransmission and a NAK race the acknowledgement and both reset `AckReceived`.
* **Coming and going.** `participants` is fixed while clients appear, go silent, come back and leave, and
  while the server itself dies and starts again with empty maps.
* **Identity.** A client pings until it has an ID, so several PING_RES may be under way; each has a
  goroutine that checks and then assigns. The last one wins, after the first was used.
* **Arithmetic.** The early call compares votes with votes missing; ties and simultaneous winners.
* **Locks.** Some of the presence state is read and written without a lock; loopers hold several locks
  at once.

### What makes each component correct

* *Referendum manager.* The counters match the ballots (`TallyMatchesBallots`); a vote is called exactly
  when it can be (`OngoingUndecided`, `FullTurnoutCloses`, `Closes`) and for the right option
  (`NearPlurality`; the README of the repository promises `EarlyCallIsFinal`); all nodes end with one
  verdict (`AgreementUnlessReopened`; the README promises `Agreement`), keep it (`VerdictStands`) and get it
  (`VotersLearn`; the README promises `ParticipantsLearn`); and all that happens is what `Referendum` allows
  (`ImplementsReferendum`).
* *ARQ.* What is acknowledged is in the receiver's hands (`AckedIsReceived`) and stays acknowledged
  (`AckedStaysAcked`); the window leaves nothing unacknowledged behind (`BehindWindowIsAcked`), bounds what
  is in flight (`WithinWindow`) and drains (`WindowDrains`); the receiver handles nothing that was not
  queued (`KeepsChannel`); together, every message is delivered (`ImplementsAtLeastOnce`). The comments in
  the code promise `ProcessedOnce` and `GapsAreNAKed`.
* *Presence and session.* A client that stays ends with one ID and is a participant again and again,
  whatever happened to its first ID, its ACKs and its `online` (`TakesPart`); a conversation that no process
  has ends offline, so that later referendums do not wait for it (`GhostsLeave`); and what referendums read
  changes only as `VoteManager` says (`ImplementsPresence`).
* *Locks.* Everybody takes them in one order (`KeepsLockOrder`), so nobody waits in a circle
  (`NoCircularWait`), loopers go on for ever (`LoopersGoRound`), and the map of conversations is not written
  while a goroutine that takes its lock reads it (`MapGuarded`).

## 2. The modules

```
Referendum   <-- refines --  VoteManager  -- relies on -->  AtLeastOnce  <-- refines --  SelectiveRepeat
                                 ^
                                 | refines (presence part)
                              Session

LockOrder    <-- refines --   Locks           both EXTEND NodeLocks

TLC:    MCVoteManager  MCSelectiveRepeat  MCSession  MCLocks
TLAPS:  AgreementProofs  -- EXTENDS -->  VoteManagerProofs
                         -- INSTANCE -->  ReferendumProofs  -- EXTENDS -->  Referendum
        LocksProofs  -- INSTANCE -->  LockOrderProofs        SelectiveRepeatProofs  SessionProofs
```

**`Referendum.tla`**, abstract: for each vote an electorate, ballots, a verdict, who was told which verdict,
and who learned one. No messages, counters or locks. A ballot is final, the verdict is drawn from the ballots
once, when the electorate is told it, and a node learns one verdict that it was told, and keeps it. Two steps
are there because the code makes them: a vote in `Repeats` may be opened again, from nothing, and with
`Restarts` all votes may be forgotten; what was told and learned stays. `opened` and `reopened` record it.

**`VoteManager.tla`** is `vote_manager.go`.

| variable | code |
|---|---|
| `conversations`, `features`, `online` | the server's `conversations` map, and of each conversation whether `features` holds `simple_eval` and `online` is set; `alive` is which client processes run, `contacted` which have met a server, so that `client_connect` has started their command line |
| `h_referendums` | the map of that name. `participants` and `who` are the keys of the maps of those names. `votes` is total, a missing key counts 0. `result` keeps its initial `SYNTAX_ERROR` until the call |
| `c_referendums` | the map of that name, one for each client; the question is the VoteID |
| `sent`, `undelivered` | the messages handed to conversations, and those that were not handled since |
| `opened`, `reopened` | history: the votes whose request was handled, and was handled again. No guard reads them |

There is one action for each handler. A handler runs with `h_referendums_lock` (server) or
`c_referendums_lock` (client) held from the lookup to the last broadcast, so it is atomic with respect
to every other step that reads what it writes. `copyConversationsMap` reads `features` and `online`
one conversation after the other while they may change; the set it builds is one that the model reaches
too, since the presence of different clients changes independently. Evaluation of the expression is
abstracted to the answers it can give: every client has the same expression, a malformed one is a
`SYNTAX_ERROR` everywhere, and of a good one any client may answer SAT or UNSAT, for `defect_constant`
lets it flip. Which option becomes the result when several qualify is a choice, because Go ranges over
the map of votes in random order and the last winner met stays.

`ServerRestarts` empties the server's maps. What clients have not got acknowledged stays under way, and so
do copies of what the first server sent; the clients keep their IDs and referendums and become conversations
of the new server with their next packet.

The channel is the one that `SelectiveRepeat` implements: every message may be handled, in any order, again
at any later time. `Repeats` bounds this in one place only: it is the set of votes whose *request* may be
handled again. In the code that is every vote; the theorems hold for every `Repeats`, the runs say which they
use.

**`AtLeastOnce.tla`**, abstract: a message that is sent is delivered, in any order, maybe again.

**`SelectiveRepeat.tla`** is the ARQ of `conversation.go`, from one sender to one receiver.

| variable | code |
|---|---|
| `nextPcktNum`, `windowStart` | the fields; `outgoing` is the set of numbers below `nextPcktNum`, since nothing is ever removed from it |
| `acked` | the packets of `outgoing` with `AckReceived` set |
| `looper` | which of its two functions the sender's looper calls next |
| `net` | datagrams in flight, in both directions |
| `handlers` | goroutines of the receiver between the ACK and `incoming_lock` |
| `incoming`, `lastPcktReceived` | the fields |
| `processed` | history: the packets that were handled |

`LastSent` is not modelled: `checkForRetransmissions` may send any of the packets it looks at. The
socket may fail on any packet. `Window` computes its end modulo `Modulus`, as uint32 does.

**`Session.tla`** is how one client process gets into the server's votes and out of them.

| variable | code |
|---|---|
| `conversation_id_self`, `synID` | the variable of the client, and the ID that `client_connect` put in `synPckt` |
| `checked` | PING_RES goroutines between the test at `listener.go:83` and the assignment at `:84` |
| `contact`, `helloWaiting`, `greetings` | the client's conversation: not there, made, its looper running; a hello in `incoming`; the IDs in the hellos and hello_backs of `outgoing` that have no ACK. The ID is put into a packet when it is queued, and read again for each SYN and ACK |
| `offered`, `late` | PING_RES under way; datagrams of the client that are late: SYN or SYN_ACK, ACK, hello or hello_back, each with its ID |
| `generatedConvIDs`, `conversations`, `features`, `online` | as in the server; `features` and `online` as sets of conversations |
| `hellos`, `incoming` | server conversations whose packet 0, the hello, has no ACK; those with a greeting waiting for `incomingProcessor` |
| `silent` | those whose `LastOnline` is more than 5 s ago |
| `doomed` | the conversation that passed the cleaner's test at `global.go:152` and is to be written at `:154` |

No lock guards this state, so each check and the write after it are separate actions. An ACK says which
packet, not of which stream: after an ID was overwritten the client's ACK for one conversation's hello
counts in the other, at once or late (`Acknowledged`). Copies of a greeting may arrive after its ACK, and after
the process that sent it has ended. `missedSYNs` is left out. It is increased and reset by goroutines without a lock, so its
value proves nothing, and the cleaner's test may succeed for any silent conversation. A datagram of the
client arrives at once, late or never; one of the server at once or never, but is repeated.

**`NodeLocks.tla`** names the mutexes and their levels; **`LockOrder.tla`**, abstract: goroutines that wait
only for locks below all they hold. **`Locks.tla`** has the loopers, one for each conversation, and the
goroutines of `handleIncomingPackets`. A goroutine is the sequence of what it has left to do in this round:
lock, unlock, range over the map of conversations or add to it. `Routines` are those sequences, composed as
the functions of the code call each other, with `defer` as the unlock at the end; a broadcast is a
sequence given by its index, so that proofs need no recursion. Which handler runs, how far
it gets and in which order it broadcasts is chosen when the round starts.

## 3. Runs

| run | instance | shows |
|---|---|---|
| `vote_once` | 4 clients, 1 vote, its request handled once, everything else any number of times; `c3` and `c4` join late, fall silent, come back | the tally, the call and agreement, the refinement of `Referendum`, and under fairness that the vote closes and every counted voter learns the verdict |
| `vote_again` | 2 clients, 2 votes, one malformed; everything may be handled again, but for the malformed vote's request; `c2` may leave; the server may crash and start again, any number of times | the tally, the call and a recorded verdict survive repeated requests, questions, responses and results, and the second server; clients agree on what was not reopened; the refinement of `Referendum` with votes reopened and forgotten |
| `vote_disagree` | 2 clients, everything may be handled again | *violation of* `Agreement`: a repeated request reopens a closed vote |
| `vote_sway` | 3 clients | *violation of* `EarlyCallIsFinal`: two for, one against, and the minority may be named |
| `vote_unlearned` | 3 clients | *violation of* `ParticipantsLearn`: the result overtakes the question and is dropped |
| `vote_timeout` | 2 clients, one leaves | *violation of* `Closes`: nobody ever calls the vote |
| `arq_window` | window 2, 3 packets, NAKs | safety of both windows, and of the channel they make, when datagrams arrive at any time, any number of times |
| `arq_live` | window 2, 2 packets, lossy | `WindowDrains` and the refinement of `AtLeastOnce`, under fairness |
| `arq_twice` | window 2, 2 packets | *violation of* `ProcessedOnce`: the duplicate check looks only at packets still waiting |
| `arq_gap` | window 3, 3 packets | *violation of* `GapsAreNAKed`: the packet is compared with itself |
| `session` | one client, two IDs, datagrams of the client with `i1` may be late, one at a time | `TakesPart` and `GhostsLeave` under fairness, and the refinement of the presence part of `VoteManager` |
| `locks` | 2 conversations, 1 datagram at a time, every handler | the lock order, hence no circular wait; the map is guarded; no deadlock; under fairness every looper comes round |

A violation run states what a comment, or the repository's README, says of the program; `PROJECT.json`
quotes it under `findings`.

### Bounds, and why they are enough

* *Clients.* Four is the least number with which two options can hold two votes each, one option can win
  with votes missing, and one client can be no participant while three others vote. Three suffice for a
  split vote (`vote_sway`) and two for a disagreement. The proofs cover any finite number.
* *Repeats.* Requests of `vote_once` are handled once: with a repeated one its four clients have millions of
  states. `vote_again` has two clients, a repeated request and one that is not. The theorems have no such
  bound. *Liveness* is checked for a request that is handled once, and needs it: when a request is handled
  again the counters start from 0, clients that have answered do not answer again
  (`vote_manager.go:146`), and the vote may stay open for ever with nobody having left. So `Closes` and
  `VotersLearn` are no promises of the program, which repeats requests; `vote_disagree` reports the step at
  fault by its effect on `Agreement`, and `Closes` is shown violated in `vote_timeout` alone.
* *Votes.* Handlers touch one VoteID only, and votes share nothing but presence. Two are used in
  `vote_again`, where one is malformed and the other is not, so that all three answers occur.
* `Askers`, `Unsteady` and `Mortal` name the clients that ask, whose presence changes, or who may leave; the
  others are steady. The presence of different clients does not interact. With two unsteady clients of four,
  two may join the electorate or not, and fall silent before or after they answered. In `vote_again` the
  restart makes the presence of all clients start from nothing.
* *IDs.* Two PING_RES are what it takes to overwrite an ID; a third would repeat it. `Slow`: the ID
  that is late is the one whose ghost is of interest, whichever is drawn first. `MaxLate`: one late datagram,
  of any type, is under way at a time; when it has arrived or is lost there may be another.
* *Goroutines.* Two loopers and a datagram meet in every lock there is: both loopers in handlers that broadcast
  to both, and a datagram for either. For more of them there is the proof.
* *Packets and window.* Three packets through a window of two make the window slide while packets on both
  sides of its edge are in flight; `arq_gap` needs three. `arq_live` has two packets in a window
  of two: either may be lost, and the second acknowledged long before the first. `Modulus` is above all
  numbers used, as 2^32 is above any that a session reaches: after 2^32-5 packets in one conversation the end
  of the window wraps, the loops over it have no iterations and the sender stops.
* `Lossy = FALSE` in `arq_window`: datagrams are never removed from `net`. A lost datagram is then one
  that never arrives, and a repeated one arrives twice, so no behaviour of interest to a safety property
  is missing, with fewer states.
* `PeerNAKs` lets a peer with a working gap check send NAKs, which this receiver never does (`arq_gap`);
  without it the handler of NAK would never run and `AckedStaysAcked` would be about nothing.
* The `VIEW` of `vote_again` leaves `undelivered` out: of it guards read only the requests that are handled
  once, and such a request is in it exactly until its vote is in `opened`.

CHECK_DEADLOCK is off in the vote manager's runs: with a fixed number of votes everything may be asked,
answered and learned, and then nothing is left to do. It is off in `session`, where a client may leave and
its conversations go silent and offline for good. It is on in `locks`.

### Fairness, and why the code justifies it

`VoteManager!FairSpec` has weak fairness of the first handling of each message whose client lives. It is
what `ImplementsAtLeastOnce` gives, and loopers and goroutines run for ever. There is no fairness of a
user's request, nor of presence: nobody has to ask, leave or come back, and a vote closes even if a client
stays marked offline, because messages still pass.

`SelectiveRepeat!FairSpec`: weak fairness of `checkForRetransmissions`, `ARQ_Store` and
`incomingProcessor`, which are the steps of goroutines that are always scheduled again; Go's random map
order does not pass over an entry for ever. Strong fairness of the arrival of a datagram that is sent
again and again, the usual assumption of a lossy channel, and of `sendWindowPackets({})`, which is that
the socket does not fail every time. No fairness of `Queue`, `ReceiveNAK`, `PeerSendsNAK` and `Lose`.

`Session!FairSpec`: weak fairness of the loops and goroutines (`Scheduled`); of the arrival of what is
repeated until it is answered, PING, SYN, hellos and greetings, as above, and of the end of late datagrams, which arrive or are lost
(`Delivered`); and of the clock (`Timed`). Nothing makes a client leave, a user send a hello, or a second ID be assigned. `Timed` makes
every conversation silent again and again, which is the bad case for `TakesPart`: a conversation that is
heard all the time is never touched by the cleaner. The cleaner itself is strongly fair because it looks at
every conversation in each of its rounds.

`Locks!FairSpec`: goroutines are scheduled, so `Release`, `Access` and the next round of a looper are weakly
fair. `Acquire` is strongly fair, which is the starvation mode of Go's `sync.Mutex`: a waiter that was passed
over for 1 ms is handed the lock next. Datagrams need not come.

## 4. Proofs

Every safety property that a passing run checks is also proved, for every value of the constants: all
invariants, both action properties, and of each refinement the initial states and the steps. The instances of
section 3 and the theorems are about the same definitions.

### The vote manager

For any finite set of clients, any votes, any presence, any repetition of messages, with or without restarts:

| theorem | says |
|---|---|
| `TypeCorrect` | `Spec => []TypeOK` |
| `TallyCorrect` | `Spec => []TallyMatchesBallots` |
| `OngoingUndecidedCorrect` | `Spec => []OngoingUndecided` |
| `NearPluralityCorrect` | `Spec => []NearPlurality` |
| `FullTurnoutClosesCorrect` | `Spec => []FullTurnoutCloses` |
| `VerdictStandsCorrect` | `Spec => VerdictStands` |
| `ReferendumImplemented` (`AgreementProofs`) | `Spec => ImplementsReferendum` |
| `AgreementCorrect` (`AgreementProofs`) | `Spec => []AgreementUnlessReopened` |
| `OneVerdictLearned` (`ReferendumProofs`) | of `Referendum`: `Spec => []Agreement` |

They rest on the assumptions of `VoteManager` alone: `Clients` is finite, `Malformed`, `Unsteady` and
`Mortal` are subsets of what they name, and `NoReferendum` is a value of its own: no referendum, no answer,
no set of clients. TLC gives it a model value. The finiteness is a fact of any run of the server.

*The tally.* `TallyMatchesBallots` is not inductive by itself. That two options do not count the same
client is a fact about messages: a client answers a question only when it has no entry for it, keeps its
entry for ever, and records there the answer it sent. `AnsweredOnce` says so (a client's response in `sent`
implies that the client has an entry, and there is at most one response of each client to each vote);
`TallyInv`, which is `AnsweredOnce` with `TallyMatchesBallots`, is inductive on top of `TypeOK`. Then the
counters are cardinalities of disjoint sets that make up `who`, the sum of the counters is the
number of counted clients, and `Missing` is the rest. `HostStep` reduces the work: a step changes one hosted
referendum, by replacing it or by adding one ballot, or none; a restart of the server forgets all of them and
changes no message and no client, which is why the argument about messages goes through.

*The call.* `CallInv` (`OngoingUndecided` with `NearPlurality`) is inductive given `TallyInv`: a call happens
with the first ballot that takes an option above the missing votes, until then no option exceeds them, and the
ballot that calls lowers the missing by one; so two winners differ by at most one vote. `FullTurnoutCloses`
follows from `OngoingUndecided` and `TallyInv`: with none missing and somebody counted some option has a
vote. `VerdictStands` is an action property of `handle_result_from_server` and
`handle_new_question_from_server` alone.

*The refinement.* A step of the vote manager is a step of `Referendum` or leaves what it sees as it was. The
mapping reads a ballot out of the response that was sent, `BallotsAreAnswers` says that there is just one, and
`BallotsMatchCounters` that the abstract count is the server's counter; who was told what is read out of the
results that were sent. `OpeningInv` is what the channel adds: a vote is requested by one client
(`RequestedOnce`), while a request waits for its first delivery its vote was not opened (`OpenedLater`), and
only what was requested is opened (`OnlyRequested`); so a vote that is opened again is one of `Repeats`. A
restart is `Forget`. Nothing is assumed of what the transport repeats, or of when the server restarts.

*Agreement.* The verdicts of two clients may have been recorded at any two times, so what has to be inductive
is about all that was ever told. In `Referendum` that is short (`ReferendumInv` of `ReferendumProofs`): of a vote
that was not reopened all were told the same, and nobody anything before it was opened or while it is
uncalled; and who learned something was told it. `OneVerdictLearned` follows, and the refinement carries it
over to the vote manager: `AgreementCorrect` needs no invariant of messages of its own. The votes in
`reopened` are left out, and must be, as the run `vote_disagree` shows.

### The ARQ

`SelectiveRepeatProofs.tla`, for any window, any number of packets below `Modulus`, any loss, with or without
NAKs:

| theorem | says |
|---|---|
| `TypeCorrect` | `Spec => []TypeOK` |
| `AcknowledgedIsReceived` | `Spec => []AckedIsReceived` |
| `AckedIsFinal` | `Spec => AckedStaysAcked` |
| `WindowLeavesAcked` | `Spec => []BehindWindowIsAcked` |
| `FlowControl` | `Spec => []WithinWindow` |
| `ARQKeepsChannel` | `Spec => KeepsChannel` |

`AckedIsReceived` covers the ACKs in flight and is inductive given that what a goroutine, `incoming` and
the history hold only moves from one to the next. `WithinWindow` needs `NAKsWithinWindow`: a NAK makes the
sender send, so those in flight must be within the window too. `KeepsChannel` needs `OnlyQueuedArrives`: every
DATA in flight, and every packet the receiver has, is in `outgoing`. The number of packets and the window are
below `Modulus`, each by itself: the end of the window may wrap. The sender then stops, but none of these
properties is lost.

### Session

`SessionProofs.tla`, for any IDs and any that may be late:

| theorem | says |
|---|---|
| `TypeCorrect` | `Spec => []TypeOK` |
| `PresenceImplemented` | `Spec => ImplementsPresence` |

`TypeOK` says that nothing is done under an ID that was not drawn. It becomes inductive with `KnowsItsID`: a
client that has a conversation, or a SYN to send, has an ID. `ImplementsPresence` is then proved action by
action: each is `NewConversation`, `HelloProcessed`, `GoOffline` or `ComeBack` of `VoteManager`, or changes
nothing of presence, where the check and the write of the cleaner are two steps and a datagram may come
between.

### Locks

| theorem | says |
|---|---|
| `LockTypeCorrect` (`LockOrderProofs`) | `LockSpec => []LockTypeOK` |
| `NoDeadlock` (`LockOrderProofs`) | `LockSpec => []NoCircularWait` |
| `TypeCorrect` (`LocksProofs`) | `Spec => []TypeOK` |
| `MapAlwaysGuarded` (`LocksProofs`) | `Spec => []MapGuarded` |
| `LockOrderKept` (`LocksProofs`) | `Spec => KeepsLockOrder` |
| `NoDeadlock` (`LocksProofs`) | `Spec => []NoCircularWait` |

They hold for any number of conversations and datagrams; `LocksProofs` assumes that the conversations are
finitely many, so that an order of some of them is a sequence, and both assume that `None` is neither a
goroutine nor a lock.

*The order.* That nobody waits in a circle is not inductive, since the goroutine that closes a circle may
have taken its locks long before. `Descending` is: who waits for a lock holds higher ones only. In a circle
everybody then waits for somebody who waits for a strictly lower lock, and levels end at 0.

*The code keeps it.* `Orderly(held, s, after)` says that the steps `s` may be done by who holds `held`, each
lock below all that are then held, each unlock of a held lock, each access to the map under
`conversations_lock`, and that they leave `after` held. It is stated with the locks held between the steps, as
a function, and so needs no recursion. `OrderlyThen` composes routines in sequence and `OrderlyLocked`
one inside a lock, so each routine of the code is shown to be orderly from those it calls, a broadcast to any
number of participants included. The inductive invariant, `LocksInv`, is that what every goroutine has left to
do is orderly from what it holds, and ends with nothing held. All four theorems follow: the third is a step by
step refinement, and the fourth is the theorem of `LockOrderProofs` carried over by it. TLC cannot
evaluate `LocksInv` (it would enumerate sequences of sets of locks); it checks its consequences.

### Model-checked only

*Liveness*: `Closes`, `VotersLearn`, `WindowDrains`, `TakesPart`, `GhostsLeave`, `LoopersGoRound`, and the
fairness half of `ImplementsAtLeastOnce`, whose safety half is `KeepsChannel`. The provers have neither
ENABLED nor reasoning about fairness. The violation
runs are counterexamples and stay with TLC.

## 5. What is not modelled, and why

* *Encoding, checksum, magic* (`packet.go`, `pip.go`): functions over bytes. A datagram that fails
  verification is dropped, which `Lose` covers.
* *Oversized questions*: a message above the body limit is dropped by its sender. In the model it is a
  request that is never made.
* *Fragments*: the receiver has code for packets of several fragments, no sender makes them.
* *Command line*: printing and parsing. The rates of loss and duplication weigh what the network may do
  anyhow; the defection rate weighs answers that may occur anyhow.
* *The map of conversations ranged over without its lock.* The cleaner (`global.go:150`) and the client's
  command line (`Brainloop.go:83`, `:211`) range over the map while a datagram may insert
  (`listener.go:100`). Go stops the program when it notices. `MapGuarded` is about all the others; the
  crash itself is `ServerRestarts` or `Disconnect`.
* *Two streams under one ID.* After a restart of the server, or an overwritten ID, one client identity has two
  conversations whose packets are numbered from 0 each. `Session` has what that does to the hellos. What it
  does to later packets, an ACK taken for another stream's packet, would need two `SelectiveRepeat` in
  one state space; so `VoteManager` assumes for the second server, too, that a message it sends is delivered.
  This matters to liveness only, which is checked without restarts.
* *Torn reads* of `conversation_features`, assigned and read under different locks.
* *A peer that does not run this program.*
* `client_UDP_ARQ_2.go` is one comment and `tcp_test/` says of itself that it is no part of the project.

## 6. Plan

Done, in this order: `Referendum`, `VoteManager`, `AtLeastOnce`, `SelectiveRepeat`, `VoteManagerProofs`, then
the restart of the server in `VoteManager`, `Session`, `Locks` with `LockOrder`, `LockOrderProofs`; then
`SelectiveRepeatProofs`, `AgreementProofs`, `ReferendumProofs`, `SessionProofs`, `LocksProofs`. No safety
property that a passing run checks is left without a theorem.

1. *What the repository's README promises, under a hypothesis.* `EarlyCallIsFinal` fails at a lead of one;
   that a verdict called with a lead above the missing votes is final would be a theorem about `winners`.
2. *A goroutine that can go on.* `NoCircularWait` with `TypeOK` implies that as long as somebody who runs
   has something left to do, somebody can do his next step. It needs that who holds a lock runs.
3. *A reopened vote that stays open*, as a run of its own: `Closes` with the request repeated and nobody
   leaving.
