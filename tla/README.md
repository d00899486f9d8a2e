# Verification of Cornus2

Cornus2 is a C++ implementation of the Cornus atomic commit protocol over a
simulated disaggregated DBMS. Two variants exist: the one of the paper
(`PAPER_VERSION`, `Coordinator.h`, `Participant.h`), which logs every vote
before it is sent, and a new one (`NEW_VERSION`, `Coordinator2.h`,
`Participant2.h`, `Replicator.h`, `Committer.h`), which answers the client
before anything is logged and lets `f` replicators stand in for the
coordinator. This directory holds TLA+ models of both, TLC configurations and
TLAPS proofs. Paths below are relative to `src/Cornus/include` unless they
begin with `src/`.

## 1. The system

| Component | State | Operations | Correct when |
|---|---|---|---|
| Paper coordinator (`transactionHandlers/Coordinator.h`) | `decision`, count of votes, message queue | send VOTEREQ, count votes, time out into the termination protocol, send the decision, answer the client | it commits only on everybody's VOTEYES; it ends |
| Paper participant (`Participant.h`) | `decision`, worker, queue | vote (LOG_ONCE VOTEYES), wait, time out into the termination protocol, LOG_WRITE the decision, `worker.COMMIT` | its vote stands once logged; it applies only a durable COMMIT |
| Paper termination protocol (`TransactionHandler.hpp`) | index of its loop | LOG_ONCE("ABORT") on the log of each participant in turn | its answer is everybody's answer |
| New coordinator (`Coordinator2.h`) | as above, plus the background thread of `finishTransaction` | vote, WILLCOMMIT to replicators, answer the client, then log, DECISIONCOMPLETED, decision | a COMMIT is unanimous, and survives the coordinator |
| New participant, termination, `logFinal` (`Participant2.h`, `TransactionHandler2.hpp`) | `decision`, `prev` | vote, wait ten timeouts, LOG_READ and then LOG_WRITE | an ABORT of its own is final or made good |
| Replicator, Committer (`Replicator.h`, `Committer.h`) | queue | wait for DECISIONCOMPLETED, otherwise `logFinal`; apply after OVERRIDECOMMIT | it completes what the coordinator left |
| `GlobalMessageHandler` (`messaging/GlobalMessageHandler.hpp`) | maps txid to handler, under `mapMutex`; `transactionCounter` | one detached thread per message; create, look up and remove a handler; issue ids | a message reaches the handler of its transaction; ids are unique |
| `MessageQueue` (`messaging/messageQueue.hpp`) | deque, deadline | push, wait with a deadline | FIFO, a wait ends |
| `Sender` (`transactionHandlers/Sender.hpp`) | TCP clients | one thread per target, results dropped | everybody has been tried before it returns |
| DBMS log (`src/DBMS/include/log.hpp`, `logManager.hpp`) | one value per txid and host | LOG_READ, LOG_WRITE, LOG_ONCE, each under a mutex | LOG_ONCE: the first value wins, and the caller learns it |
| DBMS client (`messaging/dbms.hpp`) | HTTP client | the same three, blocking | a request that returns has happened |
| TCP (`messaging/tcp.hpp`) | buffers, connections | send a request, await a response; cut requests out of a buffer | a request is decoded as it was encoded |
| `HostConfig`, `TransactionConfig` (`config/`) | replicators, participants | choose the `f` next hosts; write and parse a config | `f` distinct other hosts |
| Worker (`worker/`) | - | VOTE_REQ, COMMIT | - |

A client sends a transaction to a node, whose HTTP worker thread creates the
coordinator and runs it (`onClientRequest`). Requests between nodes go over
TCP: the receiver answers OK at once and handles the request on a detached
thread (GlobalMessageHandler.hpp:45-68), which creates a handler
(`onNewRequest`) or pushes into the queue of one (`onOldRequest`). Handlers
share nothing but the DBMS.

The hard behaviours follow from that. Messages of one sender overtake each
other, and one that finds no handler disappears. A failed send looks like a
successful one. A node that is only slow is treated as dead by the others, who
act on its log while it goes on. Processes die between any two steps, and no
code recovers a handler. In the new variant a log is read and written in two
requests, by two threads of one host. `PROJECT.json` lists each of these at
its line, with the properties that watch it.

## 2. Modules

| Module | Models |
|---|---|
| `TransactionLog` | a `TransactionLog`: `LogOnce`, `LogWrite`, `LogRead` on a cell that starts as WORKING |
| `AtomicCommit` | abstract: one vote per participant that never changes, outcomes that are a function of the votes |
| `PaperCornus` | the PAPER_VERSION for one transaction, `N` participants |
| `NewCornus` | the NEW_VERSION for one transaction: coordinator, participants, replicators, committers |
| `HostConfig` | the choice of replicators in the constructor of `HostConfig`, with a reference definition |
| `LogRequest`, `DbmsLog` | the DBMS at the grain of its locks: an HTTP thread per request, lookup of the log under `logMutex`, the operation under the lock of the log, the copy of the answer after it |
| `RegularLog` | abstract: what `DbmsLog` promises of one log |
| `TcpConnection` | `TCPClient::sendRequest` and `TCPServer::handle_connection`: frames, pieces of any length, the buffer |
| `MessageHandler` | the thread of each request, `mapMutex`, the three maps, `MessageQueue` with its condition variable |
| `CornusNode` | composes the two: the receiving side of a node, with several transactions |
| `Delivery` | abstract: how messages reach handlers, as `PaperCornus` and `NewCornus` assume |
| `TransactionId` | `getUniqueTransactionId` on the threads of several nodes, with widths and the unsynchronised increment |
| `MC...` | sets for the constants of the TLC runs |
| `PaperCornusProofs`, `AtomicCommitProofs`, `NewCornusProofs`, `TransactionIdProofs`, `DbmsLogProofs`, `TcpConnectionProofs`, `CornusNodeProofs`, `DeliveryProofs` | theorems and proofs |

`PaperCornus`, `NewCornus` and `LogRequest` EXTEND `TransactionLog`;
`CornusNode` EXTENDS `TcpConnection` and `MessageHandler`. Three modules
INSTANCE an abstract specification under a refinement mapping: `PaperCornus`
`AtomicCommit`, `DbmsLog` `RegularLog`, and `CornusNode` `Delivery`.

The layers meet in these abstractions. The protocol modules take a DBMS
request as one step; `RegularLog` says when that is right: a request takes
effect at once, and its answer is a value that the log has held since. It also
says when it is not: an answer may be torn if the log has changed since.
`VoteSettledOnce` is what the paper variant draws from it, and holds with the late
copies. The protocol modules take a message from `net` in any order, once, and
give it to the handler of its transaction if there is one; `Delivery` is that
assumption, and `node` checks, and `DeliveryProofs` proves, that threads, buffers
and maps fulfil it.

### How state and actions correspond to the code

* `pc[n]` is the place of the handler's thread in `handleTransaction` (for a
  participant also in `terminationProtocol`). `idle`: not created yet;
  `done`: removed from the map. In `NewCornus`, `fin[h]` is the second thread
  that a host may have for the transaction: the coordinator's background
  thread or a `Replicator`; both run `logFinal`.
* `decision`, `votes`, `prev`, `scan` (the loop index) and `unsent` (the
  targets of `Sender::send` whose thread has not run) are local variables.
  `log` is the DBMS, `applied` the hosts whose `worker.COMMIT` has run,
  `reply` what the client got.
* `net` holds a message from the `sendRequest` that carries it until the
  detached thread of the receiver has run. It is a set: a host sends a message
  of a given type to another at most once per transaction
  (`ClientRequest` happens once, and every send is passed once).
* `queue[n]` is the `MessageQueue`. Also a set: the coordinator counts votes
  in any order, a participant takes one message only, and detached threads
  push in any order anyway.
* Every action is a stretch of code from one visible effect to the next: a
  request to the DBMS, a message sent or taken, an answer. The caller of a DBMS
  request blocks until the reply is there and nobody sees when that is, so the
  request and its reply are one step. In `NewCornus` the LOG_READ and the
  LOG_WRITE of `terminationProtocol` and `logFinal` are separate steps, as in
  the code.
* `DbmsLog`: `logs` is the entry of the address in the map, `found` the
  reference that `getLogPair` has returned; both name a LogPair by the client
  whose request made it. An assignment of the string has a beginning and an
  end, and so has a copy; a copy that overlaps an assignment may be the old
  value, the new one or `Torn`. `held` is a history variable.
* `TcpConnection`: a frame is a sequence of tokens: endpoint, tab, txid with
  sender, one token per stretch of config, newline. `recv` returns any number
  of them. `MAX_MESSAGE_SIZE` is 7 tokens, such that the shorter VOTEREQ of a
  long config fits and its WILLCOMMIT does not (tcp.hpp:527).
* `MessageHandler`: `at[m]` is the place of the detached thread of request `m`;
  if `m` makes a handler, the thread goes on to run it and is its name.
  `creating` spans the constructor, which connects to the coordinator under
  `mapMutex`. What a handler does besides waiting is left to the protocol
  modules; it takes `Needs` messages, or fewer if one is an ABORT or a wait
  times out.
* Worker: `VOTE_REQ` is a choice from `WorkerVotes`; `{TRUE}` is the
  `AcceptAllWorker` of the builds, `BOOLEAN` any `WorkerImpl`.

### Faults

* `MayTimeOut`: whose wait may end at its deadline. A timeout needs an empty
  queue (messageQueue.hpp:19-44) and may otherwise come at any time: there
  are no clocks in the models, so a slow host and a dead one look alike.
* `MayCrash`: a process dies with its threads and queues, after any step. It
  also stands for a failed DBMS request, whose result is dereferenced
  unchecked (dbms.hpp:74-106). A restart needs no action: handlers live in
  memory, no code restores them, and a host whose handler was not created yet
  takes part as if it had never been down.
* `Lossy`: a `sendRequest` fails. Nobody looks at its result
  (Sender.hpp, `resolveFutures`, `sendToCoordinator`).
* `Patient` (`NewCornus`): an assumption about delays, namely that ten timeouts
  outlast everybody else, which is what Participant2.h:31 hopes for. No code
  ensures it: line 32 only waits, and nothing bounds how long the sends and DBMS
  requests of others take. It excludes that a participant reads its log while
  `logFinal` runs on its host. With `FALSE` a participant may give up at any
  time, and all of `new_faults` and `new_override` is checked like that.

Preconditions, from the drivers in `src/Testing` (basic/client.py:47-49,
benchmark/benchmark.py:61-62): participants are distinct, and the coordinator
is none of them. `assert` is active in the builds.

## 3. Runs

Two participants give every race between a voter, another voter and a
coordinator. Further ones add nothing but longer counts and scans, which the
proofs cover for every `N` in the paper variant and which `paper_healthy` runs
with three. Three kinds of host are enough for the new one: a participant that
is a replicator, one that is not, and a replicator that is no participant.
Each run chooses the faults of its question; one transaction, one client
request.

| Run | Instance | Shows |
|---|---|---|
| `paper_faults` | 2 participants, any votes, all crash, time out, messages lost; 178 000 states | `Agreement`: no two handlers, and not the client, are told different decisions. `OutcomeInLogs`: whatever anybody was told is what the logs say, now and later. `AppliedIsDurable`. `LogMonotonic`: logs only go forward, although LOG_WRITE is blind. `ImplementsAtomicCommit`. `HandlersEnd`: no handler waits for ever on one that died (Cornus is non-blocking) |
| `paper_healthy` | 3 participants, no faults | `HealthyCommits`: also when votes overtake VOTEREQs |
| `new_faults` | coordinator 1, participants 0 and 2, of which 2 is the replicator; all faults, participants give up at any time; 134 000 states | `CommitBacked`: a COMMIT in a decision, a log or applied goes back to a unanimous coordinator, so an ABORT answered without any log entry stays true. `AppliedIsDurable`: once `worker.COMMIT` has run anywhere, a log holds a COMMIT that no participant can still overwrite. `CommitStays`: a logged COMMIT is lost only where a participant read the log before it, and never if it replaced an ABORT that `logFinal` had found. `HandlersEnd` for both threads of every host |
| `new_takeover` | both participants are replicators, the coordinator may die, patient; 41 000 states | `ReplicatorsTakeOver`: a COMMIT the coordinator leaves behind before it releases any replicator is applied everywhere. `EndsDurable`: no thread that is to log the COMMIT of the client's answer ends before it is in a log |
| `new_override` | a participant is a replicator, the coordinator may die, participants give up at any time, nothing is lost; 59 000 states | `FoundAbortOverridden`: when the LOG_READ of `logFinal` has found an ABORT, all participants come to apply the COMMIT that replaces it |
| `new_healthy` | no crash or loss; replicators give up early | `HealthyCommits`, and the log says COMMIT |
| `dbms_log` | a voter and three termination protocols, or a participant and the replicator of its host, on one log; 56 000 states | `VoteSettledOnce`: no ABORT beside a VOTEYES, whoever asks and however late its answer is copied. `ImplementsRegularLog`. `Answered` |
| `node` | two connections and the client; two transactions at once, an abort, an own coordinator with two votes, a replicator beside a committer, two replicators that ask for a committer each, a config too long for WILLCOMMIT; senders die at any point; 41 000 states | `NoLostWakeup`: nobody sleeps on a queue with a message. `BufferDrained`: the buffer is cut at the right places, however `recv` splits the stream. `ImplementsDelivery`: messages arrive once, at the handler of their transaction; votes and COMMITs never before it is in the map; a timeout leaves no message behind. `EveryMessageHandled` and `HandlersLeave`: `mapMutex` stops nobody for ever, and the maps end up empty |
| `txid_nodes` | a node with one thread, and one with two threads that restarts; 1 bit for nodes, 3 for the counter | `NodesDisjoint`: nodes never share an id, even with wrapped counters. `FreshIds`: a node serving one request at a time repeats no id before the shift has used up its counter |
| `new_unheard`, `dbms_readers`, `txid_format` | see below | the code differs from what its comments say |

The runs of `MCNewCornus` also evaluate `RingAssumption`: for all groups of up
to five hosts, `ReplicatorsOf` gives the `f` next hosts of the ring. It is an
assumption because it has no state to be an invariant of; the instances take
their replicators from it.

Liveness needs the patience and the replicators it names. In particular
`ReplicatorsTakeOver` is for replicators on the hosts of all participants and
for a coordinator that has released none (`NobodyReleased`): DECISIONCOMPLETED
goes out before any participant is told the decision (Coordinator2.h:65), so a
coordinator that dies in between leaves participants that abort a transaction
whose client was answered COMMIT. `EndsDurable` needs `Patient` as well.

`terminationProtocol` and `logFinal` each read the log of their host and write
it in a second request, whatever it holds by then
(TransactionHandler2.hpp:15-23, 37-40). On a host that is participant and
replicator their four requests come in any order in `new_faults` and
`new_override`. If both have read WORKING before either writes, the last one to
write wins:

* ABORT after COMMIT: the COMMIT is gone from this log, and the replicator ends
  all the same. If the coordinator has died, the COMMIT that its client was
  answered may then be in no log at all, which is why `EndsDurable` needs
  `Patient`. No `worker.COMMIT` has run on its account (`AppliedIsDurable`).
* COMMIT after ABORT: the log says COMMIT, but `logFinal` has not seen the ABORT
  and sends no OVERRIDECOMMIT. The participant has decided ABORT and never
  applies the transaction, unless another host overrides an ABORT that it found.

Both follow from the code, and no document denies them, so they are no
findings. `CommitStays` and `FoundAbortOverridden` hold for every other order:
a COMMIT that was there to be read stays, and an ABORT that was there to be read
is overridden at every participant if no message is lost.

`CHECK_DEADLOCK FALSE` is set for `TransactionId`, which stops at `MaxIssued`.
Elsewhere an ended system stutters in `Quiescent`, so TLC would report any
other state without a successor.

### Bounds

`N` and the sets of hosts; one transaction (`ClientRequest` once);
`NodeBits`, `CounterBits` and `MaxIssued` in `TransactionId`, small enough for
the counter to wrap and the shift to lose bits; four clients of one log in
`DbmsLog`, which is a voter against the termination protocols of the
coordinator and two participants; in `CornusNode` the scripts of two
connections, up to three requests each: every type of request, both orders of
any two, and a second transaction that competes for `mapMutex`. Buffers are
bounded by `MaxMessageSize`, as in the code. Nothing else is bounded.

### Fairness

Weak fairness of the steps of each coordinator, of each participant, of each
background or replicator thread (`FinalStep`) and of delivery. The code
justifies it: handler threads and detached threads are ordinary threads that
the system schedules, every wait has a deadline (a timeout is one of the
handler's steps), and a DBMS that answers lets its caller go on. No fairness is
assumed for the client's request, crashes or losses. Delivery is fair as a
whole, and each delivery or loss empties `net` by one, so every message is handled.

In `DbmsLog` the thread of each request is fair. In `CornusNode` one condition
is enough: if some thread of the node can run, some thread does (`NodeStep`).
Clients may send, stop or close their connection as they like.

### Findings

1. **`new_unheard`, `ReplicatorsHeard`** (TransactionHandler2.hpp:15).
   Participant2.h:31 waits ten timeouts "to ensure that the replicators have
   time to finish". But `terminationProtocol` reads only the log of its own
   host, and `logFinal` ignores its parameter `host` and writes its own host's
   log as well. So a participant without a replicator on its own host waits,
   sees WORKING, and aborts a transaction that a replicator has logged as
   COMMIT and whose client was answered COMMIT.
2. **`dbms_readers`, `NoReadersWhileWriting`** (src/DBMS/include/logManager.hpp:28).
   log.hpp:39 and 47 take a lock that "requires unique writer (no readers
   allowed)". But `LOG_ONCE`, `LOG_READ` and `LOG_WRITE` return a reference to
   the string, and `LogManager` copies it when the lock has been released, so
   a reader may copy while a writer assigns. `VoteSettledOnce` shows that no
   vote becomes ambiguous; a torn answer is possible all the same.
3. **`txid_format`, `HoldsCounter`** (GlobalMessageHandler.hpp:137). The
   comment at 191 gives the counter bits 47-16 of the id;
   `transactionCounter << 16` is computed in 32 bits and keeps 16 of them. Ids
   of a node repeat after 65536 transactions.

The increment of `transactionCounter` (line 139) is not synchronised either, so
two threads of a node can be given one id. No document denies that, so it is
no finding; `txid_nodes` includes the race and shows that other nodes are not
affected.

## 4. Proofs

### The paper protocol

`PaperCornusProofs` proves, for every `N` in `Nat`, every set of worker votes,
hosts that crash and hosts that time out, and with or without loss
(assumptions `NAssumption`, `WorkerAssumption`, `FaultAssumption`, which only
say what kind of values the constants are):

| Theorem | Statement |
|---|---|
| `TypeCorrect` | `Spec => []TypeOK` |
| `AgreementHolds` | `Spec => []Agreement` |
| `OutcomeIsInLogs` | `Spec => []OutcomeInLogs` |
| `AppliedDurable` | `Spec => []AppliedIsDurable` |
| `LogsMonotonic` | `Spec => LogMonotonic` |
| `Refinement` | `Spec => ImplementsAtomicCommit` |

and `AtomicCommitProofs` proves `ConsistentHolds`: the abstract specification
never has a COMMIT beside an ABORT.

None of the properties is inductive: nothing in `Agreement` says why a count of
messages should mean anything. The inductive invariant `IInv` adds it:

* `PhaseInv` ties `decision` to the place in the code, and the client's answer
  to the coordinator's decision.
* `VoteInv` ties a vote to its log entry. Its consequence is the heart of the
  protocol: the first entry of a log settles the vote of its participant, and
  the blind LOG_WRITE comes only where VOTEYES is logged.
* `DecisionInv`: a COMMIT has every vote behind it, an ABORT a participant that
  has refused or can no longer vote yes (`Vetoed`). `Agreement` follows,
  because both are stable and exclude each other.
* The ways to a decision: `ScanInv` (the logs passed by a termination protocol
  hold yes votes), `MessageInv` (a message tells the truth about its sender)
  and, for the coordinator's counting, `TransitInv` and `CountInv`: `votes` is
  at most the number of yes voters whose VOTEYES is no longer on its way, so
  `votes = N` means all of them. This holds with lost messages, since the count
  is bounded and not determined.
* `AppliedInv`: COMMIT is durable where it was applied.

`Refinement` maps a participant's vote to `VoteBar`, which is "no" as soon as
another host's ABORT is the first entry of its log, that is, possibly before
the participant has voted. A step of `PaperCornus` is a vote, a commit or abort
of one decider, or a stutter; the LOG_ONCE("ABORT") that settles an open vote
and the abort that it causes are one abstract step.

### The new protocol

`NewCornusProofs` proves, for all sets of participants (finite) and replicators,
all worker votes, faults and patience:

| Theorem | Statement |
|---|---|
| `TypeCorrect` | `Spec => []TypeOK` |
| `CommitsBacked` | `Spec => []CommitBacked` |
| `CommitsStay` | `Spec => CommitStays` |
| `AppliedDurable` | `Spec => []AppliedIsDurable` |
| `EndsAreDurable` | `NoRace` implies `Spec => []EndsDurable` |

`CommitBacked` speaks of decisions, logs and applied commits only, and a COMMIT
reaches them on many ways: WILLCOMMIT, DECISIONCOMPLETED, COMMIT, an override, a
log that a replicator reads. `CommitInv` names each of them, and says that none
exists before the coordinator has decided; `VoteInv` and `CountInv` count the
votes as in the paper protocol, with `Arrived` for the yes voters whose VOTEYES
is neither in the net nor in the coordinator's queue.

`CommitsStay` and `AppliedDurable` allow the race of participant and replicator
on one log. A COMMIT is `Settled` when it is logged and the participant of the
host is not about to write; every step keeps that (`SettledStays`), since a
participant that reads COMMIT does not write. `AbortInv` says that a log, or the
`prev` of `logFinal`, holds ABORT only where the participant has ended, so the
COMMIT that replaces a found ABORT is settled at once. `AppliedInv` says what may
not exist before a COMMIT is settled somewhere: no override, no COMMIT sent or
queued, no participant that is committing, and no coordinator past its own
`logFinal`, whose log no participant writes.

Only `EndsAreDurable` has the hypothesis `NoRace`: ten timeouts outlast
everybody (`Patient`), or no host is both participant and replicator. It cannot
be dropped, for the race can take away the only logged COMMIT before the
replicator that wrote it ends. Loss, crashes and early timeouts of coordinator
and replicators are all allowed. `LateInv` says that a
patient participant reads and aborts only when nobody is left who could start
`logFinal` (`AllOver`, which is stable), and that the log it is about to abort
holds no COMMIT. `DurableInv` ties the end of a thread to the logs: before the
coordinator's log says COMMIT no DECISIONCOMPLETED exists and its background
thread is at `logFinal` still; a replicator that is past `logFinal`, or was
released, has its own log or the coordinator's.

### The DBMS

`DbmsLogProofs` proves, for any number of clients of a log:

| Theorem | Statement |
|---|---|
| `TypeCorrect` | `Spec => []TypeOK` |
| `Refinement` | `Spec => ImplementsRegularLog` |
| `VoteIsSettledOnce` | `Spec => []VoteSettledOnce` |

The invariant `IInv` says that all threads have found the same LogPair
(`FoundInv`, from `logMutex`), that one assigns at a time (`AssignInv`, from
`decisionMutex`), that what a copy can still meet has been held since the
request took effect (`HeldInv`), and that a copy is torn only between two such
values (`CopyInv`). The refinement mapping lets a request take effect where
its test or its assignment begins (`ValueBar`, `StageBar`); looking up, the end
of an assignment and the beginning of a copy are stutters.

`VoteIsSettledOnce` is then proved about the steps of `RegularLog` alone
(`StepImplements` says which one each step is). `VoteState` lists what the
participant can be at: not settled, settled as VOTEYES or as ABORT, voted,
decided; `Seen(X)` bounds what the terminators have been answered or will be.
The heart is that an unsettled log that is still WORKING has been seen by
nobody, and that only the participant itself changes a settled one.
`VoterAssumption` says what the paper variant guarantees: the log of a
participant has no other writer than termination protocols.

### Transaction ids

`TransactionIdProofs` proves `NodesNeverCollide` (`[]NodesDisjoint`) and
`IdsAreFresh` (`[]FreshIds`) for all widths, threads and restarts. The upper part of an id is a
multiple of `2^NodeBits` even when the shift has overflowed (`Multiple`),
therefore the remainder is the node (`Remainder`, `Disjoint`), whatever a lost
update or a restart has done to the counter. For the second, `Counts` ties the
counter of a node with one worker to the number of ids that it has issued,
as long as these are fewer than `2^(CounterBits - NodeBits)`. The provers know
nothing of powers: `PowerAssumption` states that three of them are positive and
that one is the product of the others. TLC evaluates it in the runs.

### TCP frames

`TcpConnectionProofs` proves, for an endpoint and a body of any length that
contain neither delimiter, that a part of the stream that began with a frame is
a complete request only when it is all of that frame (`FrameComplete`), and that
the server then decodes the request that was encoded and consumes all of it
(`FrameDecodes`). The server looks for the last delimiters in its buffer
(tcp.hpp:247), so both rest on `LastOf`, and on no second frame being in the
buffer. That the latter never happens is a fact about client and server
together: `BufferDrained`.

### A node

`CornusNodeProofs` and `DeliveryProofs` prove, for all connections, messages,
scripts, message sizes and numbers of votes:

| Theorem | Statement |
|---|---|
| `TypeCorrect` | `Spec => []TypeOK` |
| `NeverSleepsOverAMessage` | `Spec => []NoLostWakeup` |
| `BuffersDrain` | `Spec => []BufferDrained` |
| `NodeDelivers` | `Spec => ImplementsDelivery` |

The inductive invariant `IInv` has two halves. `HandlerInv` is about threads,
maps and queues: `TakenInv` (a handler that goes on waiting has taken fewer
messages than it needs, and only an ended one has met its deadline), `MapInv`
(a handler is in the map from its making to its removal, and nowhere else),
`QueueInv` (a queue holds messages whose threads have ended, none twice).
`NodeInv` is about connections: `StreamInv` says that, of the request a client
is sending, the buffer holds the first `k` tokens and the wire the tokens
`k + 1` to `n` (`Cut`), `n` being the whole frame unless the client has died;
`SentInv` that a request has a thread only if it was sent,
and `DueInv` that an answer is sent only after the handler it answers was made.

`NodeDelivers` adds `FreshInv` (nothing is in the queue of a handler that is not
made) and maps a message to unsent, in the net, handled or lost (`Status`): in the net from
`sendRequest` until its thread has found its handler, and lost as soon as its
client has died with a part of it unsent or it was refused as too long.
A step of the node is then one of `Delivery`, or a stutter: receiving a
piece, going to sleep and erasing a map entry are stutters, finding the handler
under `mapMutex` is the delivery. A client that dies takes the one message that
it is sending with it, which is why `Delivery` has that in `Die`.

### Transport and protocol

The theorems do not compose into one: `Delivery` is about one node and many
transactions, `PaperCornus` and `NewCornus` about one transaction and all
nodes. That their `net` and `queue` behave as `Delivery` says is read off their
deliver actions, message by message.

### What the assumptions are

Most say what kind of values the constants are, that sets are finite where they
are counted, that node numbers fit their bits, and that the coordinator is none
of the participants and replicators. The others, and why the code justifies
them:

* `VoterAssumption` (`DbmsLog`), `PowerAssumption` (`TransactionId`): see above.
* `ScriptAssumption` (`CornusNode`): a message names its sender, only clients of
  the HTTP server ask for a transaction, and no sender sends the same message
  twice; each send is passed once per handler.
* `HandlerAssumption`: a node makes one handler of a kind for a transaction,
  except Committers, for which each replicator may ask. Ids that are issued
  twice and a coordinator among its own participants are excluded; section 5.
* `EncodingAssumption`: no body contains a delimiter, being made of a number, a
  type and the names of hosts, and different requests have different bodies.
* `NoRace`: a hypothesis of `EndsAreDurable` only, not of the model; see above.

All but `NoRace` are evaluated by TLC in the runs.

### Only model-checked

Every invariant, action property and refinement that a passing run checks is
proved, under the assumptions above. What is left to TLC:

* Liveness (`HandlersEnd`, `HealthyCommits`, `ReplicatorsTakeOver`,
  `FoundAbortOverridden`, `Answered`, `EveryMessageHandled`, `HandlersLeave`):
  out of the prover's reach.
* `RingAssumption` of `HostConfig`, for all groups of up to five hosts: it sorts
  with an operator as parameter, which none of the provers can instantiate.

## 5. Not modelled

* Two handlers of one txid and kind: a coordinator among its own participants,
  or an id that was issued twice. `MessageHandler` replaces and erases map
  entries as the code does, but no script of `node` sends a VOTEREQ twice, and
  `Delivery` does not describe it. The drivers exclude the first.
* Time: deadlines may pass whenever a queue is empty. How long `mapMutex` is
  held while a constructor connects, and the system clock behind
  `timeoutStart`, are not measured.
* Peers that hang without dying: `sendRequest` has no timeout (tcp.hpp:631);
  the models let every send end. A failed `recv` there wraps the buffer
  pointer (line 632), which is undefined behaviour; the protocol modules let
  such a process lose the message or die.
* Two requests at once on one `TCPClient`, which only a participant that is
  listed twice would cause (Sender.hpp:75).
* `DataLog`: no code of Cornus calls it. HTTP routes, JSON, formatting,
  measurement, set-up of sockets, start-up: I/O without state of interest.
* Vendored `httplib` and `json`, which are 43 000 of the repository's 45 000
  lines; the Python drivers, from which only preconditions are taken.

Every other operation of the repository's own code that changes state is an
action of a module.
