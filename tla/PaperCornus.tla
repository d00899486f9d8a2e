---------------------------- MODULE PaperCornus -----------------------------
(***************************************************************************)
(* The PAPER_VERSION of Cornus, for one transaction: the coordinator       *)
(* (Coordinator.h), its participants (Participant.h), the termination      *)
(* protocol both inherit (TransactionHandler.hpp), the messages between    *)
(* them (Sender.hpp, GlobalMessageHandler.hpp) and the DBMS log of every   *)
(* participant (module TransactionLog).                                    *)
(*                                                                         *)
(* Host 0 is the coordinator and host p is the p-th participant of the     *)
(* TransactionConfig: the termination protocol visits them in that order.  *)
(*                                                                         *)
(* A message is in `net` from the sendRequest that carries it until the    *)
(* detached thread of its receiver has run, so messages are reordered      *)
(* freely.  A request to the DBMS is one step, with its reply: the caller  *)
(* blocks on it, and nobody but the caller sees when the reply arrives.    *)
(***************************************************************************)
EXTENDS Integers, FiniteSets, TransactionLog

CONSTANTS N,            \* how many participants the transaction has
          WorkerVotes,  \* what worker.VOTE_REQ may answer, a set of Booleans
          MayTimeOut,   \* hosts whose wait for a message may time out
          MayCrash,     \* hosts whose process may die
          Lossy         \* may a sendRequest fail (its result is ignored)?

Coordinator == 0
Participants == 1..N
Host == 0..N

ASSUME NAssumption == N \in Nat
ASSUME WorkerAssumption == WorkerVotes \subseteq BOOLEAN
ASSUME FaultAssumption == /\ MayTimeOut \subseteq Host
                          /\ MayCrash \subseteq Host
                          /\ Lossy \in BOOLEAN

VARIABLES
  pc,        \* where the handler of each host is in handleTransaction
  decision,  \* `decision` of each handler, kept when its process has died
  scan,      \* the participant terminationProtocol queries next
  unsent,    \* the coordinator's current send: targets not yet reached
  votes,     \* the coordinator's count of VOTEYES
  reply,     \* what the client of the transaction was answered
  vote,      \* how a participant voted ("yes": its LOG_ONCE stored VOTEYES)
  applied,   \* the participants whose worker.COMMIT has run
  log,       \* the DBMS: one TransactionLog per participant
  net,       \* messages sent and not yet handled
  queue      \* the MessageQueue of each handler

vars == <<pc, decision, scan, unsent, votes, reply, vote, applied, log, net,
          queue>>

(* A handler is in its node's map from createNode to removeFromMap. *)
Finished == {"done", "crashed"}
HasHandler(n) == pc[n] \notin {"idle"} \cup Finished

PC == {"idle", "sendVoteReq", "voting", "terminating", "sendDecision",
       "start", "refuse", "prepared", "waiting", "logging", "committing"}
        \cup Finished

(* Every host sends a message of a type to another host at most once, so a *)
(* set of messages keeps what a bag would.                                 *)
Message ==
  [type : {"VOTEREQ"} \cup Decision, from : {Coordinator}, to : Participants]
    \cup [type : {"VOTEYES", "ABORT"}, from : Participants, to : {Coordinator}]

Msg(t, n, m) == [type |-> t, from |-> n, to |-> m]

TypeOK ==
  /\ pc \in [Host -> PC]
  /\ decision \in [Host -> Decision \cup {NoDecision}]
  /\ scan \in [Host -> 1..(N + 1)]
  /\ unsent \subseteq Participants
  /\ votes \in Nat
  /\ reply \in Decision \cup {NoDecision}
  /\ vote \in [Participants -> {"none", "yes", "no"}]
  /\ applied \subseteq Participants
  /\ log \in [Participants -> LogValue]
  /\ net \subseteq Message
  /\ queue \in [Host -> SUBSET Message]

Init ==
  /\ pc = [n \in Host |-> "idle"]
  /\ decision = [n \in Host |-> NoDecision]
  /\ scan = [n \in Host |-> 1]
  /\ unsent = {}
  /\ votes = 0
  /\ reply = NoDecision
  /\ vote = [p \in Participants |-> "none"]
  /\ applied = {}
  /\ log = [p \in Participants |-> "WORKING"]
  /\ net = {}
  /\ queue = [n \in Host |-> {}]

-----------------------------------------------------------------------------
(* Steps shared by both roles. *)

Goto(n, l) == pc' = [pc EXCEPT ![n] = l]

(* `decision` is assigned; the coordinator goes on to announce it, a       *)
(* participant to log it.                                                  *)
Conclude(n, d) ==
  /\ decision' = [decision EXCEPT ![n] = d]
  /\ Goto(n, IF n = Coordinator THEN "sendDecision" ELSE "logging")
  /\ unsent' = IF n = Coordinator THEN Participants ELSE unsent

(* Mutation: a participant waits without a deadline. *)
TimeOutCoordinatorOnly(n) ==
  /\ n \in MayTimeOut
  /\ pc[n] = "voting"
  /\ queue[n] = {}
  /\ Goto(n, "terminating")
  /\ scan' = [scan EXCEPT ![n] = 1]
  /\ UNCHANGED <<decision, unsent, votes, reply, vote, applied, log, net, queue>>

(* waitForNextMessage gives up: nothing is queued at the deadline. *)
TimeOut(n) ==
  /\ n \in MayTimeOut
  /\ pc[n] \in {"voting", "waiting"}
  /\ queue[n] = {}
  /\ Goto(n, "terminating")
  /\ scan' = [scan EXCEPT ![n] = 1]
  /\ UNCHANGED <<decision, unsent, votes, reply, vote, applied, log, net, queue>>

(* One round of the loop of terminationProtocol: LOG_ONCE("ABORT") on the  *)
(* log of the next participant, its own among them.                        *)
TerminationQuery(n) ==
  /\ pc[n] = "terminating"
  /\ scan[n] <= N
  /\ LET p == scan[n]
         resp == LogOnce(log[p], "ABORT")
     IN  /\ log' = [log EXCEPT ![p] = resp]
         /\ \/ /\ resp \in Decision
               /\ Conclude(n, resp)
               /\ UNCHANGED scan
            \/ /\ resp = "VOTEYES"
               /\ scan' = [scan EXCEPT ![n] = p + 1]
               /\ UNCHANGED <<pc, decision, unsent>>
  /\ UNCHANGED <<votes, reply, vote, applied, net, queue>>

(* Mutation: the loop stops one participant early. *)
TerminationCommitsEarly(n) ==
  /\ pc[n] = "terminating"
  /\ scan[n] >= N
  /\ Conclude(n, "COMMIT")
  /\ UNCHANGED <<scan, votes, reply, vote, applied, log, net, queue>>

(* The loop ends: every participant has logged VOTEYES. *)
TerminationCommits(n) ==
  /\ pc[n] = "terminating"
  /\ scan[n] > N
  /\ Conclude(n, "COMMIT")
  /\ UNCHANGED <<scan, votes, reply, vote, applied, log, net, queue>>

-----------------------------------------------------------------------------
(* The coordinator. *)

(* onClientRequest: createNode<Coordinator>, then the VOTEREQs go out. *)
ClientRequest ==
  /\ pc[Coordinator] = "idle"
  /\ Goto(Coordinator, "sendVoteReq")
  /\ unsent' = Participants
  /\ UNCHANGED <<decision, scan, votes, reply, vote, applied, log, net, queue>>

(* Sender::send starts one thread per target; they run in any order. *)
SendToParticipant(p) ==
  /\ p \in unsent
  /\ \/ pc[Coordinator] = "sendVoteReq" /\ net' = net \cup {Msg("VOTEREQ", Coordinator, p)}
     \/ pc[Coordinator] = "sendDecision"
          /\ net' = net \cup {Msg(decision[Coordinator], Coordinator, p)}
  /\ unsent' = unsent \ {p}
  /\ UNCHANGED <<pc, decision, scan, votes, reply, vote, applied, log, queue>>

(* Mutation: votes that arrive while the requests go out are forgotten. *)
StartVotingAfresh ==
  /\ pc[Coordinator] = "sendVoteReq"
  /\ unsent = {}
  /\ Goto(Coordinator, "voting")
  /\ queue' = [queue EXCEPT ![Coordinator] = {}]
  /\ UNCHANGED <<decision, scan, unsent, votes, reply, vote, applied, log, net>>

(* Mutation: the coordinator commits one vote early. *)
TakeVoteYesEarly(m) ==
  /\ pc[Coordinator] = "voting"
  /\ m \in queue[Coordinator]
  /\ m.type = "VOTEYES"
  /\ queue' = [queue EXCEPT ![Coordinator] = @ \ {m}]
  /\ votes' = votes + 1
  /\ IF votes + 2 >= N THEN Conclude(Coordinator, "COMMIT")
                       ELSE UNCHANGED <<pc, decision, unsent>>
  /\ UNCHANGED <<scan, reply, vote, applied, log, net>>

(* resolveFutures returns once all are through; the voting phase starts. *)
StartVoting ==
  /\ pc[Coordinator] = "sendVoteReq"
  /\ unsent = {}
  /\ Goto(Coordinator, "voting")
  /\ UNCHANGED <<decision, scan, unsent, votes, reply, vote, applied, log, net, queue>>

TakeVoteYes(m) ==
  /\ pc[Coordinator] = "voting"
  /\ m \in queue[Coordinator]
  /\ m.type = "VOTEYES"
  /\ queue' = [queue EXCEPT ![Coordinator] = @ \ {m}]
  /\ votes' = votes + 1
  /\ IF votes + 1 = N THEN Conclude(Coordinator, "COMMIT")
                      ELSE UNCHANGED <<pc, decision, unsent>>
  /\ UNCHANGED <<scan, reply, vote, applied, log, net>>

TakeVoteAbort(m) ==
  /\ pc[Coordinator] = "voting"
  /\ m \in queue[Coordinator]
  /\ m.type = "ABORT"
  /\ queue' = [queue EXCEPT ![Coordinator] = @ \ {m}]
  /\ Conclude(Coordinator, "ABORT")
  /\ UNCHANGED <<scan, votes, reply, vote, applied, log, net>>

(* The decision is announced: the client is answered, the handler removed. *)
AnswerClient ==
  /\ pc[Coordinator] = "sendDecision"
  /\ unsent = {}
  /\ reply' = decision[Coordinator]
  /\ Goto(Coordinator, "done")
  /\ UNCHANGED <<decision, scan, unsent, votes, vote, applied, log, net, queue>>

-----------------------------------------------------------------------------
(* A participant. *)

(* worker.VOTE_REQ says no. *)
RefuseVote(p) ==
  /\ FALSE \in WorkerVotes
  /\ pc[p] = "start"
  /\ vote' = [vote EXCEPT ![p] = "no"]
  /\ Goto(p, "refuse")
  /\ UNCHANGED <<decision, scan, unsent, votes, reply, applied, log, net, queue>>

(* Mutation: the vote is logged with LOG_WRITE. *)
LogVoteWrite(p) ==
  /\ TRUE \in WorkerVotes
  /\ pc[p] = "start"
  /\ log' = [log EXCEPT ![p] = LogWrite(@, "VOTEYES")]
  /\ vote' = [vote EXCEPT ![p] = "yes"]
  /\ Goto(p, "prepared")
  /\ UNCHANGED <<decision, scan, unsent, votes, reply, applied, net, queue>>

(* worker.VOTE_REQ says yes: LOG_ONCE("VOTEYES") decides whether it counts. *)
LogVote(p) ==
  /\ TRUE \in WorkerVotes
  /\ pc[p] = "start"
  /\ LET resp == LogOnce(log[p], "VOTEYES")
     IN  /\ log' = [log EXCEPT ![p] = resp]
         /\ vote' = [vote EXCEPT ![p] = IF resp = "VOTEYES" THEN "yes" ELSE "no"]
         /\ Goto(p, IF resp = "VOTEYES" THEN "prepared" ELSE "refuse")
  /\ UNCHANGED <<decision, scan, unsent, votes, reply, applied, net, queue>>

(* sendToCoordinator("ABORT"), return "ABORT": nothing is logged. *)
SendAbort(p) ==
  /\ pc[p] = "refuse"
  /\ net' = net \cup {Msg("ABORT", p, Coordinator)}
  /\ decision' = [decision EXCEPT ![p] = "ABORT"]
  /\ Goto(p, "done")
  /\ UNCHANGED <<scan, unsent, votes, reply, vote, applied, log, queue>>

(* sendToCoordinator("VOTEYES"), then wait with a timeout. *)
SendVoteYes(p) ==
  /\ pc[p] = "prepared"
  /\ net' = net \cup {Msg("VOTEYES", p, Coordinator)}
  /\ Goto(p, "waiting")
  /\ UNCHANGED <<decision, scan, unsent, votes, reply, vote, applied, log, queue>>

(* Mutation: `decision` is not assigned before it is logged. *)
TakeDecisionUnset(p, m) ==
  /\ pc[p] = "waiting"
  /\ m \in queue[p]
  /\ m.type \in Decision
  /\ queue' = [queue EXCEPT ![p] = @ \ {m}]
  /\ Goto(p, "logging")
  /\ UNCHANGED <<decision, scan, unsent, votes, reply, vote, applied, log, net>>

(* Mutation: a COMMIT is applied without being logged. *)
TakeDecisionUnlogged(p, m) ==
  /\ pc[p] = "waiting"
  /\ m \in queue[p]
  /\ m.type \in Decision
  /\ queue' = [queue EXCEPT ![p] = @ \ {m}]
  /\ decision' = [decision EXCEPT ![p] = m.type]
  /\ Goto(p, IF m.type = "COMMIT" THEN "committing" ELSE "logging")
  /\ UNCHANGED <<scan, unsent, votes, reply, vote, applied, log, net>>

TakeDecision(p, m) ==
  /\ pc[p] = "waiting"
  /\ m \in queue[p]
  /\ m.type \in Decision
  /\ queue' = [queue EXCEPT ![p] = @ \ {m}]
  /\ Conclude(p, m.type)
  /\ UNCHANGED <<scan, votes, reply, vote, applied, log, net>>

(* LOG_WRITE(decision) on its own log, whatever that log holds. *)
LogDecision(p) ==
  /\ pc[p] = "logging"
  /\ log' = [log EXCEPT ![p] = LogWrite(@, decision[p])]
  /\ Goto(p, IF decision[p] = "COMMIT" THEN "committing" ELSE "done")
  /\ UNCHANGED <<decision, scan, unsent, votes, reply, vote, applied, net, queue>>

(* worker.COMMIT. *)
WorkerCommit(p) ==
  /\ pc[p] = "committing"
  /\ applied' = applied \cup {p}
  /\ Goto(p, "done")
  /\ UNCHANGED <<decision, scan, unsent, votes, reply, vote, log, net, queue>>

-----------------------------------------------------------------------------
(* Message delivery and faults. *)

(* onNewRequest<Participant>: createNode puts a handler into the map. *)
DeliverVoteReq(m) ==
  /\ m \in net
  /\ m.type = "VOTEREQ"
  /\ net' = net \ {m}
  /\ IF pc[m.to] = "idle" THEN Goto(m.to, "start") ELSE UNCHANGED pc
  /\ UNCHANGED <<decision, scan, unsent, votes, reply, vote, applied, log, queue>>

(* onOldRequest: pushed if the map has a handler, forgotten otherwise. *)
DeliverOldRequest(m) ==
  /\ m \in net
  /\ m.type # "VOTEREQ"
  /\ net' = net \ {m}
  /\ queue' = IF HasHandler(m.to) THEN [queue EXCEPT ![m.to] = @ \cup {m}]
                                  ELSE queue
  /\ UNCHANGED <<pc, decision, scan, unsent, votes, reply, vote, applied, log>>

(* sendRequest fails; resolveFutures and sendToCoordinator do not look. *)
Lose(m) ==
  /\ Lossy
  /\ m \in net
  /\ net' = net \ {m}
  /\ UNCHANGED <<pc, decision, scan, unsent, votes, reply, vote, applied, log, queue>>

(* The process dies, with its handlers and queues (a failed request to the *)
(* DBMS has the same effect).  Nothing recovers a handler after a restart. *)
Crash(n) ==
  /\ n \in MayCrash
  /\ pc[n] \notin Finished
  /\ Goto(n, "crashed")
  /\ queue' = [queue EXCEPT ![n] = {}]
  /\ UNCHANGED <<decision, scan, unsent, votes, reply, vote, applied, log, net>>
-----------------------------------------------------------------------------

CoordinatorStep ==
  \/ \E p \in Participants : SendToParticipant(p)
  \/ StartVoting
  \/ \E m \in queue[Coordinator] : TakeVoteYes(m) \/ TakeVoteAbort(m)
  \/ AnswerClient

ParticipantStep(p) ==
  \/ RefuseVote(p) \/ LogVote(p) \/ SendAbort(p) \/ SendVoteYes(p)
  \/ \E m \in queue[p] : TakeDecision(p, m)
  \/ LogDecision(p) \/ WorkerCommit(p)

(* The steps of terminationProtocol and of the wait before it. *)
TerminationStep(n) == TimeOut(n) \/ TerminationQuery(n) \/ TerminationCommits(n)

Delivery == \E m \in net : DeliverVoteReq(m) \/ DeliverOldRequest(m)

(* Every handler has ended, or was never created because nobody asks. *)
Quiescent == /\ net = {}
             /\ pc[Coordinator] \in Finished
             /\ \A p \in Participants : pc[p] \in Finished \cup {"idle"}

Next ==
  \/ ClientRequest
  \/ CoordinatorStep
  \/ \E p \in Participants : ParticipantStep(p)
  \/ \E n \in Host : TerminationStep(n)
  \/ Delivery
  \/ \E m \in net : Lose(m)
  \/ \E n \in Host : Crash(n)
  \/ Quiescent /\ UNCHANGED vars

Spec == Init /\ [][Next]_vars

(* Handler threads and detached threads are scheduled, a wait ends at its  *)
(* deadline, and the DBMS answers: no thread stops for ever at a step that *)
(* it can take.  A client's request, a crash, a loss are never forced.     *)
Fairness ==
  /\ WF_vars(CoordinatorStep \/ TerminationStep(Coordinator))
  /\ \A p \in Participants : WF_vars(ParticipantStep(p) \/ TerminationStep(p))
  /\ WF_vars(Delivery)

FairSpec == Spec /\ Fairness
-----------------------------------------------------------------------------
(* Properties. *)

(* Everything that anybody was told: the decisions the handlers reached,   *)
(* also those whose process has died since, and the answer to the client   *)
(* (Coordinator.h:35-49, Participant.h:38-53, TransactionHandler.hpp:20-36 *)
(* reach them along different ways).                                       *)
Concluded == {decision[n] : n \in Host} \cup {reply}

(* Nobody is told COMMIT when somebody is told ABORT. *)
Agreement == ~(Decision \subseteq Concluded)

(* What a termination protocol started now would find. *)
Verdict == IF \A p \in Participants : log[p] \in {"VOTEYES", "COMMIT"}
           THEN "COMMIT" ELSE "ABORT"

(* Every conclusion can be read off the logs at any later time, whoever    *)
(* has crashed in between; so an answered COMMIT survives every host, and  *)
(* an ABORT is not undone by a vote logged late.                           *)
OutcomeInLogs == \A d \in Concluded \ {NoDecision} : d = Verdict

(* A log never leaves COMMIT or ABORT and never goes back to VOTEYES or    *)
(* WORKING, although LOG_WRITE (log.hpp:38-44) overwrites whatever it      *)
(* finds and LOG_ONCEs of all hosts race with it.                          *)
LogMonotonic ==
  [][\A p \in Participants :
        log'[p] # log[p] =>
           \/ log[p] = "WORKING" /\ log'[p] \in {"VOTEYES", "ABORT"}
           \/ log[p] = "VOTEYES" /\ log'[p] \in Decision]_log

(* worker.COMMIT runs only where COMMIT is durable, and only when no other *)
(* participant has ended or will end with ABORT in its log.                *)
AppliedIsDurable ==
  /\ \A p \in applied : log[p] = "COMMIT"
  /\ applied # {} => \A q \in Participants : log[q] \in {"VOTEYES", "COMMIT"}

(* The protocol implements AtomicCommit.  A participant's vote is settled  *)
(* by its first log entry, or by the refusal that precedes any.            *)
VoteBar == [p \in Participants |->
              IF vote[p] = "none" /\ log[p] = "ABORT" THEN "no" ELSE vote[p]]

AC == INSTANCE AtomicCommit
        WITH Voters <- Participants, Deciders <- Host,
             vote <- VoteBar, outcome <- decision

ImplementsAtomicCommit == AC!Spec

(* Non-blocking: a handler that exists ends, whoever else has crashed and  *)
(* whatever messages are lost; only its own process may stop it.           *)
HandlersEnd ==
  \A n \in Host : pc[n] # "idle" ~> pc[n] \in Finished

(* Without faults, deadlines or refusals the client's transaction commits  *)
(* everywhere, even if votes arrive while the requests still go out.       *)
HealthyCommits ==
  pc[Coordinator] # "idle" ~> (reply = "COMMIT" /\ applied = Participants)
=============================================================================
