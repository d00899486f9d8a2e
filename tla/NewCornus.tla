----------------------------- MODULE NewCornus ------------------------------
(***************************************************************************)
(* The NEW_VERSION of Cornus, for one transaction: the coordinator         *)
(* (Coordinator2.h) answers its client before anything is logged, and      *)
(* leaves the logging to a background thread and, should that not finish,  *)
(* to f replicators (Replicator.h).  Participants (Participant2.h) log     *)
(* nothing unless they time out (TransactionHandler2.hpp); a COMMIT that   *)
(* comes after such an ABORT is applied by a Committer (Committer.h).      *)
(*                                                                         *)
(* A host may be a participant and a replicator at the same time: it has   *)
(* one handler of each kind, and both use the log of their own host.       *)
(* Messages and requests to the DBMS are as in PaperCornus.                *)
(***************************************************************************)
EXTENDS Integers, FiniteSets, TransactionLog

CONSTANTS Coordinator, Participants,
          Replicators,  \* hostConfig.replicators of the coordinator
          WorkerVotes,  \* what worker.VOTE_REQ may answer, a set of Booleans
          MayTimeOut,   \* the roles whose wait for a message may time out
          Patient,      \* are ten timeouts enough for everybody else to end?
          MayCrash,     \* hosts whose process may die
          Lossy         \* may a sendRequest fail (its result is ignored)?

Hosts == {Coordinator} \cup Participants \cup Replicators
Roles == {"coordinator", "participant", "replicator"}

ASSUME HostAssumption == Coordinator \notin Participants \cup Replicators
ASSUME FiniteAssumption == IsFiniteSet(Participants)
ASSUME WorkerAssumption == WorkerVotes \subseteq BOOLEAN
ASSUME FaultAssumption == /\ MayTimeOut \subseteq Roles
                          /\ MayCrash \subseteq Hosts
                          /\ {Patient, Lossy} \subseteq BOOLEAN

VARIABLES
  pc,         \* the handler in `handlers`: coordinator or participant
  fin,        \* the thread that calls logFinal: backgroundwork or Replicator
  decision,   \* `decision` of each handler, kept when its process has died
  prev,       \* `prev` of logFinal
  unsent,     \* the current send of a host: targets not yet reached
  votes,      \* the coordinator's count of VOTEYES
  reply,      \* what the client of the transaction was answered
  vote,       \* how a participant voted
  completed,  \* the replicators with DECISIONCOMPLETED in their queue
  applied,    \* the participants whose worker.COMMIT has run
  log,        \* the DBMS: one TransactionLog per host
  net,        \* messages sent and not yet handled
  queue       \* the MessageQueue of each handler in `handlers`

vars == <<pc, fin, decision, prev, unsent, votes, reply, vote, completed,
          applied, log, net, queue>>

Finished == {"done", "crashed"}
Resting == {"idle"} \cup Finished

PC == {"sendVoteReq", "voting", "sendWillCommit", "answering",
       "start", "waiting", "reading", "aborting", "committing"} \cup Resting
FinPC == {"waiting", "reading", "writing", "overriding", "completing",
          "telling"} \cup Resting

Message ==
  [type : {"VOTEREQ"} \cup Decision, from : {Coordinator}, to : Participants]
    \cup [type : {"VOTEYES", "ABORT"}, from : Participants, to : {Coordinator}]
    \cup [type : {"WILLCOMMIT", "DECISIONCOMPLETED"},
          from : {Coordinator}, to : Replicators]
    \cup [type : {"OVERRIDECOMMIT"}, from : Hosts, to : Participants]

Msg(t, n, m) == [type |-> t, from |-> n, to |-> m]

TypeOK ==
  /\ pc \in [Hosts -> PC]
  /\ fin \in [Hosts -> FinPC]
  /\ decision \in [Hosts -> Decision \cup {NoDecision}]
  /\ prev \in [Hosts -> LogValue]
  /\ unsent \in [Hosts -> SUBSET Hosts]
  /\ votes \in Nat
  /\ reply \in Decision \cup {NoDecision}
  /\ vote \in [Participants -> {"none", "yes", "no"}]
  /\ completed \subseteq Replicators
  /\ applied \subseteq Participants
  /\ log \in [Hosts -> LogValue]
  /\ net \subseteq Message
  /\ queue \in [Hosts -> SUBSET Message]

Init ==
  /\ pc = [h \in Hosts |-> "idle"]
  /\ fin = [h \in Hosts |-> "idle"]
  /\ decision = [h \in Hosts |-> NoDecision]
  /\ prev = [h \in Hosts |-> "WORKING"]
  /\ unsent = [h \in Hosts |-> {}]
  /\ votes = 0
  /\ reply = NoDecision
  /\ vote = [p \in Participants |-> "none"]
  /\ completed = {}
  /\ applied = {}
  /\ log = [h \in Hosts |-> "WORKING"]
  /\ net = {}
  /\ queue = [h \in Hosts |-> {}]

Goto(h, l) == pc' = [pc EXCEPT ![h] = l]
Proceed(h, l) == fin' = [fin EXCEPT ![h] = l]
StartSend(h, group) == unsent' = [unsent EXCEPT ![h] = group]

-----------------------------------------------------------------------------
(* The coordinator: handleTransaction. *)

ClientRequest ==
  /\ pc[Coordinator] = "idle"
  /\ Goto(Coordinator, "sendVoteReq")
  /\ StartSend(Coordinator, Participants)
  /\ UNCHANGED <<fin, decision, prev, votes, reply, vote, completed, applied,
                 log, net, queue>>

(* What the thread of a host that is in Sender::send is sending. *)
Outgoing(h) ==
  CASE h = Coordinator /\ pc[h] = "sendVoteReq" -> "VOTEREQ"
    [] h = Coordinator /\ pc[h] = "sendWillCommit" -> "WILLCOMMIT"
    [] fin[h] = "overriding" -> "OVERRIDECOMMIT"
    [] fin[h] = "completing" -> "DECISIONCOMPLETED"
    [] fin[h] = "telling" -> decision[Coordinator]

(* Sender::send starts one thread per target; they run in any order. *)
Send(h, t) ==
  /\ t \in unsent[h]
  /\ net' = net \cup {Msg(Outgoing(h), h, t)}
  /\ unsent' = [unsent EXCEPT ![h] = @ \ {t}]
  /\ UNCHANGED <<pc, fin, decision, prev, votes, reply, vote, completed,
                 applied, log, queue>>

(* resolveFutures has returned: the voting phase starts. *)
StartVoting ==
  /\ pc[Coordinator] = "sendVoteReq"
  /\ unsent[Coordinator] = {}
  /\ Goto(Coordinator, "voting")
  /\ UNCHANGED <<fin, decision, prev, unsent, votes, reply, vote, completed,
                 applied, log, net, queue>>

(* Mutation: the client is answered before the replicators know. *)
DecideHasty(d) ==
  /\ decision' = [decision EXCEPT ![Coordinator] = d]
  /\ Goto(Coordinator, "answering")
  /\ Proceed(Coordinator, IF d = "COMMIT" THEN "reading" ELSE "telling")
  /\ StartSend(Coordinator, IF d = "COMMIT" THEN {} ELSE Participants)

(* A COMMIT is first announced to the replicators; an ABORT returns at     *)
(* once, to the client's thread and to finishTransaction.                  *)
Decide(d) ==
  /\ decision' = [decision EXCEPT ![Coordinator] = d]
  /\ \/ /\ d = "COMMIT"
        /\ Goto(Coordinator, "sendWillCommit")
        /\ StartSend(Coordinator, Replicators)
        /\ UNCHANGED fin
     \/ /\ d = "ABORT"
        /\ Goto(Coordinator, "answering")
        /\ Proceed(Coordinator, "telling")
        /\ StartSend(Coordinator, Participants)

(* Mutation: the coordinator commits one vote early. *)
TakeVoteYesEarly(m) ==
  /\ pc[Coordinator] = "voting"
  /\ m \in queue[Coordinator]
  /\ m.type = "VOTEYES"
  /\ queue' = [queue EXCEPT ![Coordinator] = @ \ {m}]
  /\ votes' = votes + 1
  /\ IF votes + 2 >= Cardinality(Participants)
     THEN Decide("COMMIT")
     ELSE UNCHANGED <<pc, fin, decision, unsent>>
  /\ UNCHANGED <<prev, reply, vote, completed, applied, log, net>>

TakeVoteYes(m) ==
  /\ pc[Coordinator] = "voting"
  /\ m \in queue[Coordinator]
  /\ m.type = "VOTEYES"
  /\ queue' = [queue EXCEPT ![Coordinator] = @ \ {m}]
  /\ votes' = votes + 1
  /\ IF votes + 1 = Cardinality(Participants)
     THEN Decide("COMMIT")
     ELSE UNCHANGED <<pc, fin, decision, unsent>>
  /\ UNCHANGED <<prev, reply, vote, completed, applied, log, net>>

TakeVoteAbort(m) ==
  /\ pc[Coordinator] = "voting"
  /\ m \in queue[Coordinator]
  /\ m.type = "ABORT"
  /\ queue' = [queue EXCEPT ![Coordinator] = @ \ {m}]
  /\ Decide("ABORT")
  /\ UNCHANGED <<prev, votes, reply, vote, completed, applied, log, net>>

(* The voting phase times out: no log is asked. *)
CoordinatorTimeOut ==
  /\ "coordinator" \in MayTimeOut
  /\ pc[Coordinator] = "voting"
  /\ queue[Coordinator] = {}
  /\ Decide("ABORT")
  /\ UNCHANGED <<prev, votes, reply, vote, completed, applied, log, net, queue>>

(* Mutation: the replicators are released before anything is logged. *)
WillCommitSentHasty ==
  /\ pc[Coordinator] = "sendWillCommit"
  /\ unsent[Coordinator] = {}
  /\ Goto(Coordinator, "answering")
  /\ Proceed(Coordinator, "completing")
  /\ StartSend(Coordinator, Replicators)
  /\ UNCHANGED <<decision, prev, votes, reply, vote, completed, applied, log,
                 net, queue>>

(* The WILLCOMMITs are out: handleTransaction returns, backgroundwork      *)
(* starts with finishTransaction.                                          *)
WillCommitSent ==
  /\ pc[Coordinator] = "sendWillCommit"
  /\ unsent[Coordinator] = {}
  /\ Goto(Coordinator, "answering")
  /\ Proceed(Coordinator, "reading")
  /\ UNCHANGED <<decision, prev, unsent, votes, reply, vote, completed,
                 applied, log, net, queue>>

AnswerClient ==
  /\ pc[Coordinator] = "answering"
  /\ reply' = decision[Coordinator]
  /\ Goto(Coordinator, "done")
  /\ UNCHANGED <<fin, decision, prev, unsent, votes, vote, completed, applied,
                 log, net, queue>>

-----------------------------------------------------------------------------
(* logFinal("COMMIT"), in backgroundwork and in a Replicator.  Its argument *)
(* `host` is not used: each host reads and writes its own log.             *)

(* What follows logFinal: finishTransaction goes on, a Replicator ends. *)
AfterLogFinal(h) ==
  IF h = Coordinator
  THEN Proceed(h, "completing") /\ StartSend(h, Replicators)
  ELSE Proceed(h, "done") /\ UNCHANGED unsent

LogFinalRead(h) ==
  /\ fin[h] = "reading"
  /\ prev' = [prev EXCEPT ![h] = LogRead(log[h])]
  /\ \/ log[h] = "COMMIT" /\ AfterLogFinal(h)
     \/ log[h] # "COMMIT" /\ Proceed(h, "writing") /\ UNCHANGED unsent
  /\ UNCHANGED <<pc, decision, votes, reply, vote, completed, applied, log,
                 net, queue>>

(* Mutation: every COMMIT that was not logged before is announced. *)
LogFinalWriteLoud(h) ==
  /\ fin[h] = "writing"
  /\ log' = [log EXCEPT ![h] = LogWrite(@, "COMMIT")]
  /\ Proceed(h, "overriding")
  /\ StartSend(h, Participants)
  /\ UNCHANGED <<pc, decision, prev, votes, reply, vote, completed, applied,
                 net, queue>>

(* Mutation: a COMMIT that replaces an ABORT is not announced. *)
LogFinalWriteSilently(h) ==
  /\ fin[h] = "writing"
  /\ log' = [log EXCEPT ![h] = LogWrite(@, "COMMIT")]
  /\ AfterLogFinal(h)
  /\ UNCHANGED <<pc, decision, prev, votes, reply, vote, completed, applied,
                 net, queue>>

LogFinalWrite(h) ==
  /\ fin[h] = "writing"
  /\ log' = [log EXCEPT ![h] = LogWrite(@, "COMMIT")]
  /\ \/ prev[h] = "ABORT" /\ Proceed(h, "overriding") /\ StartSend(h, Participants)
     \/ prev[h] # "ABORT" /\ AfterLogFinal(h)
  /\ UNCHANGED <<pc, decision, prev, votes, reply, vote, completed, applied,
                 net, queue>>

OverrideSent(h) ==
  /\ fin[h] = "overriding"
  /\ unsent[h] = {}
  /\ AfterLogFinal(h)
  /\ UNCHANGED <<pc, decision, prev, votes, reply, vote, completed, applied,
                 log, net, queue>>

(* Mutation: the participants are forgotten after a COMMIT. *)
CompletedSentForgetful ==
  /\ fin[Coordinator] = "completing"
  /\ unsent[Coordinator] = {}
  /\ Proceed(Coordinator, "done")
  /\ UNCHANGED <<pc, decision, prev, unsent, votes, reply, vote, completed,
                 applied, log, net, queue>>

(* The rest of finishTransaction. *)
CompletedSent ==
  /\ fin[Coordinator] = "completing"
  /\ unsent[Coordinator] = {}
  /\ Proceed(Coordinator, "telling")
  /\ StartSend(Coordinator, Participants)
  /\ UNCHANGED <<pc, decision, prev, votes, reply, vote, completed, applied,
                 log, net, queue>>

DecisionSent ==
  /\ fin[Coordinator] = "telling"
  /\ unsent[Coordinator] = {}
  /\ Proceed(Coordinator, "done")
  /\ UNCHANGED <<pc, decision, prev, unsent, votes, reply, vote, completed,
                 applied, log, net, queue>>

-----------------------------------------------------------------------------
(* A replicator waits for DECISIONCOMPLETED. *)

TakeCompleted(r) ==
  /\ fin[r] = "waiting"
  /\ r \in completed
  /\ Proceed(r, "done")
  /\ UNCHANGED <<pc, decision, prev, unsent, votes, reply, vote, completed,
                 applied, log, net, queue>>

(* Mutation: a replicator waits without a deadline. *)
ReplicatorTimeOutNever(r) == FALSE

ReplicatorTimeOut(r) ==
  /\ "replicator" \in MayTimeOut
  /\ fin[r] = "waiting"
  /\ r \notin completed
  /\ Proceed(r, "reading")
  /\ UNCHANGED <<pc, decision, prev, unsent, votes, reply, vote, completed,
                 applied, log, net, queue>>

-----------------------------------------------------------------------------
(* A participant. *)

RefuseVote(p) ==
  /\ FALSE \in WorkerVotes
  /\ pc[p] = "start"
  /\ vote' = [vote EXCEPT ![p] = "no"]
  /\ net' = net \cup {Msg("ABORT", p, Coordinator)}
  /\ decision' = [decision EXCEPT ![p] = "ABORT"]
  /\ Goto(p, "done")
  /\ UNCHANGED <<fin, prev, unsent, votes, reply, completed, applied, log, queue>>

(* The vote is sent, and not logged. *)
GrantVote(p) ==
  /\ TRUE \in WorkerVotes
  /\ pc[p] = "start"
  /\ vote' = [vote EXCEPT ![p] = "yes"]
  /\ net' = net \cup {Msg("VOTEYES", p, Coordinator)}
  /\ Goto(p, "waiting")
  /\ UNCHANGED <<fin, decision, prev, unsent, votes, reply, completed, applied,
                 log, queue>>

Conclude(p, d) ==
  /\ decision' = [decision EXCEPT ![p] = d]
  /\ Goto(p, IF d = "COMMIT" THEN "committing" ELSE "done")

TakeDecision(p, m) ==
  /\ pc[p] = "waiting"
  /\ m \in queue[p]
  /\ m.type \in Decision
  /\ queue' = [queue EXCEPT ![p] = @ \ {m}]
  /\ Conclude(p, m.type)
  /\ UNCHANGED <<fin, prev, unsent, votes, reply, vote, completed, applied,
                 log, net>>

WorkerCommit(p) ==
  /\ pc[p] = "committing"
  /\ applied' = applied \cup {p}
  /\ Goto(p, "done")
  /\ UNCHANGED <<fin, decision, prev, unsent, votes, reply, vote, completed,
                 log, net, queue>>

(* A participant waits timeout * 10.  Patient assumes of the delays that   *)
(* this is longer than everybody else needs, their own timeouts, sends and *)
(* DBMS requests included.  No code ensures it: without Patient, the       *)
(* deadline may pass at any time.                                          *)
DeadlinePassed ==
  Patient => /\ net = {}
             /\ pc[Coordinator] \in Finished
             /\ \A h \in Hosts : fin[h] \in Resting

(* Mutation: the log is written unread. *)
ParticipantTimeOutBlind(p) ==
  /\ "participant" \in MayTimeOut
  /\ DeadlinePassed
  /\ pc[p] = "waiting"
  /\ queue[p] = {}
  /\ Goto(p, "aborting")
  /\ UNCHANGED <<fin, decision, prev, unsent, votes, reply, vote, completed,
                 applied, log, queue, net>>

ParticipantTimeOut(p) ==
  /\ "participant" \in MayTimeOut
  /\ DeadlinePassed
  /\ pc[p] = "waiting"
  /\ queue[p] = {}
  /\ Goto(p, "reading")
  /\ UNCHANGED <<fin, decision, prev, unsent, votes, reply, vote, completed,
                 applied, log, net, queue>>

(* terminationProtocol: LOG_READ of its own log ... *)
TerminationRead(p) ==
  /\ pc[p] = "reading"
  /\ LET seen == LogRead(log[p])
     IN  \/ seen \in Decision /\ Conclude(p, seen)
         \/ seen \notin Decision /\ Goto(p, "aborting") /\ UNCHANGED decision
  /\ UNCHANGED <<fin, prev, unsent, votes, reply, vote, completed, applied,
                 log, net, queue>>

(* Mutation: `decision` is logged before it is assigned. *)
TerminationWriteUnset(p) ==
  /\ pc[p] = "aborting"
  /\ log' = [log EXCEPT ![p] = LogWrite(@, decision[p])]
  /\ Conclude(p, "ABORT")
  /\ UNCHANGED <<fin, prev, unsent, votes, reply, vote, completed, applied,
                 net, queue>>

(* ... and, some time later, LOG_WRITE("ABORT"). *)
TerminationWrite(p) ==
  /\ pc[p] = "aborting"
  /\ log' = [log EXCEPT ![p] = LogWrite(@, "ABORT")]
  /\ Conclude(p, "ABORT")
  /\ UNCHANGED <<fin, prev, unsent, votes, reply, vote, completed, applied,
                 net, queue>>

-----------------------------------------------------------------------------
(* Message delivery and faults. *)

(* onNewRequest<Participant>. *)
DeliverVoteReq(m) ==
  /\ m \in net
  /\ m.type = "VOTEREQ"
  /\ net' = net \ {m}
  /\ IF pc[m.to] = "idle" THEN Goto(m.to, "start") ELSE UNCHANGED pc
  /\ UNCHANGED <<fin, decision, prev, unsent, votes, reply, vote, completed,
                 applied, log, queue>>

(* onNewRequest<Replicator>. *)
DeliverWillCommit(m) ==
  /\ m \in net
  /\ m.type = "WILLCOMMIT"
  /\ net' = net \ {m}
  /\ IF fin[m.to] = "idle" THEN Proceed(m.to, "waiting") ELSE UNCHANGED fin
  /\ UNCHANGED <<pc, decision, prev, unsent, votes, reply, vote, completed,
                 applied, log, queue>>

(* onNewRequest<Committer>: worker.COMMIT is all that a Committer does. *)
DeliverOverride(m) ==
  /\ m \in net
  /\ m.type = "OVERRIDECOMMIT"
  /\ net' = net \ {m}
  /\ applied' = applied \cup {m.to}
  /\ UNCHANGED <<pc, fin, decision, prev, unsent, votes, reply, vote,
                 completed, log, queue>>

(* onOldRequest on `replicators`: forgotten if there is none (any more). *)
DeliverCompleted(m) ==
  /\ m \in net
  /\ m.type = "DECISIONCOMPLETED"
  /\ net' = net \ {m}
  /\ completed' = IF fin[m.to] \in Resting THEN completed
                                           ELSE completed \cup {m.to}
  /\ UNCHANGED <<pc, fin, decision, prev, unsent, votes, reply, vote, applied,
                 log, queue>>

(* onOldRequest on `handlers`. *)
DeliverOldRequest(m) ==
  /\ m \in net
  /\ m.type \in {"VOTEYES"} \cup Decision
  /\ net' = net \ {m}
  /\ queue' = IF pc[m.to] \in Resting THEN queue
                                      ELSE [queue EXCEPT ![m.to] = @ \cup {m}]
  /\ UNCHANGED <<pc, fin, decision, prev, unsent, votes, reply, vote,
                 completed, applied, log>>

Lose(m) ==
  /\ Lossy
  /\ m \in net
  /\ net' = net \ {m}
  /\ UNCHANGED <<pc, fin, decision, prev, unsent, votes, reply, vote,
                 completed, applied, log, queue>>

(* The process dies with all its threads.  What has not begun on the host  *)
(* may still begin after a restart.                                        *)
Crash(h) ==
  /\ h \in MayCrash
  /\ pc[h] \notin Resting \/ fin[h] \notin Resting
  /\ pc' = [pc EXCEPT ![h] = IF @ \in Resting THEN @ ELSE "crashed"]
  /\ fin' = [fin EXCEPT ![h] = IF @ \in Resting THEN @ ELSE "crashed"]
  /\ unsent' = [unsent EXCEPT ![h] = {}]
  /\ queue' = [queue EXCEPT ![h] = {}]
  /\ completed' = completed \ {h}
  /\ UNCHANGED <<decision, prev, votes, reply, vote, applied, log, net>>
-----------------------------------------------------------------------------

CoordinatorStep ==
  \/ StartVoting \/ CoordinatorTimeOut \/ WillCommitSent \/ AnswerClient
  \/ \E m \in queue[Coordinator] : TakeVoteYes(m) \/ TakeVoteAbort(m)
  \/ pc[Coordinator] \in {"sendVoteReq", "sendWillCommit"}
       /\ \E t \in Hosts : Send(Coordinator, t)

(* backgroundwork, or a Replicator. *)
FinalStep(h) ==
  \/ LogFinalRead(h) \/ LogFinalWrite(h) \/ OverrideSent(h)
  \/ h = Coordinator /\ (CompletedSent \/ DecisionSent)
  \/ TakeCompleted(h) \/ ReplicatorTimeOut(h)
  \/ fin[h] \in {"overriding", "completing", "telling"}
       /\ \E t \in Hosts : Send(h, t)

ParticipantStep(p) ==
  \/ RefuseVote(p) \/ GrantVote(p)
  \/ \E m \in queue[p] : TakeDecision(p, m)
  \/ WorkerCommit(p)
  \/ ParticipantTimeOut(p) \/ TerminationRead(p) \/ TerminationWrite(p)

Delivery == \E m \in net :
  \/ DeliverVoteReq(m) \/ DeliverWillCommit(m) \/ DeliverOverride(m)
  \/ DeliverCompleted(m) \/ DeliverOldRequest(m)

Quiescent == /\ net = {}
             /\ pc[Coordinator] \in Finished
             /\ \A h \in Hosts : pc[h] \in Resting /\ fin[h] \in Resting

Next ==
  \/ ClientRequest
  \/ CoordinatorStep
  \/ \E h \in Hosts : FinalStep(h)
  \/ \E p \in Participants : ParticipantStep(p)
  \/ Delivery
  \/ \E m \in net : Lose(m)
  \/ \E h \in Hosts : Crash(h)
  \/ Quiescent /\ UNCHANGED vars

Spec == Init /\ [][Next]_vars

(* As in PaperCornus: threads are scheduled, deadlines pass, the DBMS      *)
(* answers.                                                                *)
Fairness ==
  /\ WF_vars(CoordinatorStep)
  /\ \A h \in Hosts : WF_vars(FinalStep(h))
  /\ \A p \in Participants : WF_vars(ParticipantStep(p))
  /\ WF_vars(Delivery)

FairSpec == Spec /\ Fairness
-----------------------------------------------------------------------------
(* Properties. *)

(* COMMIT anywhere, as a decision, in a log or applied (also by an         *)
(* override), goes back to a coordinator that decided it on everybody's    *)
(* yes; so an ABORT answered to the client (Coordinator2.h:42-50) is final *)
(* although no log says so.                                                *)
CommitBacked ==
  (\E h \in Hosts : "COMMIT" \in {decision[h], log[h]}) \/ applied # {}
    => /\ decision[Coordinator] = "COMMIT"
       /\ \A p \in Participants : vote[p] = "yes"

(* Nobody will overwrite it: the participant of h is not between its       *)
(* LOG_READ and its LOG_WRITE.                                             *)
Settled(h) == log[h] = "COMMIT" /\ pc[h] # "aborting"

(* terminationProtocol and logFinal read a log and write it in a second    *)
(* request (TransactionHandler2.hpp:15-23, 37-40), and on a host that is   *)
(* participant and replicator they race.  A COMMIT is lost only where both *)
(* have read before either wrote; any other stays, and so does every one   *)
(* that replaces an ABORT that logFinal has found.                         *)
CommitStays ==
  [][\A h \in Hosts :
       \/ Settled(h)
       \/ log[h] = "COMMIT" /\ prev[h] = "ABORT"
       => Settled(h)']_vars

(* Where worker.COMMIT has run, in a participant or in a Committer, COMMIT *)
(* is in a log from which that race cannot remove it (Participant2.h:54-57, *)
(* Committer.h:14-18): a transaction that it loses is applied by nobody.   *)
AppliedIsDurable == applied # {} => \E h \in Hosts : Settled(h)

(* The client gets its COMMIT before anything is logged                    *)
(* (Coordinator2.h:53-65).  But no thread that is to log it ends before it *)
(* is in the coordinator's log or its own (TransactionHandler2.hpp:35-47,  *)
(* Replicator.h:13-18).                                                    *)
EndsDurable ==
  \A h \in {Coordinator} \cup Replicators :
    fin[h] = "done" /\ decision[Coordinator] = "COMMIT"
      => "COMMIT" \in {log[Coordinator], log[h]}

(* Should the coordinator die after its answer was settled, and before it  *)
(* released a replicator, then replicators that share their hosts with all *)
(* the participants see the transaction through (Replicator.h:13-18).      *)
NobodyReleased == /\ completed = {}
                  /\ \A m \in net : m.type # "DECISIONCOMPLETED"
                  /\ \A r \in Replicators : fin[r] # "done"

ReplicatorsTakeOver ==
  (fin[Coordinator] = "crashed" /\ NobodyReleased /\ decision[Coordinator] = "COMMIT")
    ~> applied = Participants

(* An ABORT that the LOG_READ of logFinal has found, of a participant that *)
(* gave up, is made good at every participant                              *)
(* (TransactionHandler2.hpp:37-45).  One that the participant logs between *)
(* this LOG_READ and the LOG_WRITE is not: COMMIT replaces it, and no      *)
(* OVERRIDECOMMIT is sent.                                                 *)
FoundAbortOverridden ==
  (\E h \in Hosts : fin[h] = "writing" /\ prev[h] = "ABORT")
     ~> applied = Participants

(* Every thread ends, whoever else has crashed and whatever is lost. *)
HandlersEnd == \A h \in Hosts :
  /\ pc[h] # "idle" ~> pc[h] \in Finished
  /\ fin[h] # "idle" ~> fin[h] \in Finished

(* Without faults the transaction commits everywhere and is durable, also  *)
(* when replicators do not wait for DECISIONCOMPLETED.                     *)
HealthyCommits ==
  pc[Coordinator] # "idle" ~> /\ reply = "COMMIT" /\ applied = Participants
                              /\ log[Coordinator] = "COMMIT"

(* "Must wait timeout * 10 to ensure that the replicators have time to     *)
(* finish" (Participant2.h:31): a participant that gives up after they     *)
(* have finished learns of the COMMIT that they logged and the client got. *)
ReplicatorsHeard ==
  \A p \in Participants, r \in Replicators :
     ~ /\ vote[p] = "yes" /\ decision[p] = "ABORT"
       /\ fin[r] = "done" /\ log[r] = "COMMIT" /\ reply = "COMMIT"
=============================================================================
