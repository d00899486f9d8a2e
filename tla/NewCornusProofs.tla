-------------------------- MODULE NewCornusProofs --------------------------
(***************************************************************************)
(* Proofs about NewCornus, for any participants and replicators, which may *)
(* share hosts, any patience, and any set of faults.                       *)
(*                                                                         *)
(* IInv is the inductive invariant.  A COMMIT spreads from the coordinator *)
(* by messages, threads and logs, each of which is evidence of it          *)
(* (CommitInv); that the coordinator had everybody's vote follows, as in   *)
(* PaperCornusProofs, from a count of messages (CountInv).                 *)
(*                                                                         *)
(* What threads that race on one log leave in it follows from AbortInv,    *)
(* AppliedInv and SettledStays.  Only what is said of threads that end     *)
(* needs NoRace: LateInv tells when a participant may still write its log, *)
(* DurableInv what a thread that is ending has seen logged.                *)
(***************************************************************************)
EXTENDS NewCornus, FiniteSetTheorems, TLAPS

CoordinatorPC == {"idle", "sendVoteReq", "voting", "sendWillCommit",
                  "answering"} \cup Finished

(* Whose thread is in Sender::send. *)
Sending(h) == \/ h = Coordinator /\ pc[h] \in {"sendVoteReq", "sendWillCommit"}
              \/ fin[h] \in {"overriding", "completing", "telling"}

(* The coordinator's two threads run one after the other until the client  *)
(* is answered, and decide once; only it releases replicators and tells a  *)
(* decision; and every send has its group.                                 *)
PhaseInv ==
  /\ pc[Coordinator] \in CoordinatorPC
  /\ pc[Coordinator] \in {"idle", "sendVoteReq", "voting", "sendWillCommit"}
       => fin[Coordinator] = "idle"
  /\ pc[Coordinator] \in {"idle", "sendVoteReq", "voting"}
       => decision[Coordinator] = NoDecision
  /\ pc[Coordinator] = "answering" => decision[Coordinator] \in Decision
  /\ fin[Coordinator] = "telling" => decision[Coordinator] \in Decision
  /\ pc[Coordinator] = "sendVoteReq" => unsent[Coordinator] \subseteq Participants
  /\ pc[Coordinator] = "sendWillCommit" => unsent[Coordinator] \subseteq Replicators
  /\ \A h \in Hosts :
       /\ fin[h] \in {"completing", "telling"} => h = Coordinator
       /\ fin[h] \in {"overriding", "telling"} => unsent[h] \subseteq Participants
       /\ fin[h] = "completing" => unsent[h] \subseteq Replicators

Committed == decision[Coordinator] = "COMMIT"
Unanimous == \A p \in Participants : vote[p] = "yes"

(* What exists only after the coordinator has decided COMMIT. *)
Evidence == {"COMMIT", "WILLCOMMIT", "OVERRIDECOMMIT", "DECISIONCOMPLETED"}
FinalPC == {"waiting", "reading", "writing", "overriding", "completing"}

CommitInv ==
  /\ Committed => Unanimous
  /\ pc[Coordinator] = "sendWillCommit" => Committed
  /\ \A h \in Hosts : /\ decision[h] = "COMMIT" => Committed
                      /\ log[h] = "COMMIT" => Committed
                      /\ fin[h] \in FinalPC => Committed
  /\ applied # {} => Committed
  /\ \A p \in Participants : pc[p] = "committing" => Committed
  /\ \A m \in net : m.type \in Evidence => Committed
  /\ \A h \in Hosts : \A m \in queue[h] : m.type = "COMMIT" => Committed

(* A participant votes once, and its VOTEYES is in one place at a time. *)
YesOf(p) == Msg("VOTEYES", p, Coordinator)
VoteInv == \A p \in Participants :
  /\ pc[p] \in {"idle", "start"} => vote[p] = "none"
  /\ YesOf(p) \in net \cup queue[Coordinator] => vote[p] = "yes"
  /\ ~(YesOf(p) \in net /\ YesOf(p) \in queue[Coordinator])

(* The participants whose VOTEYES is no longer on its way. *)
Arrived == {p \in Participants : /\ vote[p] = "yes"
                                 /\ YesOf(p) \notin net
                                 /\ YesOf(p) \notin queue[Coordinator]}

CountInv == votes <= Cardinality(Arrived)

IInv == TypeOK /\ PhaseInv /\ CommitInv /\ VoteInv /\ CountInv

-----------------------------------------------------------------------------
(* Facts about the constants and the messages. *)

LEMMA HostFacts ==
  /\ Coordinator \in Hosts
  /\ Participants \subseteq Hosts
  /\ Replicators \subseteq Hosts
  /\ Coordinator \notin Participants
  /\ Coordinator \notin Replicators
  /\ Hosts = {Coordinator} \cup Participants \cup Replicators
BY HostAssumption DEF Hosts

LEMMA MessageFacts ==
  /\ \A p \in Participants :
       /\ Msg("VOTEREQ", Coordinator, p) \in Message
       /\ \A d \in Decision : Msg(d, Coordinator, p) \in Message
       /\ Msg("VOTEYES", p, Coordinator) \in Message
       /\ Msg("ABORT", p, Coordinator) \in Message
       /\ \A h \in Hosts : Msg("OVERRIDECOMMIT", h, p) \in Message
  /\ \A r \in Replicators : \A t \in {"WILLCOMMIT", "DECISIONCOMPLETED"} :
       Msg(t, Coordinator, r) \in Message
  /\ \A m \in Message :
       /\ m.type = "VOTEYES" => m.from \in Participants /\ m.to = Coordinator
       /\ m.type \in {"VOTEREQ", "COMMIT", "OVERRIDECOMMIT"} => m.to \in Participants
       /\ m.type \in {"WILLCOMMIT", "DECISIONCOMPLETED"} => m.to \in Replicators
       /\ m.to \in Hosts
       /\ m = Msg(m.type, m.from, m.to)
BY HostFacts DEF Message, Msg, Decision

(* Every send is of a message that its receiver expects. *)
LEMMA SendFacts ==
  ASSUME TypeOK, PhaseInv, NEW h \in Hosts, NEW t \in unsent[h], Sending(h)
  PROVE  /\ Msg(Outgoing(h), h, t) \in Message
         /\ Outgoing(h) # "VOTEYES"
         /\ Outgoing(h) \in Evidence =>
              \/ h = Coordinator /\ pc[h] = "sendWillCommit"
              \/ fin[h] \in {"overriding", "completing"}
              \/ Committed
<1>1. CASE h = Coordinator /\ pc[h] = "sendVoteReq"
  BY <1>1, MessageFacts DEF PhaseInv, Outgoing, Evidence
<1>2. CASE h = Coordinator /\ pc[h] = "sendWillCommit"
  BY <1>2, MessageFacts DEF PhaseInv, Outgoing
<1>3. CASE /\ ~(h = Coordinator /\ pc[h] \in {"sendVoteReq", "sendWillCommit"})
           /\ fin[h] = "overriding"
  BY <1>3, MessageFacts DEF PhaseInv, Outgoing
<1>4. CASE /\ ~(h = Coordinator /\ pc[h] \in {"sendVoteReq", "sendWillCommit"})
           /\ fin[h] = "completing"
  BY <1>4, MessageFacts DEF PhaseInv, Outgoing
<1>5. CASE /\ ~(h = Coordinator /\ pc[h] \in {"sendVoteReq", "sendWillCommit"})
           /\ fin[h] = "telling"
  <2>1. h = Coordinator /\ Outgoing(h) = decision[Coordinator]
    BY <1>5 DEF PhaseInv, Outgoing
  <2> QED BY <1>5, <2>1, MessageFacts DEF PhaseInv, Decision, Evidence, Committed
<1> QED BY <1>1, <1>2, <1>3, <1>4, <1>5 DEF Sending

-----------------------------------------------------------------------------
(* Every step preserves every part of IInv. *)

(* A decision that is logged or sent has been assigned. *)
LEMMA TypeStep ==
  ASSUME TypeOK, PhaseInv, [Next]_vars
  PROVE  TypeOK'
<1> USE HostFacts DEF TypeOK, PC, FinPC, Resting, Finished, Goto, Proceed, StartSend
<1>1. CASE ClientRequest
  BY <1>1 DEF ClientRequest
<1>2. CASE StartVoting
  BY <1>2 DEF StartVoting
<1>3. ASSUME NEW m \in queue[Coordinator], TakeVoteYes(m) PROVE TypeOK'
  BY <1>3 DEF TakeVoteYes, Decide, Decision, NoDecision
<1>4. ASSUME NEW m \in queue[Coordinator], TakeVoteAbort(m) PROVE TypeOK'
  BY <1>4 DEF TakeVoteAbort, Decide, Decision, NoDecision
<1>5. CASE CoordinatorTimeOut
  BY <1>5 DEF CoordinatorTimeOut, Decide, Decision, NoDecision
<1>6. CASE WillCommitSent
  BY <1>6 DEF WillCommitSent
<1>7. CASE AnswerClient
  BY <1>7 DEF AnswerClient
<1>8. ASSUME NEW h \in Hosts, NEW t \in Hosts, Sending(h), Send(h, t)
      PROVE  TypeOK'
  BY <1>8, SendFacts DEF Send
<1>9. ASSUME NEW h \in Hosts, LogFinalRead(h) PROVE TypeOK'
  BY <1>9 DEF LogFinalRead, AfterLogFinal, LogRead
<1>10. ASSUME NEW h \in Hosts, LogFinalWrite(h) PROVE TypeOK'
  BY <1>10 DEF LogFinalWrite, AfterLogFinal, LogWrite, LogValue, Loggable
<1>11. ASSUME NEW h \in Hosts, OverrideSent(h) PROVE TypeOK'
  BY <1>11 DEF OverrideSent, AfterLogFinal
<1>12. CASE CompletedSent
  BY <1>12 DEF CompletedSent
<1>13. CASE DecisionSent
  BY <1>13 DEF DecisionSent
<1>14. ASSUME NEW r \in Hosts, TakeCompleted(r) PROVE TypeOK'
  BY <1>14 DEF TakeCompleted
<1>15. ASSUME NEW r \in Hosts, ReplicatorTimeOut(r) PROVE TypeOK'
  BY <1>15 DEF ReplicatorTimeOut
<1>16. ASSUME NEW p \in Participants, RefuseVote(p) PROVE TypeOK'
  BY <1>16, MessageFacts DEF RefuseVote, Decision
<1>17. ASSUME NEW p \in Participants, GrantVote(p) PROVE TypeOK'
  BY <1>17, MessageFacts DEF GrantVote
<1>18. ASSUME NEW p \in Participants, NEW m \in queue[p], TakeDecision(p, m)
      PROVE  TypeOK'
  BY <1>18 DEF TakeDecision, Conclude, Decision, NoDecision
<1>19. ASSUME NEW p \in Participants, WorkerCommit(p) PROVE TypeOK'
  BY <1>19 DEF WorkerCommit
<1>20. ASSUME NEW p \in Participants, ParticipantTimeOut(p) PROVE TypeOK'
  BY <1>20 DEF ParticipantTimeOut
<1>21. ASSUME NEW p \in Participants, TerminationRead(p) PROVE TypeOK'
  BY <1>21 DEF TerminationRead, Conclude, LogRead, Decision, NoDecision
<1>22. ASSUME NEW p \in Participants, TerminationWrite(p) PROVE TypeOK'
  BY <1>22 DEF TerminationWrite, Conclude, LogWrite, LogValue, Loggable,
     Decision
<1>23. ASSUME NEW m \in net, DeliverVoteReq(m) PROVE TypeOK'
  BY <1>23, MessageFacts DEF DeliverVoteReq
<1>24. ASSUME NEW m \in net, DeliverWillCommit(m) PROVE TypeOK'
  BY <1>24, MessageFacts DEF DeliverWillCommit
<1>25. ASSUME NEW m \in net, DeliverOverride(m) PROVE TypeOK'
  BY <1>25, MessageFacts DEF DeliverOverride
<1>26. ASSUME NEW m \in net, DeliverCompleted(m) PROVE TypeOK'
  BY <1>26, MessageFacts DEF DeliverCompleted
<1>27. ASSUME NEW m \in net, DeliverOldRequest(m) PROVE TypeOK'
  BY <1>27, MessageFacts DEF DeliverOldRequest
<1>28. ASSUME NEW m \in net, Lose(m) PROVE TypeOK'
  BY <1>28 DEF Lose
<1>29. ASSUME NEW h \in Hosts, Crash(h) PROVE TypeOK'
  BY <1>29 DEF Crash
<1>30. CASE UNCHANGED vars
  BY <1>30 DEF vars
<1> QED
  BY <1>1, <1>2, <1>3, <1>4, <1>5, <1>6, <1>7, <1>8, <1>9, <1>10, <1>11,
     <1>12, <1>13, <1>14, <1>15, <1>16, <1>17, <1>18, <1>19, <1>20, <1>21,
     <1>22, <1>23, <1>24, <1>25, <1>26, <1>27, <1>28, <1>29, <1>30, HostFacts
  DEF Next, CoordinatorStep, FinalStep, ParticipantStep, Delivery, Sending

(* The coordinator's threads take their turns. *)
LEMMA PhaseStep ==
  ASSUME TypeOK, PhaseInv, CommitInv, [Next]_vars
  PROVE  PhaseInv'
<1> USE HostFacts DEF TypeOK, PhaseInv, CoordinatorPC, Resting, Finished, Goto, Proceed, StartSend
<1>1. CASE ClientRequest
  BY <1>1 DEF ClientRequest
<1>2. CASE StartVoting
  BY <1>2 DEF StartVoting
<1>3. ASSUME NEW m \in queue[Coordinator], TakeVoteYes(m) PROVE PhaseInv'
  BY <1>3 DEF TakeVoteYes, Decide, Decision, NoDecision
<1>4. ASSUME NEW m \in queue[Coordinator], TakeVoteAbort(m) PROVE PhaseInv'
  BY <1>4 DEF TakeVoteAbort, Decide, Decision, NoDecision
<1>5. CASE CoordinatorTimeOut
  BY <1>5 DEF CoordinatorTimeOut, Decide, Decision, NoDecision
<1>6. CASE WillCommitSent
  BY <1>6 DEF WillCommitSent, CommitInv, Committed, Decision
<1>7. CASE AnswerClient
  BY <1>7 DEF AnswerClient
<1>8. ASSUME NEW h \in Hosts, NEW t \in Hosts, Sending(h), Send(h, t)
      PROVE  PhaseInv'
  BY <1>8 DEF Send
<1>9. ASSUME NEW h \in Hosts, LogFinalRead(h) PROVE PhaseInv'
  BY <1>9 DEF LogFinalRead, AfterLogFinal
<1>10. ASSUME NEW h \in Hosts, LogFinalWrite(h) PROVE PhaseInv'
  BY <1>10 DEF LogFinalWrite, AfterLogFinal
<1>11. ASSUME NEW h \in Hosts, OverrideSent(h) PROVE PhaseInv'
  BY <1>11 DEF OverrideSent, AfterLogFinal
<1>12. CASE CompletedSent
  BY <1>12 DEF CompletedSent, CommitInv, Committed, FinalPC, Decision
<1>13. CASE DecisionSent
  BY <1>13 DEF DecisionSent
<1>14. ASSUME NEW r \in Hosts, TakeCompleted(r) PROVE PhaseInv'
  BY <1>14 DEF TakeCompleted
<1>15. ASSUME NEW r \in Hosts, ReplicatorTimeOut(r) PROVE PhaseInv'
  BY <1>15 DEF ReplicatorTimeOut
<1>16. ASSUME NEW p \in Participants, RefuseVote(p) PROVE PhaseInv'
  BY <1>16 DEF RefuseVote, Decision, NoDecision
<1>17. ASSUME NEW p \in Participants, GrantVote(p) PROVE PhaseInv'
  BY <1>17 DEF GrantVote
<1>18. ASSUME NEW p \in Participants, NEW m \in queue[p], TakeDecision(p, m)
      PROVE  PhaseInv'
  BY <1>18 DEF TakeDecision, Conclude, Decision, NoDecision
<1>19. ASSUME NEW p \in Participants, WorkerCommit(p) PROVE PhaseInv'
  BY <1>19 DEF WorkerCommit
<1>20. ASSUME NEW p \in Participants, ParticipantTimeOut(p) PROVE PhaseInv'
  BY <1>20 DEF ParticipantTimeOut
<1>21. ASSUME NEW p \in Participants, TerminationRead(p) PROVE PhaseInv'
  BY <1>21 DEF TerminationRead, Conclude, Decision, NoDecision
<1>22. ASSUME NEW p \in Participants, TerminationWrite(p) PROVE PhaseInv'
  BY <1>22 DEF TerminationWrite, Conclude, Decision, NoDecision
<1>23. ASSUME NEW m \in net, DeliverVoteReq(m) PROVE PhaseInv'
  BY <1>23, MessageFacts DEF DeliverVoteReq
<1>24. ASSUME NEW m \in net, DeliverWillCommit(m) PROVE PhaseInv'
  BY <1>24, MessageFacts DEF DeliverWillCommit
<1>25. ASSUME NEW m \in net, DeliverOverride(m) PROVE PhaseInv'
  BY <1>25 DEF DeliverOverride
<1>26. ASSUME NEW m \in net, DeliverCompleted(m) PROVE PhaseInv'
  BY <1>26 DEF DeliverCompleted
<1>27. ASSUME NEW m \in net, DeliverOldRequest(m) PROVE PhaseInv'
  BY <1>27 DEF DeliverOldRequest
<1>28. ASSUME NEW m \in net, Lose(m) PROVE PhaseInv'
  BY <1>28 DEF Lose
<1>29. ASSUME NEW h \in Hosts, Crash(h) PROVE PhaseInv'
  BY <1>29 DEF Crash
<1>30. CASE UNCHANGED vars
  BY <1>30 DEF vars
<1> QED
  BY <1>1, <1>2, <1>3, <1>4, <1>5, <1>6, <1>7, <1>8, <1>9, <1>10, <1>11,
     <1>12, <1>13, <1>14, <1>15, <1>16, <1>17, <1>18, <1>19, <1>20, <1>21,
     <1>22, <1>23, <1>24, <1>25, <1>26, <1>27, <1>28, <1>29, <1>30, HostFacts
  DEF Next, CoordinatorStep, FinalStep, ParticipantStep, Delivery, Sending

(* Sets of participants are finite, and only one has all of them. *)
LEMMA SubsetSize ==
  ASSUME NEW S \in SUBSET Participants
  PROVE  /\ IsFiniteSet(S)
         /\ Cardinality(S) \in Nat
         /\ Cardinality(S) <= Cardinality(Participants)
         /\ Cardinality(Participants) \in Nat
         /\ Cardinality(S) = Cardinality(Participants) => S = Participants
         /\ \A T \in SUBSET S : Cardinality(T) <= Cardinality(S)
BY FiniteAssumption, FS_Subset, FS_CardinalityType

(* A counted VOTEYES has arrived, and had not been counted before. *)
LEMMA VoteCounted ==
  ASSUME TypeOK, VoteInv, CountInv, NEW m \in queue[Coordinator], TakeVoteYes(m)
  PROVE  votes' <= Cardinality(Arrived')
<1> DEFINE p == m.from
<1>1. p \in Participants /\ m = YesOf(p) /\ vote[p] = "yes"
  BY HostFacts, MessageFacts DEF TypeOK, VoteInv, TakeVoteYes, YesOf
<1>2. p \notin Arrived
  BY <1>1 DEF Arrived
<1>3. queue'[Coordinator] = queue[Coordinator] \ {m}
  BY HostFacts DEF TakeVoteYes, TypeOK
<1>4. Arrived \subseteq Arrived'
  BY <1>3 DEF Arrived, TakeVoteYes
<1>5. p \in Arrived'
  BY <1>1, <1>3 DEF Arrived, VoteInv, TakeVoteYes
<1>6. Cardinality(Arrived \cup {p}) = Cardinality(Arrived) + 1
  BY <1>2, SubsetSize, FS_AddElement DEF Arrived
<1>7. Cardinality(Arrived \cup {p}) <= Cardinality(Arrived')
  BY <1>4, <1>5, SubsetSize DEF Arrived
<1>8. /\ Cardinality(Arrived) \in Nat /\ Cardinality(Arrived') \in Nat
      /\ votes \in Nat /\ votes <= Cardinality(Arrived) /\ votes' = votes + 1
  BY SubsetSize DEF Arrived, CountInv, TypeOK, TakeVoteYes
<1> QED BY <1>6, <1>7, <1>8

(* So the vote that completes the count completes the votes. *)
LEMMA CountComplete ==
  ASSUME TypeOK, VoteInv, CountInv, NEW m \in queue[Coordinator], TakeVoteYes(m),
         votes + 1 = Cardinality(Participants)
  PROVE  Unanimous
<1>1. Cardinality(Participants) <= Cardinality(Arrived')
  BY VoteCounted DEF TakeVoteYes
<1>2. Arrived' \in SUBSET Participants
  BY DEF Arrived
<1>3. Arrived' = Participants
  BY <1>1, <1>2, SubsetSize
<1> QED BY <1>3 DEF Arrived, Unanimous, TakeVoteYes

(* A COMMIT comes from evidence of another one, or from the full count. *)
LEMMA CommitStep ==
  ASSUME TypeOK, PhaseInv, CommitInv, VoteInv,
         CountInv, [Next]_vars
  PROVE  CommitInv'
<1> USE HostFacts DEF TypeOK, CommitInv, Committed, Unanimous, FinalPC, Evidence,
        Goto, Proceed, StartSend
<1>1. CASE ClientRequest
  BY <1>1 DEF ClientRequest
<1>2. CASE StartVoting
  BY <1>2 DEF StartVoting
<1>3. ASSUME NEW m \in queue[Coordinator], TakeVoteYes(m) PROVE CommitInv'
  BY <1>3, CountComplete DEF TakeVoteYes, Decide
<1>4. ASSUME NEW m \in queue[Coordinator], TakeVoteAbort(m) PROVE CommitInv'
  BY <1>4 DEF TakeVoteAbort, Decide, PhaseInv, NoDecision
<1>5. CASE CoordinatorTimeOut
  BY <1>5 DEF CoordinatorTimeOut, Decide, PhaseInv, NoDecision
<1>6. CASE WillCommitSent
  BY <1>6 DEF WillCommitSent
<1>7. CASE AnswerClient
  BY <1>7 DEF AnswerClient
<1>8. ASSUME NEW h \in Hosts, NEW t \in Hosts, Sending(h), Send(h, t)
      PROVE  CommitInv'
  <2>1. Outgoing(h) \in Evidence => Committed
    BY <1>8, SendFacts DEF Send
  <2>2. Msg(Outgoing(h), h, t).type = Outgoing(h)
    BY DEF Msg
  <2> QED BY <1>8, <2>1, <2>2 DEF Send
<1>9. ASSUME NEW h \in Hosts, LogFinalRead(h) PROVE CommitInv'
  BY <1>9 DEF LogFinalRead, AfterLogFinal, LogRead
<1>10. ASSUME NEW h \in Hosts, LogFinalWrite(h) PROVE CommitInv'
  BY <1>10 DEF LogFinalWrite, AfterLogFinal, LogWrite
<1>11. ASSUME NEW h \in Hosts, OverrideSent(h) PROVE CommitInv'
  BY <1>11 DEF OverrideSent, AfterLogFinal
<1>12. CASE CompletedSent
  BY <1>12 DEF CompletedSent, PhaseInv
<1>13. CASE DecisionSent
  BY <1>13 DEF DecisionSent
<1>14. ASSUME NEW r \in Hosts, TakeCompleted(r) PROVE CommitInv'
  BY <1>14 DEF TakeCompleted
<1>15. ASSUME NEW r \in Hosts, ReplicatorTimeOut(r) PROVE CommitInv'
  BY <1>15 DEF ReplicatorTimeOut
<1>16. ASSUME NEW p \in Participants, RefuseVote(p) PROVE CommitInv'
  BY <1>16 DEF RefuseVote, Msg, VoteInv
<1>17. ASSUME NEW p \in Participants, GrantVote(p) PROVE CommitInv'
  BY <1>17 DEF GrantVote, Msg, VoteInv
<1>18. ASSUME NEW p \in Participants, NEW m \in queue[p], TakeDecision(p, m)
      PROVE  CommitInv'
  BY <1>18 DEF TakeDecision, Conclude, Decision, NoDecision
<1>19. ASSUME NEW p \in Participants, WorkerCommit(p) PROVE CommitInv'
  BY <1>19 DEF WorkerCommit
<1>20. ASSUME NEW p \in Participants, ParticipantTimeOut(p) PROVE CommitInv'
  BY <1>20 DEF ParticipantTimeOut
<1>21. ASSUME NEW p \in Participants, TerminationRead(p) PROVE CommitInv'
  BY <1>21 DEF TerminationRead, Conclude, LogRead
<1>22. ASSUME NEW p \in Participants, TerminationWrite(p) PROVE CommitInv'
  BY <1>22 DEF TerminationWrite, Conclude, LogWrite
<1>23. ASSUME NEW m \in net, DeliverVoteReq(m) PROVE CommitInv'
  BY <1>23, MessageFacts DEF DeliverVoteReq
<1>24. ASSUME NEW m \in net, DeliverWillCommit(m) PROVE CommitInv'
  BY <1>24, MessageFacts DEF DeliverWillCommit
<1>25. ASSUME NEW m \in net, DeliverOverride(m) PROVE CommitInv'
  BY <1>25, MessageFacts DEF DeliverOverride
<1>26. ASSUME NEW m \in net, DeliverCompleted(m) PROVE CommitInv'
  BY <1>26 DEF DeliverCompleted
<1>27. ASSUME NEW m \in net, DeliverOldRequest(m) PROVE CommitInv'
  BY <1>27, MessageFacts DEF DeliverOldRequest, Decision
<1>28. ASSUME NEW m \in net, Lose(m) PROVE CommitInv'
  BY <1>28 DEF Lose
<1>29. ASSUME NEW h \in Hosts, Crash(h) PROVE CommitInv'
  BY <1>29 DEF Crash, Resting, Finished
<1>30. CASE UNCHANGED vars
  BY <1>30 DEF vars
<1> QED
  BY <1>1, <1>2, <1>3, <1>4, <1>5, <1>6, <1>7, <1>8, <1>9, <1>10, <1>11,
     <1>12, <1>13, <1>14, <1>15, <1>16, <1>17, <1>18, <1>19, <1>20, <1>21,
     <1>22, <1>23, <1>24, <1>25, <1>26, <1>27, <1>28, <1>29, <1>30, HostFacts
  DEF Next, CoordinatorStep, FinalStep, ParticipantStep, Delivery, Sending

(* A participant sends one VOTEYES. *)
LEMMA VoteStep ==
  ASSUME TypeOK, PhaseInv, VoteInv, [Next]_vars
  PROVE  VoteInv'
<1> USE HostFacts DEF TypeOK, VoteInv, YesOf, Msg, Goto
<1>1. CASE ClientRequest
  BY <1>1 DEF ClientRequest
<1>2. CASE StartVoting
  BY <1>2 DEF StartVoting
<1>3. ASSUME NEW m \in queue[Coordinator], TakeVoteYes(m) PROVE VoteInv'
  BY <1>3 DEF TakeVoteYes, Decide
<1>4. ASSUME NEW m \in queue[Coordinator], TakeVoteAbort(m) PROVE VoteInv'
  BY <1>4 DEF TakeVoteAbort, Decide
<1>5. CASE CoordinatorTimeOut
  BY <1>5 DEF CoordinatorTimeOut, Decide
<1>6. CASE WillCommitSent
  BY <1>6 DEF WillCommitSent
<1>7. CASE AnswerClient
  BY <1>7 DEF AnswerClient
<1>8. ASSUME NEW h \in Hosts, NEW t \in Hosts, Sending(h), Send(h, t)
      PROVE  VoteInv'
  BY <1>8, SendFacts DEF Send
<1>9. ASSUME NEW h \in Hosts, LogFinalRead(h) PROVE VoteInv'
  BY <1>9 DEF LogFinalRead, AfterLogFinal
<1>10. ASSUME NEW h \in Hosts, LogFinalWrite(h) PROVE VoteInv'
  BY <1>10 DEF LogFinalWrite, AfterLogFinal
<1>11. ASSUME NEW h \in Hosts, OverrideSent(h) PROVE VoteInv'
  BY <1>11 DEF OverrideSent, AfterLogFinal
<1>12. CASE CompletedSent
  BY <1>12 DEF CompletedSent
<1>13. CASE DecisionSent
  BY <1>13 DEF DecisionSent
<1>14. ASSUME NEW r \in Hosts, TakeCompleted(r) PROVE VoteInv'
  BY <1>14 DEF TakeCompleted
<1>15. ASSUME NEW r \in Hosts, ReplicatorTimeOut(r) PROVE VoteInv'
  BY <1>15 DEF ReplicatorTimeOut
<1>16. ASSUME NEW p \in Participants, RefuseVote(p) PROVE VoteInv'
  BY <1>16 DEF RefuseVote
<1>17. ASSUME NEW p \in Participants, GrantVote(p) PROVE VoteInv'
  BY <1>17 DEF GrantVote
<1>18. ASSUME NEW p \in Participants, NEW m \in queue[p], TakeDecision(p, m)
      PROVE  VoteInv'
  BY <1>18 DEF TakeDecision, Conclude
<1>19. ASSUME NEW p \in Participants, WorkerCommit(p) PROVE VoteInv'
  BY <1>19 DEF WorkerCommit
<1>20. ASSUME NEW p \in Participants, ParticipantTimeOut(p) PROVE VoteInv'
  BY <1>20 DEF ParticipantTimeOut
<1>21. ASSUME NEW p \in Participants, TerminationRead(p) PROVE VoteInv'
  BY <1>21 DEF TerminationRead, Conclude
<1>22. ASSUME NEW p \in Participants, TerminationWrite(p) PROVE VoteInv'
  BY <1>22 DEF TerminationWrite, Conclude
<1>23. ASSUME NEW m \in net, DeliverVoteReq(m) PROVE VoteInv'
  BY <1>23, MessageFacts DEF DeliverVoteReq
<1>24. ASSUME NEW m \in net, DeliverWillCommit(m) PROVE VoteInv'
  BY <1>24 DEF DeliverWillCommit
<1>25. ASSUME NEW m \in net, DeliverOverride(m) PROVE VoteInv'
  BY <1>25 DEF DeliverOverride
<1>26. ASSUME NEW m \in net, DeliverCompleted(m) PROVE VoteInv'
  BY <1>26 DEF DeliverCompleted
<1>27. ASSUME NEW m \in net, DeliverOldRequest(m) PROVE VoteInv'
  BY <1>27, MessageFacts DEF DeliverOldRequest
<1>28. ASSUME NEW m \in net, Lose(m) PROVE VoteInv'
  BY <1>28 DEF Lose
<1>29. ASSUME NEW h \in Hosts, Crash(h) PROVE VoteInv'
  BY <1>29 DEF Crash, Resting, Finished
<1>30. CASE UNCHANGED vars
  BY <1>30 DEF vars
<1> QED
  BY <1>1, <1>2, <1>3, <1>4, <1>5, <1>6, <1>7, <1>8, <1>9, <1>10, <1>11,
     <1>12, <1>13, <1>14, <1>15, <1>16, <1>17, <1>18, <1>19, <1>20, <1>21,
     <1>22, <1>23, <1>24, <1>25, <1>26, <1>27, <1>28, <1>29, <1>30, HostFacts
  DEF Next, CoordinatorStep, FinalStep, ParticipantStep, Delivery, Sending

(* The count stays covered if no arrived vote is called back. *)
LEMMA ArrivedGrows ==
  ASSUME TypeOK, CountInv, votes' = votes, Arrived \subseteq Arrived'
  PROVE  CountInv'
<1>1. Arrived' \in SUBSET Participants
  BY DEF Arrived
<1>2. /\ Cardinality(Arrived) \in Nat /\ Cardinality(Arrived') \in Nat
      /\ Cardinality(Arrived) <= Cardinality(Arrived')
  BY <1>1, SubsetSize
<1> QED BY <1>2 DEF CountInv, TypeOK

(* Votes are counted at most once. *)
LEMMA CountStep ==
  ASSUME TypeOK, PhaseInv, VoteInv, CountInv, [Next]_vars
  PROVE  CountInv'
<1> USE HostFacts DEF TypeOK, VoteInv, Arrived, YesOf, Msg
<1>1. CASE ClientRequest
  BY <1>1, ArrivedGrows DEF ClientRequest
<1>2. CASE StartVoting
  BY <1>2, ArrivedGrows DEF StartVoting
<1>3. ASSUME NEW m \in queue[Coordinator], TakeVoteYes(m) PROVE CountInv'
  BY <1>3, ArrivedGrows, VoteCounted DEF TakeVoteYes, Decide, CountInv
<1>4. ASSUME NEW m \in queue[Coordinator], TakeVoteAbort(m) PROVE CountInv'
  BY <1>4, ArrivedGrows DEF TakeVoteAbort, Decide
<1>5. CASE CoordinatorTimeOut
  BY <1>5, ArrivedGrows DEF CoordinatorTimeOut, Decide
<1>6. CASE WillCommitSent
  BY <1>6, ArrivedGrows DEF WillCommitSent
<1>7. CASE AnswerClient
  BY <1>7, ArrivedGrows DEF AnswerClient
<1>8. ASSUME NEW h \in Hosts, NEW t \in Hosts, Sending(h), Send(h, t)
      PROVE  CountInv'
  BY <1>8, ArrivedGrows, SendFacts DEF Send
<1>9. ASSUME NEW h \in Hosts, LogFinalRead(h) PROVE CountInv'
  BY <1>9, ArrivedGrows DEF LogFinalRead, AfterLogFinal
<1>10. ASSUME NEW h \in Hosts, LogFinalWrite(h) PROVE CountInv'
  BY <1>10, ArrivedGrows DEF LogFinalWrite, AfterLogFinal
<1>11. ASSUME NEW h \in Hosts, OverrideSent(h) PROVE CountInv'
  BY <1>11, ArrivedGrows DEF OverrideSent, AfterLogFinal
<1>12. CASE CompletedSent
  BY <1>12, ArrivedGrows DEF CompletedSent
<1>13. CASE DecisionSent
  BY <1>13, ArrivedGrows DEF DecisionSent
<1>14. ASSUME NEW r \in Hosts, TakeCompleted(r) PROVE CountInv'
  BY <1>14, ArrivedGrows DEF TakeCompleted
<1>15. ASSUME NEW r \in Hosts, ReplicatorTimeOut(r) PROVE CountInv'
  BY <1>15, ArrivedGrows DEF ReplicatorTimeOut
<1>16. ASSUME NEW p \in Participants, RefuseVote(p) PROVE CountInv'
  BY <1>16, ArrivedGrows DEF RefuseVote
<1>17. ASSUME NEW p \in Participants, GrantVote(p) PROVE CountInv'
  BY <1>17, ArrivedGrows DEF GrantVote
<1>18. ASSUME NEW p \in Participants, NEW m \in queue[p], TakeDecision(p, m)
      PROVE  CountInv'
  BY <1>18, ArrivedGrows DEF TakeDecision, Conclude
<1>19. ASSUME NEW p \in Participants, WorkerCommit(p) PROVE CountInv'
  BY <1>19, ArrivedGrows DEF WorkerCommit
<1>20. ASSUME NEW p \in Participants, ParticipantTimeOut(p) PROVE CountInv'
  BY <1>20, ArrivedGrows DEF ParticipantTimeOut
<1>21. ASSUME NEW p \in Participants, TerminationRead(p) PROVE CountInv'
  BY <1>21, ArrivedGrows DEF TerminationRead, Conclude
<1>22. ASSUME NEW p \in Participants, TerminationWrite(p) PROVE CountInv'
  BY <1>22, ArrivedGrows DEF TerminationWrite, Conclude
<1>23. ASSUME NEW m \in net, DeliverVoteReq(m) PROVE CountInv'
  BY <1>23, ArrivedGrows, MessageFacts DEF DeliverVoteReq
<1>24. ASSUME NEW m \in net, DeliverWillCommit(m) PROVE CountInv'
  BY <1>24, ArrivedGrows DEF DeliverWillCommit
<1>25. ASSUME NEW m \in net, DeliverOverride(m) PROVE CountInv'
  BY <1>25, ArrivedGrows DEF DeliverOverride
<1>26. ASSUME NEW m \in net, DeliverCompleted(m) PROVE CountInv'
  BY <1>26, ArrivedGrows DEF DeliverCompleted
<1>27. ASSUME NEW m \in net, DeliverOldRequest(m) PROVE CountInv'
  BY <1>27, ArrivedGrows, MessageFacts DEF DeliverOldRequest
<1>28. ASSUME NEW m \in net, Lose(m) PROVE CountInv'
  BY <1>28, ArrivedGrows DEF Lose
<1>29. ASSUME NEW h \in Hosts, Crash(h) PROVE CountInv'
  BY <1>29, ArrivedGrows DEF Crash, Resting, Finished
<1>30. CASE UNCHANGED vars
  BY <1>30, ArrivedGrows DEF vars
<1> QED
  BY <1>1, <1>2, <1>3, <1>4, <1>5, <1>6, <1>7, <1>8, <1>9, <1>10, <1>11,
     <1>12, <1>13, <1>14, <1>15, <1>16, <1>17, <1>18, <1>19, <1>20, <1>21,
     <1>22, <1>23, <1>24, <1>25, <1>26, <1>27, <1>28, <1>29, <1>30, HostFacts
  DEF Next, CoordinatorStep, FinalStep, ParticipantStep, Delivery, Sending

-----------------------------------------------------------------------------
(* The theorems. *)

LEMMA InitInv == Init => IInv
<1> SUFFICES ASSUME Init PROVE IInv
  OBVIOUS
<1> USE HostFacts DEF Init
<1>1. TypeOK
  BY DEF TypeOK, PC, FinPC, Resting, LogValue, NoDecision
<1>2. PhaseInv /\ CommitInv
  BY DEF PhaseInv, CoordinatorPC, CommitInv, Committed, FinalPC, NoDecision
<1>3. VoteInv
  BY DEF VoteInv
<1>4. CountInv
  BY SubsetSize DEF CountInv, Arrived
<1> QED BY <1>1, <1>2, <1>3, <1>4 DEF IInv

LEMMA StepInv == IInv /\ [Next]_vars => IInv'
BY TypeStep, PhaseStep, CommitStep, VoteStep, CountStep DEF IInv

(* IInv holds in every reachable state, for all participants, replicators  *)
(* and faults.                                                             *)
THEOREM InductiveInvariant == Spec => []IInv
BY InitInv, StepInv, PTL DEF Spec

(* Every variable keeps its type: logs hold what checkUndefinedInput lets  *)
(* through (log.hpp:59-63), and no message has a receiver that does not    *)
(* expect it (Sender.hpp:57-78).                                           *)
THEOREM TypeCorrect == Spec => []TypeOK
<1>1. IInv => TypeOK
  BY DEF IInv
<1> QED BY <1>1, InductiveInvariant, PTL

(* A COMMIT anywhere goes back to a coordinator that decided it on         *)
(* everybody's yes (Coordinator2.h:28-41), however impatient or faulty     *)
(* participants and replicators are.                                       *)
THEOREM CommitsBacked == Spec => []CommitBacked
<1>1. IInv => CommitBacked
  BY DEF IInv, CommitInv, Committed, Unanimous, CommitBacked
<1> QED BY <1>1, InductiveInvariant, PTL
-----------------------------------------------------------------------------
(* Why a settled COMMIT stays, and an applied one is settled somewhere.    *)

Abandoned == {h \in Hosts : "ABORT" \in {log[h], prev[h]}}

(* Only a participant logs ABORT, as the last thing that it does. *)
AbortInv == \A h \in Abandoned : h \in Participants /\ pc[h] \in Finished

Durable == \E h \in Hosts : Settled(h)

(* Whatever makes a participant or a Committer apply the transaction. *)
AppliedInv ==
  \/ Durable
  \/ /\ applied = {}
     /\ \A h \in Hosts : /\ fin[h] \notin {"overriding", "completing"}
                         /\ \A m \in queue[h] : m.type # "COMMIT"
     /\ \A p \in Participants : pc[p] # "committing"
     /\ Committed => fin[Coordinator] # "telling"
     /\ \A m \in net : m.type \notin {"COMMIT", "OVERRIDECOMMIT"}

(* Steps that touch neither a log nor `prev`. *)
LEMMA AbortKept ==
  ASSUME AbortInv, UNCHANGED <<log, prev>>,
         \A p \in Participants : pc[p] \in Finished => pc'[p] \in Finished
  PROVE  AbortInv'
BY DEF AbortInv, Abandoned

LEMMA AbortStep ==
  ASSUME TypeOK, AbortInv, [Next]_vars
  PROVE  AbortInv'
<1> USE HostFacts DEF TypeOK, Goto, Proceed, Finished
<1>0. \A p \in Participants : p # Coordinator
  OBVIOUS
<1>1. CASE ClientRequest
  BY <1>0, <1>1, AbortKept DEF ClientRequest
<1>2. CASE StartVoting \/ WillCommitSent \/ AnswerClient
  BY <1>0, <1>2, AbortKept DEF StartVoting, WillCommitSent, AnswerClient
<1>3. ASSUME NEW m \in queue[Coordinator], TakeVoteYes(m) \/ TakeVoteAbort(m)
      PROVE  AbortInv'
  BY <1>0, <1>3, AbortKept DEF TakeVoteYes, TakeVoteAbort, Decide
<1>4. CASE CoordinatorTimeOut
  BY <1>0, <1>4, AbortKept DEF CoordinatorTimeOut, Decide
<1>5. ASSUME NEW h \in Hosts, NEW t \in Hosts, Send(h, t) PROVE AbortInv'
  BY <1>5, AbortKept DEF Send
<1>6. ASSUME NEW h \in Hosts, LogFinalRead(h) PROVE AbortInv'
  BY <1>6 DEF LogFinalRead, LogRead, AbortInv, Abandoned
<1>7. ASSUME NEW h \in Hosts, LogFinalWrite(h) PROVE AbortInv'
  BY <1>7 DEF LogFinalWrite, LogWrite, AbortInv, Abandoned
<1>8. ASSUME NEW h \in Hosts, OverrideSent(h) \/ TakeCompleted(h) \/ ReplicatorTimeOut(h)
      PROVE  AbortInv'
  BY <1>8, AbortKept DEF OverrideSent, TakeCompleted, ReplicatorTimeOut
<1>9. CASE CompletedSent \/ DecisionSent
  BY <1>9, AbortKept DEF CompletedSent, DecisionSent
<1>10. ASSUME NEW p \in Participants, RefuseVote(p) \/ GrantVote(p) PROVE AbortInv'
  BY <1>10, AbortKept DEF RefuseVote, GrantVote
<1>11. ASSUME NEW p \in Participants, NEW m \in queue[p], TakeDecision(p, m)
       PROVE  AbortInv'
  BY <1>11, AbortKept DEF TakeDecision, Conclude
<1>12. ASSUME NEW p \in Participants, WorkerCommit(p) \/ ParticipantTimeOut(p)
       PROVE  AbortInv'
  BY <1>12, AbortKept DEF WorkerCommit, ParticipantTimeOut
<1>13. ASSUME NEW p \in Participants, TerminationRead(p) PROVE AbortInv'
  BY <1>13, AbortKept DEF TerminationRead, Conclude
<1>14. ASSUME NEW p \in Participants, TerminationWrite(p) PROVE AbortInv'
  BY <1>14 DEF TerminationWrite, Conclude, LogWrite, AbortInv, Abandoned
<1>15. ASSUME NEW m \in net, DeliverVoteReq(m) PROVE AbortInv'
  BY <1>15, AbortKept, MessageFacts DEF DeliverVoteReq
<1>16. ASSUME NEW m \in net,
              \/ DeliverWillCommit(m) \/ DeliverOverride(m) \/ DeliverCompleted(m)
              \/ DeliverOldRequest(m) \/ Lose(m)
       PROVE  AbortInv'
  BY <1>16, AbortKept
  DEF DeliverWillCommit, DeliverOverride, DeliverCompleted, DeliverOldRequest, Lose
<1>17. ASSUME NEW h \in Hosts, Crash(h) PROVE AbortInv'
  BY <1>17, AbortKept DEF Crash, Resting
<1>18. CASE UNCHANGED vars
  BY <1>18, AbortKept DEF vars
<1> QED
  BY <1>1, <1>2, <1>3, <1>4, <1>5, <1>6, <1>7, <1>8, <1>9, <1>10, <1>11, <1>12, <1>13,
     <1>14, <1>15, <1>16, <1>17, <1>18
  DEF Next, CoordinatorStep, FinalStep, ParticipantStep, Delivery

(* A participant that reads COMMIT does not write; one that has read       *)
(* something else is not settled.                                          *)
LEMMA SettledStays ==
  ASSUME TypeOK, [Next]_vars, NEW h \in Hosts, Settled(h)
  PROVE  Settled(h)'
<1> USE HostFacts DEF TypeOK, Settled, Goto
<1>1. ASSUME NEW m \in queue[Coordinator], TakeVoteYes(m) \/ TakeVoteAbort(m)
      PROVE  Settled(h)'
  BY <1>1 DEF TakeVoteYes, TakeVoteAbort, Decide
<1>2. CASE \/ ClientRequest \/ StartVoting \/ CoordinatorTimeOut \/ WillCommitSent
           \/ AnswerClient \/ CompletedSent \/ DecisionSent
  BY <1>2 DEF ClientRequest, StartVoting, CoordinatorTimeOut, Decide, WillCommitSent,
              AnswerClient, CompletedSent, DecisionSent
<1>3. ASSUME NEW g \in Hosts, NEW t \in Hosts, Send(g, t) PROVE Settled(h)'
  BY <1>3 DEF Send
<1>4. ASSUME NEW g \in Hosts, LogFinalWrite(g) PROVE Settled(h)'
  BY <1>4 DEF LogFinalWrite, LogWrite
<1>5. ASSUME NEW g \in Hosts, \/ LogFinalRead(g) \/ OverrideSent(g)
                              \/ TakeCompleted(g) \/ ReplicatorTimeOut(g)
      PROVE  Settled(h)'
  BY <1>5 DEF LogFinalRead, OverrideSent, TakeCompleted, ReplicatorTimeOut
<1>6. ASSUME NEW p \in Participants,
             \/ RefuseVote(p) \/ GrantVote(p) \/ WorkerCommit(p) \/ ParticipantTimeOut(p)
      PROVE  Settled(h)'
  BY <1>6 DEF RefuseVote, GrantVote, WorkerCommit, ParticipantTimeOut
<1>7. ASSUME NEW p \in Participants, NEW m \in queue[p], TakeDecision(p, m)
      PROVE  Settled(h)'
  BY <1>7 DEF TakeDecision, Conclude
<1>8. ASSUME NEW p \in Participants, TerminationRead(p) PROVE Settled(h)'
  BY <1>8 DEF TerminationRead, LogRead, Conclude, Decision
<1>9. ASSUME NEW p \in Participants, TerminationWrite(p) PROVE Settled(h)'
  BY <1>9 DEF TerminationWrite, LogWrite, Conclude
<1>10. ASSUME NEW m \in net,
              \/ DeliverVoteReq(m) \/ DeliverWillCommit(m) \/ DeliverOverride(m)
              \/ DeliverCompleted(m) \/ DeliverOldRequest(m) \/ Lose(m)
       PROVE  Settled(h)'
  BY <1>10 DEF DeliverVoteReq, DeliverWillCommit, DeliverOverride, DeliverCompleted,
               DeliverOldRequest, Lose
<1>11. ASSUME NEW g \in Hosts, Crash(g) PROVE Settled(h)'
  BY <1>11 DEF Crash
<1>12. CASE UNCHANGED vars
  BY <1>12 DEF vars
<1> QED
  BY <1>1, <1>2, <1>3, <1>4, <1>5, <1>6, <1>7, <1>8, <1>9, <1>10, <1>11, <1>12
  DEF Next, CoordinatorStep, FinalStep, ParticipantStep, Delivery

(* The coordinator tells the participants after its own logFinal, whose    *)
(* log no participant writes, and logFinal sends an override after its     *)
(* LOG_WRITE, where the participant has ended.                             *)
LEMMA AppliedStep ==
  ASSUME TypeOK, PhaseInv, AbortInv, AppliedInv, [Next]_vars
  PROVE  AppliedInv'
<1> USE HostFacts DEF TypeOK, AppliedInv, Committed, Goto, Proceed
<1>0. CASE Durable
  BY <1>0, SettledStays DEF Durable
<1> SUFFICES ASSUME ~ Durable PROVE AppliedInv'
  BY <1>0
<1>a. \A h \in Hosts : log[h] = "COMMIT" => pc[h] = "aborting"
  BY DEF Durable, Settled
<1>b. log[Coordinator] # "COMMIT"
  BY <1>a DEF PhaseInv, CoordinatorPC, Finished
<1>1. CASE ClientRequest
  BY <1>1 DEF ClientRequest
<1>2. CASE StartVoting \/ WillCommitSent \/ AnswerClient
  BY <1>2 DEF StartVoting, WillCommitSent, AnswerClient
<1>3. ASSUME NEW m \in queue[Coordinator], TakeVoteYes(m) \/ TakeVoteAbort(m)
      PROVE  AppliedInv'
  BY <1>3 DEF TakeVoteYes, TakeVoteAbort, Decide, PhaseInv
<1>4. CASE CoordinatorTimeOut
  BY <1>4 DEF CoordinatorTimeOut, Decide, PhaseInv
<1>5. ASSUME NEW h \in Hosts, NEW t \in Hosts, Sending(h), Send(h, t) PROVE AppliedInv'
  <2>1. Outgoing(h) \notin {"COMMIT", "OVERRIDECOMMIT"}
    BY <1>5 DEF Sending, Outgoing, PhaseInv, Decision
  <2>2. PICK m : m.type \notin {"COMMIT", "OVERRIDECOMMIT"} /\ net' = net \cup {m}
    BY <1>5, <2>1 DEF Send, Msg
  <2> QED BY <1>5, <2>2 DEF Send
<1>6. ASSUME NEW h \in Hosts, LogFinalRead(h) PROVE AppliedInv'
  BY <1>6, <1>b DEF LogFinalRead, AfterLogFinal
<1>7. ASSUME NEW h \in Hosts, LogFinalWrite(h) PROVE AppliedInv'
  <2>1. pc' = pc /\ log'[h] = "COMMIT"
    BY <1>7 DEF LogFinalWrite, LogWrite
  <2>2. CASE h = Coordinator \/ prev[h] = "ABORT"
    <3>1. pc[h] # "aborting"
      BY <2>2 DEF PhaseInv, CoordinatorPC, AbortInv, Abandoned, Finished
    <3> QED BY <2>1, <3>1 DEF Durable, Settled
  <2>3. CASE h # Coordinator /\ prev[h] # "ABORT"
    BY <1>7, <2>3 DEF LogFinalWrite, AfterLogFinal
  <2> QED BY <2>2, <2>3
<1>8. ASSUME NEW h \in Hosts, OverrideSent(h) \/ TakeCompleted(h) \/ ReplicatorTimeOut(h)
      PROVE  AppliedInv'
  BY <1>8 DEF OverrideSent, TakeCompleted, ReplicatorTimeOut
<1>9. CASE CompletedSent \/ DecisionSent
  BY <1>9 DEF CompletedSent, DecisionSent
<1>10. ASSUME NEW p \in Participants, RefuseVote(p) \/ GrantVote(p) PROVE AppliedInv'
  <2>1. PICK m : m.type \notin {"COMMIT", "OVERRIDECOMMIT"} /\ net' = net \cup {m}
    BY <1>10 DEF RefuseVote, GrantVote, Msg
  <2>2. /\ UNCHANGED <<fin, applied, queue, decision[Coordinator]>>
        /\ \A q \in Participants : pc'[q] = "committing" => pc[q] = "committing"
    BY <1>10 DEF RefuseVote, GrantVote
  <2> QED BY <2>1, <2>2
<1>11. ASSUME NEW p \in Participants, NEW m \in queue[p], TakeDecision(p, m)
       PROVE  AppliedInv'
  BY <1>11 DEF TakeDecision, Conclude
<1>12. ASSUME NEW p \in Participants, WorkerCommit(p) \/ ParticipantTimeOut(p)
       PROVE  AppliedInv'
  BY <1>12 DEF WorkerCommit, ParticipantTimeOut
<1>13. ASSUME NEW p \in Participants, TerminationRead(p) PROVE AppliedInv'
  <2>1. log[p] # "COMMIT"
    BY <1>13, <1>a DEF TerminationRead
  <2> QED BY <1>13, <2>1 DEF TerminationRead, Conclude, LogRead, Decision
<1>14. ASSUME NEW p \in Participants, TerminationWrite(p) PROVE AppliedInv'
  BY <1>14 DEF TerminationWrite, Conclude
<1>15. ASSUME NEW m \in net, DeliverVoteReq(m) \/ DeliverOverride(m) PROVE AppliedInv'
  BY <1>15 DEF DeliverVoteReq, DeliverOverride
<1>16. ASSUME NEW m \in net,
              DeliverWillCommit(m) \/ DeliverCompleted(m) \/ DeliverOldRequest(m) \/ Lose(m)
       PROVE  AppliedInv'
  BY <1>16 DEF DeliverWillCommit, DeliverCompleted, DeliverOldRequest, Lose
<1>17. ASSUME NEW h \in Hosts, Crash(h) PROVE AppliedInv'
  BY <1>17 DEF Crash, Resting, Finished
<1>18. CASE UNCHANGED vars
  BY <1>18 DEF vars
<1> QED
  BY <1>1, <1>2, <1>3, <1>4, <1>5, <1>6, <1>7, <1>8, <1>9, <1>10, <1>11, <1>12, <1>13,
     <1>14, <1>15, <1>16, <1>17, <1>18
  DEF Next, CoordinatorStep, FinalStep, ParticipantStep, Delivery, Sending

LEMMA AbortHolds == Spec => []AbortInv
<1>1. Init => AbortInv
  BY DEF Init, AbortInv, Abandoned
<1>2. IInv /\ AbortInv /\ [Next]_vars => AbortInv'
  BY AbortStep DEF IInv
<1> QED BY <1>1, <1>2, InductiveInvariant, PTL DEF Spec

(* A participant and a replicator of one host read their log first and     *)
(* write it later (TransactionHandler2.hpp:15-23, 37-40), at any times and *)
(* with any faults: a COMMIT is lost only where both have read before      *)
(* either wrote, and never after it has replaced an ABORT that was found.  *)
THEOREM CommitsStay == Spec => CommitStays
<1>1. IInv /\ AbortInv /\ [Next]_vars
        => [\A h \in Hosts :
              \/ Settled(h)
              \/ log[h] = "COMMIT" /\ prev[h] = "ABORT"
              => Settled(h)']_vars
  <2> SUFFICES ASSUME IInv, AbortInv, [Next]_vars, NEW h \in Hosts,
                      Settled(h) \/ (log[h] = "COMMIT" /\ prev[h] = "ABORT")
               PROVE  Settled(h)'
    OBVIOUS
  <2>1. Settled(h)
    BY DEF AbortInv, Abandoned, Settled, Finished
  <2> QED BY <2>1, SettledStays DEF IInv
<1> QED BY <1>1, InductiveInvariant, AbortHolds, PTL DEF Spec, CommitStays

(* Where worker.COMMIT has run, in a participant (Participant2.h:54-57) or *)
(* in a Committer (Committer.h:14-18), COMMIT is in a log from which that  *)
(* race cannot remove it.                                                  *)
THEOREM AppliedDurable == Spec => []AppliedIsDurable
<1>1. Init => AppliedInv
  BY HostFacts DEF Init, AppliedInv, Committed, NoDecision
<1>2. IInv /\ AbortInv /\ AppliedInv /\ [Next]_vars => AppliedInv'
  BY AppliedStep DEF IInv
<1>3. AppliedInv => AppliedIsDurable
  BY DEF AppliedInv, AppliedIsDurable, Durable
<1> QED BY <1>1, <1>2, <1>3, InductiveInvariant, AbortHolds, PTL DEF Spec
-----------------------------------------------------------------------------
(* What a thread that ends has logged.  A participant that gives up and a  *)
(* replicator that takes over write the same log if they share a host.     *)
(* Then the participants must have been patient.                           *)
NoRace == Patient \/ Participants \cap Replicators = {}

(* Nobody but participants is left, and nobody will start logFinal. *)
AllOver ==
  /\ pc[Coordinator] \in Finished
  /\ \A h \in Hosts : fin[h] \in Resting
  /\ \A m \in net : m.type # "WILLCOMMIT"

LateInv ==
  /\ \A h \in Hosts \ ({Coordinator} \cup Replicators) : fin[h] = "idle"
  /\ \A p \in Participants :
       /\ Patient /\ pc[p] \in {"reading", "aborting"} => AllOver
       /\ pc[p] = "aborting" => log[p] # "COMMIT"

LEMMA AllOverStays ==
  ASSUME TypeOK, PhaseInv, AllOver, [Next]_vars
  PROVE  AllOver'
<1> USE HostFacts DEF TypeOK, AllOver, Finished, Resting, Goto, Proceed
<1>1. CASE ClientRequest
  BY <1>1 DEF ClientRequest
<1>2. CASE StartVoting \/ CoordinatorTimeOut \/ WillCommitSent \/ AnswerClient
  BY <1>2 DEF StartVoting, CoordinatorTimeOut, WillCommitSent, AnswerClient
<1>3. ASSUME NEW m \in queue[Coordinator], TakeVoteYes(m) \/ TakeVoteAbort(m)
      PROVE  AllOver'
  BY <1>3 DEF TakeVoteYes, TakeVoteAbort
<1>4. ASSUME NEW h \in Hosts, NEW t \in Hosts, Sending(h), Send(h, t) PROVE AllOver'
  BY <1>4 DEF Sending
<1>5. ASSUME NEW h \in Hosts,
             \/ LogFinalRead(h) \/ LogFinalWrite(h) \/ OverrideSent(h)
             \/ CompletedSent \/ DecisionSent \/ TakeCompleted(h) \/ ReplicatorTimeOut(h)
      PROVE  AllOver'
  BY <1>5 DEF LogFinalRead, LogFinalWrite, OverrideSent, CompletedSent, DecisionSent,
              TakeCompleted, ReplicatorTimeOut
<1>6. ASSUME NEW p \in Participants, RefuseVote(p) \/ GrantVote(p) PROVE AllOver'
  <2>1. pc'[Coordinator] = pc[Coordinator] /\ fin' = fin
    BY <1>6 DEF RefuseVote, GrantVote
  <2>2. PICK m : m.type # "WILLCOMMIT" /\ net' = net \cup {m}
    BY <1>6 DEF RefuseVote, GrantVote, Msg
  <2> QED BY <2>1, <2>2
<1>7. ASSUME NEW p \in Participants, NEW m \in queue[p], TakeDecision(p, m) PROVE AllOver'
  BY <1>7 DEF TakeDecision, Conclude
<1>8. ASSUME NEW p \in Participants,
             \/ WorkerCommit(p) \/ ParticipantTimeOut(p)
             \/ TerminationRead(p) \/ TerminationWrite(p)
      PROVE  AllOver'
  BY <1>8 DEF WorkerCommit, ParticipantTimeOut, TerminationRead, TerminationWrite, Conclude
<1>9. ASSUME NEW m \in net, DeliverVoteReq(m) PROVE AllOver'
  BY <1>9, MessageFacts DEF DeliverVoteReq
<1>10. ASSUME NEW m \in net,
              \/ DeliverWillCommit(m) \/ DeliverOverride(m) \/ DeliverCompleted(m)
              \/ DeliverOldRequest(m) \/ Lose(m)
       PROVE  AllOver'
  BY <1>10 DEF DeliverWillCommit, DeliverOverride, DeliverCompleted, DeliverOldRequest, Lose
<1>11. ASSUME NEW h \in Hosts, Crash(h) PROVE AllOver'
  BY <1>11 DEF Crash
<1>12. CASE UNCHANGED vars
  BY <1>12 DEF vars
<1> QED
  BY <1>1, <1>2, <1>3, <1>4, <1>5, <1>6, <1>7, <1>8, <1>9, <1>10, <1>11, <1>12
  DEF Next, CoordinatorStep, FinalStep, ParticipantStep, Delivery, Sending

(* Steps that leave the participants' termination protocols and the logs   *)
(* alone.                                                                  *)
LEMMA LateKept ==
  ASSUME TypeOK, PhaseInv, LateInv, [Next]_vars, log' = log,
         \A h \in Hosts \ ({Coordinator} \cup Replicators) : fin'[h] = "idle",
         \A p \in Participants : pc'[p] \in {"reading", "aborting"} => pc'[p] = pc[p]
  PROVE  LateInv'
BY AllOverStays DEF LateInv

LEMMA LateStep ==
  ASSUME NoRace, TypeOK, PhaseInv, LateInv, [Next]_vars
  PROVE  LateInv'
<1> USE HostFacts DEF TypeOK, Goto, Proceed
<1>0. /\ \A h \in Hosts \ ({Coordinator} \cup Replicators) : fin[h] = "idle"
      /\ \A p \in Participants : p # Coordinator
  BY DEF LateInv
<1>1. CASE ClientRequest
  BY <1>0, <1>1, LateKept DEF ClientRequest
<1>2. CASE StartVoting
  BY <1>0, <1>2, LateKept DEF StartVoting
<1>3. ASSUME NEW m \in queue[Coordinator], TakeVoteYes(m) \/ TakeVoteAbort(m)
      PROVE  LateInv'
  BY <1>0, <1>3, LateKept DEF TakeVoteYes, TakeVoteAbort, Decide
<1>4. CASE CoordinatorTimeOut
  BY <1>0, <1>4, LateKept DEF CoordinatorTimeOut, Decide
<1>5. CASE WillCommitSent \/ AnswerClient
  BY <1>0, <1>5, LateKept DEF WillCommitSent, AnswerClient
<1>6. ASSUME NEW h \in Hosts, NEW t \in Hosts, Send(h, t) PROVE LateInv'
  BY <1>0, <1>6, LateKept DEF Send
<1>7. ASSUME NEW h \in Hosts, \/ LogFinalRead(h) \/ OverrideSent(h)
                              \/ TakeCompleted(h) \/ ReplicatorTimeOut(h)
      PROVE  LateInv'
  BY <1>0, <1>7, LateKept DEF LogFinalRead, OverrideSent, AfterLogFinal, TakeCompleted,
                              ReplicatorTimeOut
<1>8. CASE CompletedSent \/ DecisionSent
  BY <1>0, <1>8, LateKept DEF CompletedSent, DecisionSent
<1>9. ASSUME NEW h \in Hosts, LogFinalWrite(h) PROVE LateInv'
  <2>1. /\ fin[h] = "writing" /\ pc' = pc /\ log' = [log EXCEPT ![h] = "COMMIT"]
        /\ \A g \in Hosts \ {h} : fin'[g] = fin[g]
    BY <1>9 DEF LogFinalWrite, AfterLogFinal, LogWrite
  <2>2. ASSUME NEW p \in Participants, pc[p] = "aborting" PROVE p # h
    <3>1. CASE Patient
      BY <2>1, <2>2, <3>1 DEF LateInv, AllOver, Resting, Finished
    <3>2. CASE Participants \cap Replicators = {}
      BY <1>0, <2>1, <3>2
    <3> QED BY <3>1, <3>2 DEF NoRace
  <2>3. h \in {Coordinator} \cup Replicators
    BY <1>0, <2>1
  <2> QED BY <2>1, <2>2, <2>3, AllOverStays DEF LateInv
<1>10. ASSUME NEW p \in Participants, RefuseVote(p) \/ GrantVote(p) PROVE LateInv'
  BY <1>0, <1>10, LateKept DEF RefuseVote, GrantVote
<1>11. ASSUME NEW p \in Participants, NEW m \in queue[p], TakeDecision(p, m) PROVE LateInv'
  BY <1>0, <1>11, LateKept DEF TakeDecision, Conclude
<1>12. ASSUME NEW p \in Participants, WorkerCommit(p) PROVE LateInv'
  BY <1>0, <1>12, LateKept DEF WorkerCommit
<1>13. ASSUME NEW p \in Participants, ParticipantTimeOut(p) PROVE LateInv'
  <2>1. /\ fin' = fin /\ log' = log /\ (net = {} \/ ~ Patient)
        /\ \A q \in Participants : pc'[q] = IF q = p THEN "reading" ELSE pc[q]
    BY <1>13 DEF ParticipantTimeOut, DeadlinePassed
  <2>2. Patient => AllOver
    BY <1>13 DEF ParticipantTimeOut, DeadlinePassed, AllOver
  <2> QED BY <1>13, <2>1, <2>2, AllOverStays DEF LateInv, ParticipantTimeOut
<1>14. ASSUME NEW p \in Participants, TerminationRead(p) PROVE LateInv'
  <2>1. pc[p] = "reading" /\ fin' = fin /\ log' = log
    BY <1>14 DEF TerminationRead
  <2>2. \A q \in Participants \ {p} : pc'[q] = pc[q]
    BY <1>14 DEF TerminationRead, Conclude
  <2>3. pc'[p] = "aborting" => log[p] # "COMMIT"
    BY <1>14 DEF TerminationRead, Conclude, LogRead, Decision
  <2> QED BY <2>1, <2>2, <2>3, AllOverStays DEF LateInv
<1>15. ASSUME NEW p \in Participants, TerminationWrite(p) PROVE LateInv'
  <2>1. /\ pc'[p] = "done" /\ fin' = fin /\ log' = [log EXCEPT ![p] = "ABORT"]
        /\ \A q \in Participants \ {p} : pc'[q] = pc[q]
    BY <1>15 DEF TerminationWrite, Conclude, LogWrite
  <2> QED BY <2>1, AllOverStays DEF LateInv
<1>16. ASSUME NEW m \in net, DeliverVoteReq(m) PROVE LateInv'
  BY <1>0, <1>16, LateKept, MessageFacts DEF DeliverVoteReq
<1>17. ASSUME NEW m \in net, DeliverWillCommit(m) PROVE LateInv'
  BY <1>0, <1>17, LateKept, MessageFacts DEF DeliverWillCommit
<1>18. ASSUME NEW m \in net,
              DeliverOverride(m) \/ DeliverCompleted(m) \/ DeliverOldRequest(m) \/ Lose(m)
       PROVE  LateInv'
  BY <1>0, <1>18, LateKept DEF DeliverOverride, DeliverCompleted, DeliverOldRequest, Lose
<1>19. ASSUME NEW h \in Hosts, Crash(h) PROVE LateInv'
  BY <1>0, <1>19, LateKept DEF Crash, Resting, Finished
<1>20. CASE UNCHANGED vars
  BY <1>0, <1>20, LateKept DEF vars
<1> QED
  BY <1>1, <1>2, <1>3, <1>4, <1>5, <1>6, <1>7, <1>8, <1>9, <1>10, <1>11, <1>12, <1>13,
     <1>14, <1>15, <1>16, <1>17, <1>18, <1>19, <1>20
  DEF Next, CoordinatorStep, FinalStep, ParticipantStep, Delivery

LEMMA LateHolds == ASSUME NoRace PROVE Spec => []LateInv
<1>1. Init => LateInv
  BY HostFacts DEF Init, LateInv
<1>2. IInv /\ LateInv /\ [Next]_vars => LateInv'
  BY LateStep DEF IInv
<1> QED BY <1>1, <1>2, InductiveInvariant, PTL DEF Spec

-----------------------------------------------------------------------------
(* Whoever ends, or is releasing others, has seen a COMMIT in a log that   *)
(* nobody will overwrite.                                                  *)
Logged == log[Coordinator] = "COMMIT"

DurableInv ==
  /\ \/ Logged
     \/ /\ completed = {}
        /\ \A m \in net : m.type # "DECISIONCOMPLETED"
        /\ fin[Coordinator] \notin {"overriding", "completing"}
        /\ Committed => fin[Coordinator] \notin {"telling", "done"}
  /\ \A r \in Replicators : fin[r] \in {"overriding", "done"} => Logged \/ log[r] = "COMMIT"

LEMMA LoggedStays == ASSUME TypeOK, Logged, [Next]_vars PROVE Logged'
<1> USE HostFacts DEF TypeOK, Logged
<1>1. ASSUME NEW h \in Hosts, LogFinalWrite(h) PROVE Logged'
  BY <1>1 DEF LogFinalWrite, LogWrite
<1>2. ASSUME NEW p \in Participants, TerminationWrite(p) PROVE Logged'
  BY <1>2 DEF TerminationWrite, LogWrite
<1> QED
  BY <1>1, <1>2
  DEF Next, vars, CoordinatorStep, FinalStep, ParticipantStep, Delivery, ClientRequest,
      StartVoting, CoordinatorTimeOut, WillCommitSent, AnswerClient, TakeVoteYes,
      TakeVoteAbort, Send, LogFinalRead, OverrideSent, CompletedSent, DecisionSent,
      TakeCompleted, ReplicatorTimeOut, RefuseVote, GrantVote, TakeDecision,
      WorkerCommit, ParticipantTimeOut, TerminationRead, DeliverVoteReq,
      DeliverWillCommit, DeliverOverride, DeliverCompleted, DeliverOldRequest, Lose, Crash

LEMMA DurableStep ==
  ASSUME TypeOK, PhaseInv, CommitInv, LateInv, DurableInv, [Next]_vars
  PROVE  DurableInv'
<1> USE HostFacts DEF TypeOK, DurableInv, Logged, Committed, Goto, Proceed
<1>0. CASE Logged
  BY <1>0, LoggedStays
<1> SUFFICES ASSUME ~ Logged PROVE DurableInv'
  BY <1>0
<1>1. CASE ClientRequest
  BY <1>1 DEF ClientRequest
<1>2. CASE StartVoting \/ WillCommitSent \/ AnswerClient
  BY <1>2 DEF StartVoting, WillCommitSent, AnswerClient
<1>3. ASSUME NEW m \in queue[Coordinator], TakeVoteYes(m) \/ TakeVoteAbort(m)
      PROVE  DurableInv'
  BY <1>3 DEF TakeVoteYes, TakeVoteAbort, Decide, PhaseInv
<1>4. CASE CoordinatorTimeOut
  BY <1>4 DEF CoordinatorTimeOut, Decide, PhaseInv
<1>5. ASSUME NEW h \in Hosts, NEW t \in Hosts, Sending(h), Send(h, t) PROVE DurableInv'
  <2>1. Outgoing(h) # "DECISIONCOMPLETED"
    BY <1>5 DEF Sending, Outgoing, PhaseInv, Decision
  <2>2. PICK m : m.type # "DECISIONCOMPLETED" /\ net' = net \cup {m}
    BY <1>5, <2>1 DEF Send, Msg
  <2> QED BY <1>5, <2>2 DEF Send
<1>6. ASSUME NEW h \in Hosts, LogFinalRead(h) PROVE DurableInv'
  BY <1>6 DEF LogFinalRead, AfterLogFinal
<1>7. ASSUME NEW h \in Hosts, LogFinalWrite(h) PROVE DurableInv'
  BY <1>7 DEF LogFinalWrite, AfterLogFinal, LogWrite
<1>8. ASSUME NEW h \in Hosts, OverrideSent(h) PROVE DurableInv'
  BY <1>8 DEF OverrideSent, AfterLogFinal
<1>9. CASE CompletedSent \/ DecisionSent
  BY <1>9 DEF CompletedSent, DecisionSent
<1>10. ASSUME NEW r \in Hosts, TakeCompleted(r) \/ ReplicatorTimeOut(r) PROVE DurableInv'
  BY <1>10 DEF TakeCompleted, ReplicatorTimeOut
<1>11. ASSUME NEW p \in Participants, RefuseVote(p) \/ GrantVote(p) PROVE DurableInv'
  <2>1. PICK m : m.type # "DECISIONCOMPLETED" /\ net' = net \cup {m}
    BY <1>11 DEF RefuseVote, GrantVote, Msg
  <2>2. UNCHANGED <<fin, log, completed, decision[Coordinator]>>
    BY <1>11 DEF RefuseVote, GrantVote
  <2> QED BY <2>1, <2>2
<1>12. ASSUME NEW p \in Participants, NEW m \in queue[p], TakeDecision(p, m)
       PROVE  DurableInv'
  BY <1>12 DEF TakeDecision, Conclude
<1>13. ASSUME NEW p \in Participants, WorkerCommit(p) \/ ParticipantTimeOut(p)
       PROVE  DurableInv'
  BY <1>13 DEF WorkerCommit, ParticipantTimeOut
<1>14. ASSUME NEW p \in Participants, TerminationRead(p) PROVE DurableInv'
  BY <1>14 DEF TerminationRead, Conclude
<1>15. ASSUME NEW p \in Participants, TerminationWrite(p) PROVE DurableInv'
  <2>1. /\ UNCHANGED <<fin, completed, net, decision[Coordinator], log[Coordinator]>>
        /\ \A h \in Hosts : log[h] = "COMMIT" => log'[h] = "COMMIT"
    BY <1>15 DEF TerminationWrite, Conclude, LogWrite, LateInv
  <2> QED BY <2>1
<1>16. ASSUME NEW m \in net,
              DeliverVoteReq(m) \/ DeliverOverride(m) \/ DeliverOldRequest(m) \/ Lose(m)
       PROVE  DurableInv'
  BY <1>16 DEF DeliverVoteReq, DeliverOverride, DeliverOldRequest, Lose
<1>17. ASSUME NEW m \in net, DeliverWillCommit(m) \/ DeliverCompleted(m) PROVE DurableInv'
  BY <1>17, MessageFacts DEF DeliverWillCommit, DeliverCompleted
<1>18. ASSUME NEW h \in Hosts, Crash(h) PROVE DurableInv'
  BY <1>18 DEF Crash, Resting, Finished
<1>19. CASE UNCHANGED vars
  BY <1>19 DEF vars
<1> QED
  BY <1>1, <1>2, <1>3, <1>4, <1>5, <1>6, <1>7, <1>8, <1>9, <1>10, <1>11, <1>12, <1>13,
     <1>14, <1>15, <1>16, <1>17, <1>18, <1>19
  DEF Next, CoordinatorStep, FinalStep, ParticipantStep, Delivery, Sending

(* The COMMIT that the client was answered is logged before the background *)
(* thread of the coordinator or any replicator ends                        *)
(* (TransactionHandler2.hpp:35-47, Replicator.h:13-18).                    *)
THEOREM EndsAreDurable == ASSUME NoRace PROVE Spec => []EndsDurable
<1>1. Init => DurableInv
  BY HostFacts DEF Init, DurableInv
<1>2. IInv /\ LateInv /\ DurableInv /\ [Next]_vars => DurableInv'
  BY DurableStep DEF IInv
<1>3. DurableInv => EndsDurable
  BY DEF DurableInv, EndsDurable, Logged, Committed
<1> QED BY <1>1, <1>2, <1>3, InductiveInvariant, LateHolds, PTL DEF Spec
=============================================================================
