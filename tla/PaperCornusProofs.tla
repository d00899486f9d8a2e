------------------------- MODULE PaperCornusProofs --------------------------
(***************************************************************************)
(* Proofs about PaperCornus, for any number of participants, any set of    *)
(* hosts that may crash or time out, and with or without lost messages.    *)
(*                                                                         *)
(* IInv is the inductive invariant.  Its heart is that a vote, once it is  *)
(* settled by the first entry of a log, never changes (VoteInv), and that  *)
(* every conclusion is backed by the votes (DecisionInv); the other parts  *)
(* say why each of the ways to a conclusion has that backing: counted      *)
(* messages (CountInv), a received decision (MessageInv) and the scan of   *)
(* the logs (ScanInv).                                                     *)
(***************************************************************************)
EXTENDS PaperCornus, FiniteSetTheorems, TLAPS

CoordinatorPC == {"idle", "sendVoteReq", "voting", "terminating",
                  "sendDecision"} \cup Finished
ParticipantPC == {"idle", "start", "refuse", "prepared", "waiting",
                  "terminating", "logging", "committing"} \cup Finished

(* Where a handler has not concluded, and where it must have. *)
Undecided == {"idle", "sendVoteReq", "voting", "terminating", "start",
              "refuse", "prepared", "waiting"}
Decided == {"sendDecision", "logging", "committing"}

PhaseInv ==
  /\ pc[Coordinator] \in CoordinatorPC
  /\ \A p \in Participants : pc[p] \in ParticipantPC
  /\ \A n \in Host : /\ pc[n] \in Undecided => decision[n] = NoDecision
                     /\ pc[n] \in Decided => decision[n] \in Decision
  /\ \A p \in Participants : pc[p] = "committing" => decision[p] = "COMMIT"
  /\ reply = NoDecision \/ reply = decision[Coordinator]

VoteInv == \A p \in Participants :
  /\ pc[p] \in {"idle", "start"} => vote[p] = "none"
  /\ pc[p] = "refuse" => vote[p] = "no"
  /\ pc[p] \in {"prepared", "waiting", "terminating", "logging", "committing"}
       => vote[p] = "yes"
  /\ pc[p] \in {"prepared", "waiting", "terminating", "logging"}
       => log[p] = "VOTEYES"
  /\ pc[p] = "committing" => log[p] = "COMMIT"
  /\ vote[p] # "yes" => log[p] \in {"WORKING", "ABORT"}
  /\ vote[p] = "yes" => \/ log[p] = "VOTEYES"
                        \/ log[p] \in Decision /\ log[p] = decision[p]

(* A participant that can no longer vote yes: VoteBar[p] = "no". *)
Vetoed(p) == vote[p] = "no" \/ (vote[p] = "none" /\ log[p] = "ABORT")
Unanimous == \A p \in Participants : vote[p] = "yes"

DecisionInv == \A n \in Host :
  /\ decision[n] = "COMMIT" => Unanimous
  /\ decision[n] = "ABORT" => \E p \in Participants : Vetoed(p)

(* A message tells the truth about its sender. *)
Truthful(m) ==
  /\ m.type = "VOTEYES" => vote[m.from] = "yes"
  /\ m.type = "ABORT" /\ m.from # Coordinator => vote[m.from] = "no"
  /\ m.from = Coordinator /\ m.type # "VOTEREQ"
       => decision[Coordinator] = m.type

MessageInv ==
  /\ \A m \in net : Truthful(m)
  /\ \A n \in Host : \A m \in queue[n] :
       Truthful(m) /\ m.to = n /\ m.type # "VOTEREQ"

(* The participants whose VOTEYES is no longer on its way. *)
YesOf(p) == Msg("VOTEYES", p, Coordinator)
Arrived == {p \in Participants : /\ vote[p] = "yes"
                                 /\ pc[p] # "prepared"
                                 /\ YesOf(p) \notin net
                                 /\ YesOf(p) \notin queue[Coordinator]}

(* VOTEYES is sent once. *)
TransitInv == \A p \in Participants :
  /\ YesOf(p) \in net \cup queue[Coordinator] => pc[p] # "prepared"
  /\ ~(YesOf(p) \in net /\ YesOf(p) \in queue[Coordinator])

CountInv == votes <= Cardinality(Arrived)

ScanInv == \A n \in Host : pc[n] = "terminating" =>
             \A p \in Participants : p < scan[n] => vote[p] = "yes"

AppliedInv == \A p \in applied : log[p] = "COMMIT"

IInv == /\ TypeOK /\ PhaseInv /\ VoteInv /\ DecisionInv /\ MessageInv
        /\ TransitInv /\ CountInv /\ ScanInv /\ AppliedInv

-----------------------------------------------------------------------------
(* Facts about the constants and the messages. *)

LEMMA HostFacts ==
  /\ Coordinator \in Host
  /\ Participants \subseteq Host
  /\ Coordinator \notin Participants
  /\ \A n \in Host : n = Coordinator \/ n \in Participants
BY NAssumption DEF Coordinator, Host, Participants

LEMMA MessageFacts ==
  /\ \A p \in Participants :
       /\ Msg("VOTEREQ", Coordinator, p) \in Message
       /\ \A d \in Decision : Msg(d, Coordinator, p) \in Message
       /\ Msg("VOTEYES", p, Coordinator) \in Message
       /\ Msg("ABORT", p, Coordinator) \in Message
  /\ \A m \in Message :
       \/ /\ m.from = Coordinator /\ m.to \in Participants
          /\ m.type \in {"VOTEREQ"} \cup Decision
       \/ /\ m.from \in Participants /\ m.to = Coordinator
          /\ m.type \in {"VOTEYES", "ABORT"}
  /\ \A m \in Message : m = Msg(m.type, m.from, m.to)
BY DEF Message, Msg

-----------------------------------------------------------------------------
(* Every step preserves every part of IInv. *)

(* A logged decision is one that checkUndefinedInput lets through. *)
LEMMA TypeStep ==
  ASSUME TypeOK, PhaseInv, [Next]_vars
  PROVE  TypeOK'
<1> USE HostFacts DEF TypeOK, PC, Finished, Goto
<1>1. CASE ClientRequest
  BY <1>1 DEF ClientRequest
<1>2. ASSUME NEW p \in Participants, SendToParticipant(p) PROVE TypeOK'
  <2>1. unsent' \subseteq Participants
    BY <1>2 DEF SendToParticipant
  <2>2. net' \subseteq Message
    BY <1>2, MessageFacts DEF SendToParticipant, PhaseInv, Decided
  <2> QED BY <1>2, <2>1, <2>2 DEF SendToParticipant
<1>3. CASE StartVoting
  BY <1>3 DEF StartVoting
<1>4. ASSUME NEW m \in queue[Coordinator], TakeVoteYes(m) PROVE TypeOK'
  BY <1>4 DEF TakeVoteYes, Conclude, Decision, NoDecision
<1>5. ASSUME NEW m \in queue[Coordinator], TakeVoteAbort(m) PROVE TypeOK'
  BY <1>5 DEF TakeVoteAbort, Conclude, Decision, NoDecision
<1>6. CASE AnswerClient
  BY <1>6 DEF AnswerClient
<1>7. ASSUME NEW p \in Participants, RefuseVote(p) PROVE TypeOK'
  BY <1>7 DEF RefuseVote
<1>8. ASSUME NEW p \in Participants, LogVote(p) PROVE TypeOK'
  BY <1>8 DEF LogVote, LogOnce, LogValue, Loggable
<1>9. ASSUME NEW p \in Participants, SendAbort(p) PROVE TypeOK'
  BY <1>9, MessageFacts DEF SendAbort, Decision, NoDecision
<1>10. ASSUME NEW p \in Participants, SendVoteYes(p) PROVE TypeOK'
  BY <1>10, MessageFacts DEF SendVoteYes
<1>11. ASSUME NEW p \in Participants, NEW m \in queue[p], TakeDecision(p, m)
      PROVE  TypeOK'
  BY <1>11 DEF TakeDecision, Conclude, Decision, NoDecision
<1>12. ASSUME NEW p \in Participants, LogDecision(p) PROVE TypeOK'
  BY <1>12 DEF LogDecision, LogWrite, LogValue, Loggable, PhaseInv, Decided,
      Decision
<1>13. ASSUME NEW p \in Participants, WorkerCommit(p) PROVE TypeOK'
  BY <1>13 DEF WorkerCommit
<1>14. ASSUME NEW n \in Host, TimeOut(n) PROVE TypeOK'
  BY <1>14, NAssumption DEF TimeOut
<1>15. ASSUME NEW n \in Host, TerminationQuery(n) PROVE TypeOK'
  <2> DEFINE p == scan[n]
             resp == LogOnce(log[p], "ABORT")
  <2>1. p \in Participants /\ p + 1 \in 1..(N + 1)
    BY <1>15, NAssumption DEF TerminationQuery, Participants
  <2>2. resp \in LogValue
    BY <2>1 DEF LogOnce, LogValue, Loggable
  <2>3. log' \in [Participants -> LogValue]
    BY <1>15, <2>1, <2>2 DEF TerminationQuery
  <2>4. CASE resp \in Decision /\ Conclude(n, resp) /\ UNCHANGED scan
    BY <1>15, <2>3, <2>4 DEF TerminationQuery, Conclude
  <2>5. CASE /\ resp = "VOTEYES"
             /\ scan' = [scan EXCEPT ![n] = p + 1]
             /\ UNCHANGED <<pc, decision, unsent>>
    BY <1>15, <2>1, <2>3, <2>5 DEF TerminationQuery
  <2> QED BY <1>15, <2>4, <2>5 DEF TerminationQuery
<1>16. ASSUME NEW n \in Host, TerminationCommits(n) PROVE TypeOK'
  BY <1>16 DEF TerminationCommits, Conclude, Decision, NoDecision
<1>17. ASSUME NEW m \in net, DeliverVoteReq(m) PROVE TypeOK'
  BY <1>17 DEF DeliverVoteReq
<1>18. ASSUME NEW m \in net, DeliverOldRequest(m) PROVE TypeOK'
  BY <1>18 DEF DeliverOldRequest
<1>19. ASSUME NEW m \in net, Lose(m) PROVE TypeOK'
  BY <1>19 DEF Lose
<1>20. ASSUME NEW n \in Host, Crash(n) PROVE TypeOK'
  BY <1>20 DEF Crash
<1>21. CASE UNCHANGED vars
  BY <1>21 DEF vars
<1> QED
  BY <1>1, <1>2, <1>3, <1>4, <1>5, <1>6, <1>7, <1>8, <1>9, <1>10, <1>11,
     <1>12, <1>13, <1>14, <1>15, <1>16, <1>17, <1>18, <1>19, <1>20, <1>21
     DEF Next, CoordinatorStep, ParticipantStep, TerminationStep, Delivery

(* `decision` is assigned exactly when a handler passes to telling. *)
LEMMA PhaseStep ==
  ASSUME TypeOK, PhaseInv, [Next]_vars
  PROVE  PhaseInv'
<1> USE HostFacts DEF TypeOK, PhaseInv, CoordinatorPC, ParticipantPC,
        Undecided, Decided, Finished, Goto
<1>1. CASE ClientRequest
  BY <1>1 DEF ClientRequest
<1>2. ASSUME NEW p \in Participants, SendToParticipant(p) PROVE PhaseInv'
  BY <1>2 DEF SendToParticipant
<1>3. CASE StartVoting
  BY <1>3 DEF StartVoting
<1>4. ASSUME NEW m \in queue[Coordinator], TakeVoteYes(m) PROVE PhaseInv'
  BY <1>4 DEF TakeVoteYes, Conclude, Decision, NoDecision
<1>5. ASSUME NEW m \in queue[Coordinator], TakeVoteAbort(m) PROVE PhaseInv'
  BY <1>5 DEF TakeVoteAbort, Conclude, Decision, NoDecision
<1>6. CASE AnswerClient
  BY <1>6 DEF AnswerClient
<1>7. ASSUME NEW p \in Participants, RefuseVote(p) PROVE PhaseInv'
  BY <1>7 DEF RefuseVote
<1>8. ASSUME NEW p \in Participants, LogVote(p) PROVE PhaseInv'
  BY <1>8 DEF LogVote
<1>9. ASSUME NEW p \in Participants, SendAbort(p) PROVE PhaseInv'
  BY <1>9 DEF SendAbort, Conclude, Decision, NoDecision
<1>10. ASSUME NEW p \in Participants, SendVoteYes(p) PROVE PhaseInv'
  BY <1>10 DEF SendVoteYes
<1>11. ASSUME NEW p \in Participants, NEW m \in queue[p], TakeDecision(p, m)
      PROVE  PhaseInv'
  BY <1>11 DEF TakeDecision, Conclude, Decision, NoDecision
<1>12. ASSUME NEW p \in Participants, LogDecision(p) PROVE PhaseInv'
  BY <1>12 DEF LogDecision
<1>13. ASSUME NEW p \in Participants, WorkerCommit(p) PROVE PhaseInv'
  BY <1>13 DEF WorkerCommit
<1>14. ASSUME NEW n \in Host, TimeOut(n) PROVE PhaseInv'
  BY <1>14 DEF TimeOut
<1>15. ASSUME NEW n \in Host, TerminationQuery(n) PROVE PhaseInv'
  BY <1>15 DEF TerminationQuery, Conclude, Decision, NoDecision
<1>16. ASSUME NEW n \in Host, TerminationCommits(n) PROVE PhaseInv'
  BY <1>16 DEF TerminationCommits, Conclude, Decision, NoDecision
<1>17. ASSUME NEW m \in net, DeliverVoteReq(m) PROVE PhaseInv'
  BY <1>17, MessageFacts DEF DeliverVoteReq
<1>18. ASSUME NEW m \in net, DeliverOldRequest(m) PROVE PhaseInv'
  BY <1>18 DEF DeliverOldRequest
<1>19. ASSUME NEW m \in net, Lose(m) PROVE PhaseInv'
  BY <1>19 DEF Lose
<1>20. ASSUME NEW n \in Host, Crash(n) PROVE PhaseInv'
  BY <1>20 DEF Crash
<1>21. CASE UNCHANGED vars
  BY <1>21 DEF vars
<1> QED
  BY <1>1, <1>2, <1>3, <1>4, <1>5, <1>6, <1>7, <1>8, <1>9, <1>10, <1>11,
     <1>12, <1>13, <1>14, <1>15, <1>16, <1>17, <1>18, <1>19, <1>20, <1>21
     DEF Next, CoordinatorStep, ParticipantStep, TerminationStep, Delivery

(* A log holds VOTEYES from the vote to the participant's own LOG_WRITE. *)
LEMMA VoteStep ==
  ASSUME TypeOK, PhaseInv, VoteInv, [Next]_vars
  PROVE  VoteInv'
<1> USE HostFacts DEF TypeOK, PhaseInv, Decided, ParticipantPC, Finished,
        VoteInv, Goto
<1>1. CASE ClientRequest
  BY <1>1 DEF ClientRequest
<1>2. ASSUME NEW p \in Participants, SendToParticipant(p) PROVE VoteInv'
  BY <1>2 DEF SendToParticipant
<1>3. CASE StartVoting
  BY <1>3 DEF StartVoting
<1>4. ASSUME NEW m \in queue[Coordinator], TakeVoteYes(m) PROVE VoteInv'
  BY <1>4 DEF TakeVoteYes, Conclude, Decision, NoDecision
<1>5. ASSUME NEW m \in queue[Coordinator], TakeVoteAbort(m) PROVE VoteInv'
  BY <1>5 DEF TakeVoteAbort, Conclude, Decision, NoDecision
<1>6. CASE AnswerClient
  BY <1>6 DEF AnswerClient
<1>7. ASSUME NEW p \in Participants, RefuseVote(p) PROVE VoteInv'
  BY <1>7 DEF RefuseVote
<1>8. ASSUME NEW p \in Participants, LogVote(p) PROVE VoteInv'
  BY <1>8 DEF LogVote, LogOnce
<1>9. ASSUME NEW p \in Participants, SendAbort(p) PROVE VoteInv'
  BY <1>9 DEF SendAbort, Conclude, Decision, NoDecision
<1>10. ASSUME NEW p \in Participants, SendVoteYes(p) PROVE VoteInv'
  BY <1>10 DEF SendVoteYes
<1>11. ASSUME NEW p \in Participants, NEW m \in queue[p], TakeDecision(p, m)
      PROVE  VoteInv'
  BY <1>11 DEF TakeDecision, Conclude, Decision, NoDecision
<1>12. ASSUME NEW p \in Participants, LogDecision(p) PROVE VoteInv'
  BY <1>12 DEF LogDecision, Decision, LogWrite
<1>13. ASSUME NEW p \in Participants, WorkerCommit(p) PROVE VoteInv'
  BY <1>13 DEF WorkerCommit
<1>14. ASSUME NEW n \in Host, TimeOut(n) PROVE VoteInv'
  BY <1>14 DEF TimeOut
<1>15. ASSUME NEW n \in Host, TerminationQuery(n) PROVE VoteInv'
  BY <1>15 DEF TerminationQuery, Conclude, Decision, NoDecision, LogOnce
<1>16. ASSUME NEW n \in Host, TerminationCommits(n) PROVE VoteInv'
  BY <1>16 DEF TerminationCommits, Conclude, Decision, NoDecision
<1>17. ASSUME NEW m \in net, DeliverVoteReq(m) PROVE VoteInv'
  BY <1>17 DEF DeliverVoteReq
<1>18. ASSUME NEW m \in net, DeliverOldRequest(m) PROVE VoteInv'
  BY <1>18 DEF DeliverOldRequest
<1>19. ASSUME NEW m \in net, Lose(m) PROVE VoteInv'
  BY <1>19 DEF Lose
<1>20. ASSUME NEW n \in Host, Crash(n) PROVE VoteInv'
  BY <1>20 DEF Crash
<1>21. CASE UNCHANGED vars
  BY <1>21 DEF vars
<1> QED
  BY <1>1, <1>2, <1>3, <1>4, <1>5, <1>6, <1>7, <1>8, <1>9, <1>10, <1>11,
     <1>12, <1>13, <1>14, <1>15, <1>16, <1>17, <1>18, <1>19, <1>20, <1>21
     DEF Next, CoordinatorStep, ParticipantStep, TerminationStep, Delivery

(* Sets of participants are finite, and only one of them has N members. *)
LEMMA SubsetSize ==
  ASSUME NEW S \in SUBSET Participants
  PROVE  /\ IsFiniteSet(S)
         /\ Cardinality(S) \in 0..N
         /\ Cardinality(S) = N => S = Participants
         /\ \A T \in SUBSET S : Cardinality(T) <= Cardinality(S)
<1>1. IsFiniteSet(Participants) /\ Cardinality(Participants) = N
  BY FS_Interval, NAssumption DEF Participants
<1>2. IsFiniteSet(S) /\ (Cardinality(S) = N => S = Participants)
  BY <1>1, FS_Subset
<1>3. Cardinality(S) \in Nat /\ Cardinality(S) <= N
  BY <1>1, <1>2, FS_CardinalityType, FS_Subset
<1>4. \A T \in SUBSET S : Cardinality(T) <= Cardinality(S)
  BY <1>2, FS_Subset
<1> QED BY <1>2, <1>3, <1>4, NAssumption

(* A counted VOTEYES has arrived, and had not been counted before. *)
LEMMA VoteCounted ==
  ASSUME TypeOK, VoteInv, MessageInv, TransitInv, CountInv,
         NEW m \in queue[Coordinator], TakeVoteYes(m)
  PROVE  votes' <= Cardinality(Arrived')
<1> DEFINE p == m.from
<1>1. p \in Participants /\ m = YesOf(p) /\ vote[p] = "yes"
  BY HostFacts, MessageFacts
  DEF TypeOK, MessageInv, Truthful, TakeVoteYes, YesOf, Msg
<1>2. p \notin Arrived
  BY <1>1 DEF Arrived
<1>3. \A q \in Host : pc'[q] = "prepared" => pc[q] = "prepared"
  BY HostFacts DEF TakeVoteYes, Conclude, Goto, TypeOK
<1>4. queue'[Coordinator] = queue[Coordinator] \ {m}
  BY HostFacts DEF TakeVoteYes, TypeOK
<1>5. Arrived \subseteq Arrived'
  BY <1>3, <1>4, HostFacts DEF Arrived, TakeVoteYes
<1>6. p \in Arrived'
  BY <1>1, <1>3, <1>4, HostFacts DEF Arrived, TransitInv, TakeVoteYes
<1>7. Cardinality(Arrived \cup {p}) = Cardinality(Arrived) + 1
  BY <1>2, SubsetSize, FS_AddElement DEF Arrived
<1>8. Cardinality(Arrived \cup {p}) <= Cardinality(Arrived')
  BY <1>5, <1>6, SubsetSize DEF Arrived
<1>9. /\ Cardinality(Arrived) \in Nat /\ Cardinality(Arrived') \in Nat
      /\ votes \in Nat /\ votes <= Cardinality(Arrived) /\ votes' = votes + 1
  BY SubsetSize DEF Arrived, CountInv, TypeOK, TakeVoteYes
<1> QED BY <1>7, <1>8, <1>9

(* So the vote that completes the count completes the votes. *)
LEMMA CountComplete ==
  ASSUME TypeOK, VoteInv, MessageInv, TransitInv, CountInv,
         NEW m \in queue[Coordinator], TakeVoteYes(m), votes + 1 = N
  PROVE  Unanimous
<1>1. N <= Cardinality(Arrived')
  BY VoteCounted DEF TakeVoteYes
<1>2. Arrived' \in SUBSET Participants
  BY DEF Arrived
<1>3. Arrived' = Participants
  BY <1>1, <1>2, NAssumption, SubsetSize
<1> QED BY <1>3 DEF Arrived, Unanimous, TakeVoteYes

(* Every way to a conclusion is backed by the votes. *)
LEMMA DecisionStep ==
  ASSUME TypeOK, PhaseInv, VoteInv, DecisionInv, MessageInv,
         TransitInv, CountInv, ScanInv, [Next]_vars
  PROVE  DecisionInv'
<1> USE HostFacts DEF TypeOK, VoteInv, DecisionInv, Unanimous, Vetoed
<1>1. CASE ClientRequest
  BY <1>1 DEF ClientRequest
<1>2. ASSUME NEW p \in Participants, SendToParticipant(p) PROVE DecisionInv'
  BY <1>2 DEF SendToParticipant
<1>3. CASE StartVoting
  BY <1>3 DEF StartVoting
<1>4. ASSUME NEW m \in queue[Coordinator], TakeVoteYes(m) PROVE DecisionInv'
  <2>1. CASE votes + 1 = N
    <3>1. Unanimous
      BY <1>4, <2>1, CountComplete
    <3> QED BY <1>4, <2>1, <3>1 DEF TakeVoteYes, Conclude
  <2>2. CASE votes + 1 # N
    BY <1>4, <2>2 DEF TakeVoteYes
  <2> QED BY <2>1, <2>2
<1>5. ASSUME NEW m \in queue[Coordinator], TakeVoteAbort(m) PROVE DecisionInv'
  <2>1. m.from \in Participants /\ vote[m.from] = "no"
    BY <1>5, MessageFacts DEF TakeVoteAbort, MessageInv, Truthful
  <2> QED BY <1>5, <2>1 DEF TakeVoteAbort, Conclude
<1>6. CASE AnswerClient
  BY <1>6 DEF AnswerClient
<1>7. ASSUME NEW p \in Participants, RefuseVote(p) PROVE DecisionInv'
  BY <1>7 DEF RefuseVote
<1>8. ASSUME NEW p \in Participants, LogVote(p) PROVE DecisionInv'
  BY <1>8 DEF LogVote, LogOnce
<1>9. ASSUME NEW p \in Participants, SendAbort(p) PROVE DecisionInv'
  BY <1>9 DEF SendAbort
<1>10. ASSUME NEW p \in Participants, SendVoteYes(p) PROVE DecisionInv'
  BY <1>10 DEF SendVoteYes
<1>11. ASSUME NEW p \in Participants, NEW m \in queue[p], TakeDecision(p, m)
      PROVE  DecisionInv'
  <2>1. decision[Coordinator] = m.type
    BY <1>11, MessageFacts DEF TakeDecision, MessageInv, Truthful
  <2> QED BY <1>11, <2>1 DEF TakeDecision, Conclude
<1>12. ASSUME NEW p \in Participants, LogDecision(p) PROVE DecisionInv'
  BY <1>12 DEF LogDecision, LogWrite
<1>13. ASSUME NEW p \in Participants, WorkerCommit(p) PROVE DecisionInv'
  BY <1>13 DEF WorkerCommit
<1>14. ASSUME NEW n \in Host, TimeOut(n) PROVE DecisionInv'
  BY <1>14 DEF TimeOut
<1>15. ASSUME NEW n \in Host, TerminationQuery(n) PROVE DecisionInv'
  BY <1>15 DEF TerminationQuery, ScanInv, Conclude, Decision, NoDecision,
      Goto, LogOnce, Participants
<1>16. ASSUME NEW n \in Host, TerminationCommits(n) PROVE DecisionInv'
  <2>1. Unanimous
    BY <1>16, NAssumption DEF TerminationCommits, ScanInv, Participants
  <2> QED BY <1>16, <2>1 DEF TerminationCommits, Conclude
<1>17. ASSUME NEW m \in net, DeliverVoteReq(m) PROVE DecisionInv'
  BY <1>17, MessageFacts DEF DeliverVoteReq
<1>18. ASSUME NEW m \in net, DeliverOldRequest(m) PROVE DecisionInv'
  BY <1>18 DEF DeliverOldRequest
<1>19. ASSUME NEW m \in net, Lose(m) PROVE DecisionInv'
  BY <1>19 DEF Lose
<1>20. ASSUME NEW n \in Host, Crash(n) PROVE DecisionInv'
  BY <1>20 DEF Crash
<1>21. CASE UNCHANGED vars
  BY <1>21 DEF vars
<1> QED
  BY <1>1, <1>2, <1>3, <1>4, <1>5, <1>6, <1>7, <1>8, <1>9, <1>10, <1>11,
     <1>12, <1>13, <1>14, <1>15, <1>16, <1>17, <1>18, <1>19, <1>20, <1>21
     DEF Next, CoordinatorStep, ParticipantStep, TerminationStep, Delivery

(* Nobody speaks for a coordinator that has not concluded. *)
LEMMA ConcludeKeepsTruth ==
  ASSUME TypeOK, PhaseInv, NEW n \in Host, pc[n] \in Undecided,
         decision' = decision \/ \E d : decision' = [decision EXCEPT ![n] = d],
         vote' = vote
  PROVE  \A m \in Message : Truthful(m) => Truthful(m)'
BY HostFacts, MessageFacts
DEF TypeOK, PhaseInv, Truthful, Decision, NoDecision

(* A message stays true: votes and decisions do not change. *)
LEMMA MessageStep ==
  ASSUME TypeOK, PhaseInv, VoteInv, MessageInv, [Next]_vars
  PROVE  MessageInv'
<1> USE HostFacts DEF TypeOK, VoteInv, MessageInv, Truthful, Msg
<1>1. CASE ClientRequest
  BY <1>1 DEF ClientRequest
<1>2. ASSUME NEW p \in Participants, SendToParticipant(p) PROVE MessageInv'
  <2>1. \A k \in net' \ net :
           /\ k.from = Coordinator
           /\ k.type # "VOTEYES"
           /\ k.type # "VOTEREQ" => k.type = decision[Coordinator]
    BY <1>2 DEF SendToParticipant, Decision, NoDecision
  <2> QED BY <1>2, <2>1 DEF SendToParticipant
<1>3. CASE StartVoting
  BY <1>3 DEF StartVoting
<1>4. ASSUME NEW m \in queue[Coordinator], TakeVoteYes(m) PROVE MessageInv'
  <2>1. \A k \in Message : Truthful(k) => Truthful(k)'
    BY <1>4, ConcludeKeepsTruth DEF TakeVoteYes, Conclude, Undecided
  <2>2. net' = net /\ \A h \in Host : queue'[h] \subseteq queue[h]
    BY <1>4 DEF TakeVoteYes, TypeOK
  <2> QED BY <2>1, <2>2 DEF MessageInv, TypeOK
<1>5. ASSUME NEW m \in queue[Coordinator], TakeVoteAbort(m) PROVE MessageInv'
  <2>1. \A k \in Message : Truthful(k) => Truthful(k)'
    BY <1>5, ConcludeKeepsTruth DEF TakeVoteAbort, Conclude, Undecided
  <2>2. net' = net /\ \A h \in Host : queue'[h] \subseteq queue[h]
    BY <1>5 DEF TakeVoteAbort, TypeOK
  <2> QED BY <2>1, <2>2 DEF MessageInv, TypeOK
<1>6. CASE AnswerClient
  BY <1>6 DEF AnswerClient
<1>7. ASSUME NEW p \in Participants, RefuseVote(p) PROVE MessageInv'
  BY <1>7, MessageFacts DEF RefuseVote
<1>8. ASSUME NEW p \in Participants, LogVote(p) PROVE MessageInv'
  BY <1>8, MessageFacts DEF LogVote, LogOnce
<1>9. ASSUME NEW p \in Participants, SendAbort(p) PROVE MessageInv'
  BY <1>9 DEF SendAbort
<1>10. ASSUME NEW p \in Participants, SendVoteYes(p) PROVE MessageInv'
  BY <1>10 DEF SendVoteYes
<1>11. ASSUME NEW p \in Participants, NEW m \in queue[p], TakeDecision(p, m)
      PROVE  MessageInv'
  <2>1. \A k \in Message : Truthful(k) => Truthful(k)'
    BY <1>11, ConcludeKeepsTruth DEF TakeDecision, Conclude, Undecided
  <2>2. net' = net /\ \A h \in Host : queue'[h] \subseteq queue[h]
    BY <1>11 DEF TakeDecision, TypeOK
  <2> QED BY <2>1, <2>2 DEF MessageInv, TypeOK
<1>12. ASSUME NEW p \in Participants, LogDecision(p) PROVE MessageInv'
  BY <1>12 DEF LogDecision
<1>13. ASSUME NEW p \in Participants, WorkerCommit(p) PROVE MessageInv'
  BY <1>13 DEF WorkerCommit
<1>14. ASSUME NEW n \in Host, TimeOut(n) PROVE MessageInv'
  BY <1>14 DEF TimeOut
<1>15. ASSUME NEW n \in Host, TerminationQuery(n) PROVE MessageInv'
  <2>1. \A k \in Message : Truthful(k) => Truthful(k)'
    BY <1>15, ConcludeKeepsTruth DEF TerminationQuery, Conclude, Undecided
  <2>2. net' = net /\ \A h \in Host : queue'[h] \subseteq queue[h]
    BY <1>15 DEF TerminationQuery, TypeOK
  <2> QED BY <2>1, <2>2 DEF MessageInv, TypeOK
<1>16. ASSUME NEW n \in Host, TerminationCommits(n) PROVE MessageInv'
  <2>1. \A k \in Message : Truthful(k) => Truthful(k)'
    BY <1>16, ConcludeKeepsTruth DEF TerminationCommits, Conclude, Undecided
  <2>2. net' = net /\ \A h \in Host : queue'[h] \subseteq queue[h]
    BY <1>16 DEF TerminationCommits, TypeOK
  <2> QED BY <2>1, <2>2 DEF MessageInv, TypeOK
<1>17. ASSUME NEW m \in net, DeliverVoteReq(m) PROVE MessageInv'
  BY <1>17, MessageFacts DEF DeliverVoteReq
<1>18. ASSUME NEW m \in net, DeliverOldRequest(m) PROVE MessageInv'
  BY <1>18, MessageFacts DEF DeliverOldRequest
<1>19. ASSUME NEW m \in net, Lose(m) PROVE MessageInv'
  BY <1>19 DEF Lose
<1>20. ASSUME NEW n \in Host, Crash(n) PROVE MessageInv'
  BY <1>20 DEF Crash
<1>21. CASE UNCHANGED vars
  BY <1>21 DEF vars
<1> QED
  BY <1>1, <1>2, <1>3, <1>4, <1>5, <1>6, <1>7, <1>8, <1>9, <1>10, <1>11,
     <1>12, <1>13, <1>14, <1>15, <1>16, <1>17, <1>18, <1>19, <1>20, <1>21
     DEF Next, CoordinatorStep, ParticipantStep, TerminationStep, Delivery

(* The scan passes only logs whose participant voted yes. *)
LEMMA ScanStep ==
  ASSUME TypeOK, VoteInv, ScanInv, [Next]_vars
  PROVE  ScanInv'
<1> USE HostFacts DEF TypeOK, VoteInv, ScanInv, Goto
<1>1. CASE ClientRequest
  BY <1>1 DEF ClientRequest
<1>2. ASSUME NEW p \in Participants, SendToParticipant(p) PROVE ScanInv'
  BY <1>2 DEF SendToParticipant
<1>3. CASE StartVoting
  BY <1>3 DEF StartVoting
<1>4. ASSUME NEW m \in queue[Coordinator], TakeVoteYes(m) PROVE ScanInv'
  BY <1>4 DEF TakeVoteYes, Conclude, Decision
<1>5. ASSUME NEW m \in queue[Coordinator], TakeVoteAbort(m) PROVE ScanInv'
  BY <1>5 DEF TakeVoteAbort, Conclude, Decision
<1>6. CASE AnswerClient
  BY <1>6 DEF AnswerClient
<1>7. ASSUME NEW p \in Participants, RefuseVote(p) PROVE ScanInv'
  BY <1>7 DEF RefuseVote
<1>8. ASSUME NEW p \in Participants, LogVote(p) PROVE ScanInv'
  BY <1>8 DEF LogVote
<1>9. ASSUME NEW p \in Participants, SendAbort(p) PROVE ScanInv'
  BY <1>9 DEF SendAbort
<1>10. ASSUME NEW p \in Participants, SendVoteYes(p) PROVE ScanInv'
  BY <1>10 DEF SendVoteYes
<1>11. ASSUME NEW p \in Participants, NEW m \in queue[p], TakeDecision(p, m)
      PROVE  ScanInv'
  BY <1>11 DEF TakeDecision, Conclude, Decision
<1>12. ASSUME NEW p \in Participants, LogDecision(p) PROVE ScanInv'
  BY <1>12 DEF LogDecision
<1>13. ASSUME NEW p \in Participants, WorkerCommit(p) PROVE ScanInv'
  BY <1>13 DEF WorkerCommit
<1>14. ASSUME NEW n \in Host, TimeOut(n) PROVE ScanInv'
  BY <1>14 DEF TimeOut, Participants
<1>15. ASSUME NEW n \in Host, TerminationQuery(n) PROVE ScanInv'
  <2>1. /\ scan[n] \in Participants /\ \A q \in Participants :
              q < scan[n] + 1 => q < scan[n] \/ q = scan[n]
    BY <1>15, NAssumption DEF TerminationQuery, Participants
  <2>2. CASE UNCHANGED scan /\ Conclude(n, LogOnce(log[scan[n]], "ABORT"))
    BY <1>15, <2>2 DEF TerminationQuery, Conclude
  <2>3. CASE /\ LogOnce(log[scan[n]], "ABORT") = "VOTEYES"
             /\ scan' = [scan EXCEPT ![n] = scan[n] + 1]
             /\ UNCHANGED pc
    <3>1. vote[scan[n]] = "yes"
      BY <2>1, <2>3 DEF LogOnce
    <3> QED BY <1>15, <2>1, <2>3, <3>1 DEF TerminationQuery
  <2> QED BY <1>15, <2>2, <2>3 DEF TerminationQuery
<1>16. ASSUME NEW n \in Host, TerminationCommits(n) PROVE ScanInv'
  BY <1>16 DEF TerminationCommits, Conclude, Decision
<1>17. ASSUME NEW m \in net, DeliverVoteReq(m) PROVE ScanInv'
  BY <1>17 DEF DeliverVoteReq
<1>18. ASSUME NEW m \in net, DeliverOldRequest(m) PROVE ScanInv'
  BY <1>18 DEF DeliverOldRequest
<1>19. ASSUME NEW m \in net, Lose(m) PROVE ScanInv'
  BY <1>19 DEF Lose
<1>20. ASSUME NEW n \in Host, Crash(n) PROVE ScanInv'
  BY <1>20 DEF Crash
<1>21. CASE UNCHANGED vars
  BY <1>21 DEF vars
<1> QED
  BY <1>1, <1>2, <1>3, <1>4, <1>5, <1>6, <1>7, <1>8, <1>9, <1>10, <1>11,
     <1>12, <1>13, <1>14, <1>15, <1>16, <1>17, <1>18, <1>19, <1>20, <1>21
     DEF Next, CoordinatorStep, ParticipantStep, TerminationStep, Delivery

(* worker.COMMIT follows a durable COMMIT, which nothing overwrites. *)
LEMMA AppliedStep ==
  ASSUME TypeOK, VoteInv, AppliedInv, [Next]_vars
  PROVE  AppliedInv'
<1> USE HostFacts DEF TypeOK, VoteInv, AppliedInv
<1>1. CASE ClientRequest
  BY <1>1 DEF ClientRequest
<1>2. ASSUME NEW p \in Participants, SendToParticipant(p) PROVE AppliedInv'
  BY <1>2 DEF SendToParticipant
<1>3. CASE StartVoting
  BY <1>3 DEF StartVoting
<1>4. ASSUME NEW m \in queue[Coordinator], TakeVoteYes(m) PROVE AppliedInv'
  BY <1>4 DEF TakeVoteYes
<1>5. ASSUME NEW m \in queue[Coordinator], TakeVoteAbort(m) PROVE AppliedInv'
  BY <1>5 DEF TakeVoteAbort
<1>6. CASE AnswerClient
  BY <1>6 DEF AnswerClient
<1>7. ASSUME NEW p \in Participants, RefuseVote(p) PROVE AppliedInv'
  BY <1>7 DEF RefuseVote
<1>8. ASSUME NEW p \in Participants, LogVote(p) PROVE AppliedInv'
  BY <1>8 DEF LogVote, LogOnce
<1>9. ASSUME NEW p \in Participants, SendAbort(p) PROVE AppliedInv'
  BY <1>9 DEF SendAbort
<1>10. ASSUME NEW p \in Participants, SendVoteYes(p) PROVE AppliedInv'
  BY <1>10 DEF SendVoteYes
<1>11. ASSUME NEW p \in Participants, NEW m \in queue[p], TakeDecision(p, m)
      PROVE  AppliedInv'
  BY <1>11 DEF TakeDecision
<1>12. ASSUME NEW p \in Participants, LogDecision(p) PROVE AppliedInv'
  BY <1>12 DEF LogDecision, LogWrite
<1>13. ASSUME NEW p \in Participants, WorkerCommit(p) PROVE AppliedInv'
  BY <1>13 DEF WorkerCommit
<1>14. ASSUME NEW n \in Host, TimeOut(n) PROVE AppliedInv'
  BY <1>14 DEF TimeOut
<1>15. ASSUME NEW n \in Host, TerminationQuery(n) PROVE AppliedInv'
  BY <1>15 DEF TerminationQuery, LogOnce
<1>16. ASSUME NEW n \in Host, TerminationCommits(n) PROVE AppliedInv'
  BY <1>16 DEF TerminationCommits
<1>17. ASSUME NEW m \in net, DeliverVoteReq(m) PROVE AppliedInv'
  BY <1>17 DEF DeliverVoteReq
<1>18. ASSUME NEW m \in net, DeliverOldRequest(m) PROVE AppliedInv'
  BY <1>18 DEF DeliverOldRequest
<1>19. ASSUME NEW m \in net, Lose(m) PROVE AppliedInv'
  BY <1>19 DEF Lose
<1>20. ASSUME NEW n \in Host, Crash(n) PROVE AppliedInv'
  BY <1>20 DEF Crash
<1>21. CASE UNCHANGED vars
  BY <1>21 DEF vars
<1> QED
  BY <1>1, <1>2, <1>3, <1>4, <1>5, <1>6, <1>7, <1>8, <1>9, <1>10, <1>11,
     <1>12, <1>13, <1>14, <1>15, <1>16, <1>17, <1>18, <1>19, <1>20, <1>21
     DEF Next, CoordinatorStep, ParticipantStep, TerminationStep, Delivery

(* A VOTEYES is sent once, and is in one place at a time. *)
LEMMA TransitStep ==
  ASSUME TypeOK, VoteInv, MessageInv, TransitInv, [Next]_vars
  PROVE  TransitInv'
<1> USE HostFacts DEF TypeOK, VoteInv, MessageInv, Truthful, TransitInv,
        YesOf, Msg, Goto
<1>1. CASE ClientRequest
  BY <1>1 DEF ClientRequest
<1>2. ASSUME NEW p \in Participants, SendToParticipant(p) PROVE TransitInv'
  BY <1>2 DEF SendToParticipant
<1>3. CASE StartVoting
  BY <1>3 DEF StartVoting
<1>4. ASSUME NEW m \in queue[Coordinator], TakeVoteYes(m) PROVE TransitInv'
  BY <1>4 DEF TakeVoteYes, Conclude
<1>5. ASSUME NEW m \in queue[Coordinator], TakeVoteAbort(m) PROVE TransitInv'
  BY <1>5 DEF TakeVoteAbort, Conclude
<1>6. CASE AnswerClient
  BY <1>6 DEF AnswerClient
<1>7. ASSUME NEW p \in Participants, RefuseVote(p) PROVE TransitInv'
  BY <1>7 DEF RefuseVote
<1>8. ASSUME NEW p \in Participants, LogVote(p) PROVE TransitInv'
  BY <1>8 DEF LogVote
<1>9. ASSUME NEW p \in Participants, SendAbort(p) PROVE TransitInv'
  BY <1>9 DEF SendAbort
<1>10. ASSUME NEW p \in Participants, SendVoteYes(p) PROVE TransitInv'
  BY <1>10 DEF SendVoteYes
<1>11. ASSUME NEW p \in Participants, NEW m \in queue[p], TakeDecision(p, m)
      PROVE  TransitInv'
  BY <1>11 DEF TakeDecision, Conclude
<1>12. ASSUME NEW p \in Participants, LogDecision(p) PROVE TransitInv'
  BY <1>12 DEF LogDecision
<1>13. ASSUME NEW p \in Participants, WorkerCommit(p) PROVE TransitInv'
  BY <1>13 DEF WorkerCommit
<1>14. ASSUME NEW n \in Host, TimeOut(n) PROVE TransitInv'
  BY <1>14 DEF TimeOut
<1>15. ASSUME NEW n \in Host, TerminationQuery(n) PROVE TransitInv'
  BY <1>15 DEF TerminationQuery, Conclude
<1>16. ASSUME NEW n \in Host, TerminationCommits(n) PROVE TransitInv'
  BY <1>16 DEF TerminationCommits, Conclude
<1>17. ASSUME NEW m \in net, DeliverVoteReq(m) PROVE TransitInv'
  BY <1>17 DEF DeliverVoteReq
<1>18. ASSUME NEW m \in net, DeliverOldRequest(m) PROVE TransitInv'
  BY <1>18 DEF DeliverOldRequest
<1>19. ASSUME NEW m \in net, Lose(m) PROVE TransitInv'
  BY <1>19 DEF Lose
<1>20. ASSUME NEW n \in Host, Crash(n) PROVE TransitInv'
  BY <1>20 DEF Crash
<1>21. CASE UNCHANGED vars
  BY <1>21 DEF vars
<1> QED
  BY <1>1, <1>2, <1>3, <1>4, <1>5, <1>6, <1>7, <1>8, <1>9, <1>10, <1>11,
     <1>12, <1>13, <1>14, <1>15, <1>16, <1>17, <1>18, <1>19, <1>20, <1>21
     DEF Next, CoordinatorStep, ParticipantStep, TerminationStep, Delivery

(* The count stays covered if no arrived vote is called back. *)
LEMMA ArrivedGrows ==
  ASSUME TypeOK, CountInv, votes' = votes, Arrived \subseteq Arrived'
  PROVE  CountInv'
<1>1. Arrived' \in SUBSET Participants
  BY DEF Arrived
<1>2. /\ Cardinality(Arrived) \in Nat /\ Cardinality(Arrived') \in Nat
      /\ Cardinality(Arrived) <= Cardinality(Arrived')
  BY <1>1, SubsetSize
<1> QED BY <1>2 DEF CountInv, TypeOK

(* Votes are counted at most once. *)
LEMMA CountStep ==
  ASSUME TypeOK, VoteInv, MessageInv, TransitInv, CountInv, [Next]_vars
  PROVE  CountInv'
<1> USE HostFacts DEF TypeOK, VoteInv, Arrived, YesOf, Msg, Goto
<1>1. CASE ClientRequest
  BY <1>1, ArrivedGrows DEF ClientRequest
<1>2. ASSUME NEW p \in Participants, SendToParticipant(p) PROVE CountInv'
  BY <1>2, ArrivedGrows DEF SendToParticipant
<1>3. CASE StartVoting
  BY <1>3, ArrivedGrows DEF StartVoting
<1>4. ASSUME NEW m \in queue[Coordinator], TakeVoteYes(m) PROVE CountInv'
  BY <1>4, VoteCounted DEF CountInv
<1>5. ASSUME NEW m \in queue[Coordinator], TakeVoteAbort(m) PROVE CountInv'
  BY <1>5, ArrivedGrows DEF TakeVoteAbort, Conclude
<1>6. CASE AnswerClient
  BY <1>6, ArrivedGrows DEF AnswerClient
<1>7. ASSUME NEW p \in Participants, RefuseVote(p) PROVE CountInv'
  BY <1>7, ArrivedGrows DEF RefuseVote
<1>8. ASSUME NEW p \in Participants, LogVote(p) PROVE CountInv'
  BY <1>8, ArrivedGrows DEF LogVote
<1>9. ASSUME NEW p \in Participants, SendAbort(p) PROVE CountInv'
  BY <1>9, ArrivedGrows DEF SendAbort
<1>10. ASSUME NEW p \in Participants, SendVoteYes(p) PROVE CountInv'
  BY <1>10, ArrivedGrows DEF SendVoteYes
<1>11. ASSUME NEW p \in Participants, NEW m \in queue[p], TakeDecision(p, m)
      PROVE  CountInv'
  BY <1>11, ArrivedGrows DEF TakeDecision, Conclude
<1>12. ASSUME NEW p \in Participants, LogDecision(p) PROVE CountInv'
  BY <1>12, ArrivedGrows DEF LogDecision
<1>13. ASSUME NEW p \in Participants, WorkerCommit(p) PROVE CountInv'
  BY <1>13, ArrivedGrows DEF WorkerCommit
<1>14. ASSUME NEW n \in Host, TimeOut(n) PROVE CountInv'
  BY <1>14, ArrivedGrows DEF TimeOut
<1>15. ASSUME NEW n \in Host, TerminationQuery(n) PROVE CountInv'
  BY <1>15, ArrivedGrows DEF TerminationQuery, Conclude
<1>16. ASSUME NEW n \in Host, TerminationCommits(n) PROVE CountInv'
  BY <1>16, ArrivedGrows DEF TerminationCommits, Conclude
<1>17. ASSUME NEW m \in net, DeliverVoteReq(m) PROVE CountInv'
  BY <1>17, ArrivedGrows DEF DeliverVoteReq
<1>18. ASSUME NEW m \in net, DeliverOldRequest(m) PROVE CountInv'
  BY <1>18, ArrivedGrows DEF DeliverOldRequest
<1>19. ASSUME NEW m \in net, Lose(m) PROVE CountInv'
  BY <1>19, ArrivedGrows DEF Lose
<1>20. ASSUME NEW n \in Host, Crash(n) PROVE CountInv'
  BY <1>20, ArrivedGrows DEF Crash
<1>21. CASE UNCHANGED vars
  BY <1>21, ArrivedGrows DEF vars
<1> QED
  BY <1>1, <1>2, <1>3, <1>4, <1>5, <1>6, <1>7, <1>8, <1>9, <1>10, <1>11,
     <1>12, <1>13, <1>14, <1>15, <1>16, <1>17, <1>18, <1>19, <1>20, <1>21
     DEF Next, CoordinatorStep, ParticipantStep, TerminationStep, Delivery

-----------------------------------------------------------------------------
(* The theorems. *)

LEMMA InitInv == Init => IInv
<1> SUFFICES ASSUME Init PROVE IInv
  OBVIOUS
<1> USE HostFacts, NAssumption DEF Init
<1>1. TypeOK
  BY DEF TypeOK, PC, Finished, LogValue, NoDecision
<1>2. PhaseInv /\ VoteInv /\ DecisionInv
  BY DEF PhaseInv, CoordinatorPC, ParticipantPC, Undecided, Decided, VoteInv,
         DecisionInv, NoDecision
<1>3. MessageInv /\ TransitInv /\ ScanInv /\ AppliedInv
  BY DEF MessageInv, TransitInv, ScanInv, AppliedInv, Participants
<1>4. CountInv
  BY SubsetSize DEF CountInv, Arrived
<1> QED BY <1>1, <1>2, <1>3, <1>4 DEF IInv

LEMMA StepInv == IInv /\ [Next]_vars => IInv'
BY TypeStep, PhaseStep, VoteStep, DecisionStep, MessageStep, TransitStep,
   CountStep, ScanStep, AppliedStep DEF IInv

(* IInv holds in every reachable state, for every N and every set of       *)
(* faults.                                                                 *)
THEOREM InductiveInvariant == Spec => []IInv
BY InitInv, StepInv, PTL DEF Spec

(* Every variable keeps its type: in particular only VOTEYES, COMMIT and   *)
(* ABORT are ever logged (log.hpp:59-63 throws for anything else).         *)
THEOREM TypeCorrect == Spec => []TypeOK
<1>1. IInv => TypeOK
  BY DEF IInv
<1> QED BY <1>1, InductiveInvariant, PTL

(* All votes are yes, or nobody can vote yes any more: not both.           *)
LEMMA Exclusive ==
  ASSUME TypeOK, NEW p \in Participants, Vetoed(p)
  PROVE  ~Unanimous
BY DEF Unanimous, Vetoed

(* No two handlers, and not the client either, are told different          *)
(* decisions (Coordinator.h:13-52, Participant.h:18-68).                   *)
THEOREM AgreementHolds == Spec => []Agreement
<1>1. IInv => Agreement
  <2> SUFFICES ASSUME IInv, Decision \subseteq Concluded PROVE FALSE
    BY DEF Agreement
  <2>1. \A d \in Decision : \E n \in Host : decision[n] = d
    BY HostFacts DEF Concluded, IInv, PhaseInv, Decision, NoDecision
  <2>2. Unanimous
    BY <2>1 DEF IInv, DecisionInv, Decision
  <2>3. \E p \in Participants : Vetoed(p)
    BY <2>1 DEF IInv, DecisionInv, Decision
  <2> QED BY <2>2, <2>3, Exclusive DEF IInv
<1> QED BY <1>1, InductiveInvariant, PTL

(* While the votes are unanimous, no log holds ABORT; once one is vetoed,  *)
(* its log holds neither VOTEYES nor COMMIT.                               *)
LEMMA LogsTell ==
  ASSUME IInv
  PROVE  \A p \in Participants :
           /\ Unanimous => log[p] \in {"VOTEYES", "COMMIT"}
           /\ Vetoed(p) => log[p] \notin {"VOTEYES", "COMMIT"}
<1>1. ASSUME Unanimous, NEW p \in Participants
      PROVE  log[p] \in {"VOTEYES", "COMMIT"}
  <2>1. log[p] = "VOTEYES" \/ (log[p] \in Decision /\ log[p] = decision[p])
    BY <1>1 DEF Unanimous, IInv, VoteInv
  <2>2. decision[p] # "ABORT"
    BY <1>1, HostFacts, Exclusive DEF IInv, DecisionInv
  <2> QED BY <2>1, <2>2 DEF Decision
<1>2. ASSUME NEW p \in Participants, Vetoed(p)
      PROVE  log[p] \notin {"VOTEYES", "COMMIT"}
  BY <1>2 DEF IInv, VoteInv, Vetoed
<1> QED BY <1>1, <1>2

(* Whatever anybody was told is what the logs alone tell, at any later     *)
(* time (TransactionHandler.hpp:13-37 reads the decision off the logs).    *)
THEOREM OutcomeIsInLogs == Spec => []OutcomeInLogs
<1>1. IInv => OutcomeInLogs
  <2> SUFFICES ASSUME IInv, NEW d \in Concluded, d # NoDecision
               PROVE  d = Verdict
    BY DEF OutcomeInLogs
  <2>1. d \in Decision /\ \E n \in Host : decision[n] = d
    BY HostFacts DEF Concluded, IInv, PhaseInv, TypeOK
  <2>2. CASE d = "COMMIT"
    BY <2>1, <2>2, LogsTell DEF IInv, DecisionInv, Verdict
  <2>3. CASE d = "ABORT"
    BY <2>1, <2>3, LogsTell DEF IInv, DecisionInv, Verdict
  <2> QED BY <2>1, <2>2, <2>3 DEF Decision
<1> QED BY <1>1, InductiveInvariant, PTL

(* worker.COMMIT is covered by a durable COMMIT and by everybody's vote    *)
(* (Participant.h:55-60).                                                  *)
THEOREM AppliedDurable == Spec => []AppliedIsDurable
<1>1. IInv => AppliedIsDurable
  <2> SUFFICES ASSUME IInv, NEW p \in applied
               PROVE  /\ log[p] = "COMMIT"
                      /\ \A q \in Participants :
                           log[q] \in {"VOTEYES", "COMMIT"}
    BY DEF AppliedIsDurable, IInv, AppliedInv
  <2>1. p \in Participants /\ log[p] = "COMMIT"
    BY DEF IInv, TypeOK, AppliedInv
  <2>2. decision[p] = "COMMIT"
    BY <2>1 DEF IInv, VoteInv
  <2>3. Unanimous
    BY <2>1, <2>2, HostFacts DEF IInv, DecisionInv
  <2> QED BY <2>1, <2>3, LogsTell
<1> QED BY <1>1, InductiveInvariant, PTL

(* A log never leaves COMMIT or ABORT, although LOG_WRITE overwrites what  *)
(* it finds (log.hpp:38-44).                                               *)
THEOREM LogsMonotonic == Spec => LogMonotonic
<1> DEFINE Grows == \A p \in Participants :
              log'[p] # log[p] =>
                 \/ log[p] = "WORKING" /\ log'[p] \in {"VOTEYES", "ABORT"}
                 \/ log[p] = "VOTEYES" /\ log'[p] \in Decision
<1>1. ASSUME IInv, [Next]_vars PROVE [Grows]_log
  <2> USE HostFacts DEF IInv, TypeOK
  <2>1. ASSUME NEW p \in Participants, LogVote(p) PROVE Grows
    BY <1>1, <2>1 DEF LogVote, LogOnce
  <2>2. ASSUME NEW p \in Participants, LogDecision(p) PROVE Grows
    <3>1. log[p] = "VOTEYES" /\ decision[p] \in Decision
      BY <1>1, <2>2 DEF LogDecision, VoteInv, PhaseInv, Decided
    <3> QED BY <2>2, <3>1 DEF LogDecision, LogWrite
  <2>3. ASSUME NEW n \in Host, TerminationQuery(n) PROVE Grows
    BY <1>1, <2>3 DEF TerminationQuery, LogOnce, Decision
  <2>4. \/ UNCHANGED log
        \/ \E p \in Participants : LogVote(p) \/ LogDecision(p)
        \/ \E n \in Host : TerminationQuery(n)
    BY <1>1
    DEF Next, CoordinatorStep, ParticipantStep, TerminationStep, Delivery,
        ClientRequest, SendToParticipant, StartVoting, TakeVoteYes,
        TakeVoteAbort, AnswerClient, RefuseVote, SendAbort, SendVoteYes,
        TakeDecision, WorkerCommit, TimeOut, TerminationCommits,
        DeliverVoteReq, DeliverOldRequest, Lose, Crash, vars
  <2> QED BY <2>1, <2>2, <2>3, <2>4
<1>2. IInv /\ [Next]_vars => [Grows]_log
  BY <1>1
<1> QED BY <1>2, InductiveInvariant, PTL DEF Spec, LogMonotonic

-----------------------------------------------------------------------------
(* Refinement of AtomicCommit. *)

(* The abstract votes seen from the states. *)
LEMMA VoteBarFacts ==
  ASSUME TypeOK, VoteInv
  PROVE  \A p \in Participants :
           /\ VoteBar[p] = "yes" <=> vote[p] = "yes"
           /\ VoteBar[p] = "no" <=> Vetoed(p)
           /\ VoteBar[p] \in {"none", "yes", "no"}
           /\ VoteBar[p] = "none" <=> vote[p] = "none" /\ log[p] = "WORKING"
BY DEF TypeOK, VoteInv, VoteBar, Vetoed

(* A step that touches neither votes nor logs leaves the abstract votes.   *)
LEMMA VoteBarFrame ==
  ASSUME vote' = vote, log' = log
  PROVE  VoteBar' = VoteBar
BY DEF VoteBar

(* A handler that concludes, with the votes settled already, makes a step  *)
(* of the abstract specification.                                          *)
LEMMA ConcludeRefines ==
  ASSUME IInv, IInv', NEW n \in Host, NEW d \in Decision,
         decision[n] = NoDecision, decision' = [decision EXCEPT ![n] = d],
         VoteBar' = VoteBar
  PROVE  AC!Next
<1> USE HostFacts DEF IInv
<1>0. /\ decision'[n] = d
      /\ VoteBar \in [Participants -> {"none", "yes", "no"}]
  BY VoteBarFacts DEF TypeOK, VoteBar
<1>1. CASE d = "COMMIT"
  <2>1. \A p \in Participants : VoteBar'[p] = "yes"
    BY <1>0, <1>1 DEF DecisionInv, Unanimous, VoteBar
  <2> QED BY <1>1, <2>1 DEF AC!Next, AC!Commit, NoDecision
<1>2. CASE d = "ABORT"
  <2>1. PICK p \in Participants : Vetoed(p)'
    BY <1>0, <1>2 DEF DecisionInv
  <2>2. VoteBar[p] = "no"
    BY <2>1 DEF Vetoed, VoteBar
  <2>3. VoteBar' = [VoteBar EXCEPT ![p] = "no"]
    BY <1>0, <2>2
  <2>4. AC!Abort(n, p)
    BY <1>2, <2>2, <2>3 DEF AC!Abort, NoDecision
  <2> QED BY <2>4 DEF AC!Next
<1> QED BY <1>1, <1>2 DEF Decision

(* Every step is a step of AtomicCommit or leaves its variables alone.     *)
LEMMA StepRefines ==
  ASSUME IInv, IInv', [Next]_vars
  PROVE  AC!Next \/ UNCHANGED <<VoteBar, decision>>
<1> DEFINE Goal == AC!Next \/ UNCHANGED <<VoteBar, decision>>
<1> USE HostFacts
<1>0. TypeOK /\ PhaseInv /\ VoteInv
  BY DEF IInv
<1>1. CASE UNCHANGED <<vote, log, decision>>
  BY <1>1, VoteBarFrame
<1>2. ASSUME NEW n \in Host, NEW d, Conclude(n, d), d \in Decision,
             pc[n] \in Undecided, vote' = vote, log' = log
      PROVE  Goal
  BY <1>0, <1>2, VoteBarFrame, ConcludeRefines DEF Conclude, PhaseInv
<1>3. ASSUME NEW p \in Participants, RefuseVote(p) PROVE Goal
  <2>1. vote[p] = "none" /\ vote' = [vote EXCEPT ![p] = "no"]
    BY <1>0, <1>3 DEF RefuseVote, VoteInv
  <2>2. decision' = decision /\ log' = log
    BY <1>3 DEF RefuseVote
  <2>3. VoteBar' = [VoteBar EXCEPT ![p] = "no"]
    BY <1>0, <2>1, <2>2 DEF VoteBar, TypeOK
  <2>4. CASE log[p] = "ABORT"
    BY <2>1, <2>2, <2>3, <2>4 DEF VoteBar
  <2>5. CASE log[p] # "ABORT"
    <3>1. AC!Vote(p, "no")
      BY <2>1, <2>2, <2>3, <2>5 DEF AC!Vote, VoteBar
    <3> QED BY <3>1 DEF AC!Next
  <2> QED BY <2>4, <2>5
<1>4. ASSUME NEW p \in Participants, LogVote(p) PROVE Goal
  <2>1. vote[p] = "none" /\ log[p] \in {"WORKING", "ABORT"}
    BY <1>0, <1>4 DEF LogVote, VoteInv
  <2>2. decision' = decision
    BY <1>4 DEF LogVote
  <2>3. CASE log[p] = "WORKING"
    <3>1. VoteBar[p] = "none" /\ VoteBar' = [VoteBar EXCEPT ![p] = "yes"]
      BY <1>0, <1>4, <2>1, <2>3 DEF LogVote, LogOnce, VoteBar, TypeOK
    <3>2. AC!Vote(p, "yes")
      BY <2>2, <3>1 DEF AC!Vote
    <3> QED BY <3>2 DEF AC!Next
  <2>4. CASE log[p] = "ABORT"
    <3>1. VoteBar' = VoteBar
      BY <1>0, <1>4, <2>1, <2>4 DEF LogVote, LogOnce, VoteBar, TypeOK
    <3> QED BY <2>2, <3>1
  <2> QED BY <2>1, <2>3, <2>4
<1>5. ASSUME NEW p \in Participants, SendAbort(p) PROVE Goal
  <2>1. decision[p] = NoDecision /\ VoteBar' = VoteBar
    BY <1>0, <1>5, VoteBarFrame DEF SendAbort, PhaseInv, Undecided
  <2>2. decision' = [decision EXCEPT ![p] = "ABORT"]
    BY <1>5 DEF SendAbort
  <2> QED BY <2>1, <2>2, ConcludeRefines DEF Decision
<1>6. ASSUME NEW p \in Participants, LogDecision(p) PROVE Goal
  <2>1. vote' = vote /\ decision' = decision /\ vote[p] = "yes"
    BY <1>0, <1>6 DEF LogDecision, VoteInv
  <2>2. VoteBar' = VoteBar
    BY <1>0, <1>6, <2>1 DEF LogDecision, VoteBar, TypeOK
  <2> QED BY <2>1, <2>2
<1>7. ASSUME NEW n \in Host, TerminationQuery(n) PROVE Goal
  <2> DEFINE p == scan[n]
             resp == LogOnce(log[p], "ABORT")
  <2>1. p \in Participants /\ decision[n] = NoDecision
    BY <1>0, <1>7 DEF TerminationQuery, TypeOK, Participants, PhaseInv,
                      Undecided
  <2>2. vote' = vote /\ log' = [log EXCEPT ![p] = resp]
    BY <1>7 DEF TerminationQuery
  <2>3. CASE log[p] # "WORKING"
    <3>1. log' = log
      BY <1>0, <2>1, <2>2, <2>3 DEF LogOnce, TypeOK
    <3>2. UNCHANGED decision \/ (Conclude(n, resp) /\ resp \in Decision)
      BY <1>7 DEF TerminationQuery
    <3>3. pc[n] \in Undecided
      BY <1>7 DEF TerminationQuery, Undecided
    <3> QED BY <1>1, <1>2, <2>2, <3>1, <3>2, <3>3
  <2>4. CASE log[p] = "WORKING"
    <3>1. decision' = [decision EXCEPT ![n] = "ABORT"]
      BY <1>7, <2>4 DEF TerminationQuery, LogOnce, Conclude
    <3>2. vote[p] # "yes"
      BY <1>0, <2>1, <2>4 DEF VoteInv, Decision
    <3>3. VoteBar[p] # "yes" /\ VoteBar' = [VoteBar EXCEPT ![p] = "no"]
      BY <1>0, <2>1, <2>2, <2>4, <3>2 DEF VoteBar, TypeOK, LogOnce
    <3>4. AC!Abort(n, p)
      BY <2>1, <3>1, <3>3 DEF AC!Abort, NoDecision
    <3> QED BY <2>1, <3>4 DEF AC!Next
  <2> QED BY <2>3, <2>4
<1>8. ASSUME NEW n \in Host, TerminationCommits(n) PROVE Goal
  BY <1>2, <1>8 DEF TerminationCommits, Undecided, Decision
<1>9. ASSUME NEW m \in queue[Coordinator], TakeVoteYes(m) PROVE Goal
  BY <1>1, <1>2, <1>9 DEF TakeVoteYes, Undecided, Decision
<1>10. ASSUME NEW m \in queue[Coordinator], TakeVoteAbort(m) PROVE Goal
  BY <1>2, <1>10 DEF TakeVoteAbort, Undecided, Decision
<1>11. ASSUME NEW p \in Participants, NEW m \in queue[p], TakeDecision(p, m)
       PROVE  Goal
  BY <1>2, <1>11 DEF TakeDecision, Undecided
<1> QED
  BY <1>1, <1>3, <1>4, <1>5, <1>6, <1>7, <1>8, <1>9, <1>10, <1>11
  DEF Next, CoordinatorStep, ParticipantStep, TerminationStep, Delivery,
      ClientRequest, SendToParticipant, StartVoting, AnswerClient,
      SendVoteYes, WorkerCommit, TimeOut, DeliverVoteReq, DeliverOldRequest,
      Lose, Crash, vars

(* The PAPER_VERSION implements AtomicCommit: its decisions are a function *)
(* of votes that are settled once, whatever fails.                         *)
THEOREM Refinement == Spec => ImplementsAtomicCommit
<1>1. Init => AC!Init
  BY DEF Init, AC!Init, VoteBar, NoDecision
<1>2. IInv /\ IInv' /\ [Next]_vars => [AC!Next]_(AC!vars)
  BY StepRefines DEF AC!vars
<1> QED
  BY <1>1, <1>2, InductiveInvariant, PTL
  DEF Spec, ImplementsAtomicCommit, AC!Spec
=============================================================================
