---------------------------- MODULE MCCornusNode ----------------------------
(* Instances of CornusNode for TLC. *)
EXTENDS CornusNode, TLC

Msg(type, tx, from) == [type |-> type, tx |-> tx, from |-> from]
VoteReq(tx) == Msg("VOTEREQ", tx, "c1")
Commit(tx) == Msg("COMMIT", tx, "c1")

Plan(first, second, own) == "c1" :> first @@ "c2" :> second @@ "http" :> own

(* Participant of two transactions, or of one that is aborted. *)
TwoTransactions ==
  Plan(<<VoteReq("t1"), Commit("t1")>>, <<Msg("VOTEREQ", "t2", "c2")>>, <<>>)

Aborted == Plan(<<VoteReq("t1"), Msg("ABORT", "t1", "c1")>>, <<>>, <<>>)

(* Coordinator whose participants agree, or one refuses. *)
Own(answer) ==
  Plan(<<Msg("VOTEYES", "t3", "c1")>>, <<Msg(answer, "t3", "c2")>>,
       <<Msg("TRANSACTION", "t3", "http")>>)

(* Replicator, and a participant that is told to commit after all. *)
Replication ==
  Plan(<<Msg("WILLCOMMIT", "t4", "c1"), Msg("DECISIONCOMPLETED", "t4", "c1")>>,
       <<Msg("OVERRIDECOMMIT", "t4", "c2")>>, <<>>)

(* Two replicators ask this participant to commit after all. *)
Overrides ==
  Plan(<<Msg("OVERRIDECOMMIT", "t4", "c1")>>, <<Msg("OVERRIDECOMMIT", "t4", "c2")>>, <<>>)

(* A config that fits into VOTEREQ only. *)
LongConfig ==
  Plan(<<VoteReq("t5"), Msg("WILLCOMMIT", "t5", "c1"), Commit("t5")>>, <<>>, <<>>)

AllScripts == {TwoTransactions, Aborted, Own("VOTEYES"), Own("ABORT"), Replication,
               Overrides, LongConfig}
AllMessages == UNION {UNION {Range(s[c]) : c \in DOMAIN s} : s \in AllScripts}

Configs == [tx \in {"t1", "t2", "t3", "t4", "t5"} |-> IF tx = "t5" THEN 2 ELSE 0]
=============================================================================
