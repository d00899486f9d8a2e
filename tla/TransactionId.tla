--------------------------- MODULE TransactionId ----------------------------
(***************************************************************************)
(* GlobalMessageHandler::getUniqueTransactionId, as the worker threads of  *)
(* a node's HTTP server call it for concurrent client requests.            *)
(*                                                                         *)
(* In C++ `transactionCounter << 16` is computed in the 32 bits of         *)
(* u_int32_t and only then widened to the 64 bits of TransactionId; and    *)
(* `transactionCounter++` is a plain load, add and store, without a lock.  *)
(* The widths are parameters, so that TLC can reach their limits.          *)
(***************************************************************************)
EXTENDS Integers, Sequences, FiniteSets

CONSTANTS Nodes,        \* the nodeId of every node
          Workers,      \* per node, the worker threads of its HTTP server
          NodeBits,     \* the shift, 16 in the code
          CounterBits,  \* the width of transactionCounter, 32 in the code
          MayRestart,   \* the nodes that may be restarted
          MaxIssued     \* how many ids a node issues (bounds the model)

ASSUME WidthAssumption == CounterBits \in Nat /\ NodeBits \in 1..CounterBits
ASSUME PowerAssumption ==  \* laws of powers that the provers do not know
  /\ {2^NodeBits, 2^CounterBits, 2^(CounterBits - NodeBits)} \subseteq Nat \ {0}
  /\ 2^CounterBits = 2^(CounterBits - NodeBits) * 2^NodeBits
ASSUME RestartAssumption == MayRestart \subseteq Nodes
ASSUME NodesAssumption == Nodes \subseteq 0..(2^NodeBits - 1)
ASSUME WorkersAssumption == \A n \in Nodes : IsFiniteSet(Workers[n])

VARIABLES
  transactionCounter,  \* per node
  step,                \* per thread: where it is in getUniqueTransactionId
  newID,               \* per thread: the local variable
  loaded,              \* per thread: the value that the increment has loaded
  issued               \* per node: the ids returned, with the counter used

vars == <<transactionCounter, step, newID, loaded, issued>>

Threads == UNION {{n} \X Workers[n] : n \in Nodes}
NodeOf(t) == t[1]

Init ==
  /\ transactionCounter = [n \in Nodes |-> 0]
  /\ step = [t \in Threads |-> "called"]
  /\ newID = [t \in Threads |-> 0]
  /\ loaded = [t \in Threads |-> 0]
  /\ issued = [n \in Nodes |-> <<>>]

(* Mutation: the shift is one bit short of the node's bits. *)
IdShort(n, c) == ((c * 2^(NodeBits - 1)) % 2^CounterBits) + n

(* transactionCounter << 16, plus the node. *)
Id(n, c) == ((c * 2^NodeBits) % 2^CounterBits) + n

Shift(t) ==
  /\ step[t] = "called"
  /\ Len(issued[NodeOf(t)]) < MaxIssued
  /\ newID' = [newID EXCEPT ![t] = Id(NodeOf(t), transactionCounter[NodeOf(t)])]
  /\ step' = [step EXCEPT ![t] = "increment"]
  /\ UNCHANGED <<transactionCounter, loaded, issued>>

Load(t) ==
  /\ step[t] = "increment"
  /\ loaded' = [loaded EXCEPT ![t] = transactionCounter[NodeOf(t)]]
  /\ step' = [step EXCEPT ![t] = "store"]
  /\ UNCHANGED <<transactionCounter, newID, issued>>

(* Mutation: the increment is forgotten. *)
StoreSame(t) ==
  /\ step[t] = "store"
  /\ issued' = [issued EXCEPT ![NodeOf(t)] =
                  Append(@, [id |-> newID[t], counter |-> loaded[t]])]
  /\ step' = [step EXCEPT ![t] = "called"]
  /\ UNCHANGED <<transactionCounter, newID, loaded>>

(* The store, and the return. *)
Store(t) ==
  /\ step[t] = "store"
  /\ transactionCounter' =
       [transactionCounter EXCEPT ![NodeOf(t)] = (loaded[t] + 1) % 2^CounterBits]
  /\ issued' = [issued EXCEPT ![NodeOf(t)] =
                  Append(@, [id |-> newID[t], counter |-> loaded[t]])]
  /\ step' = [step EXCEPT ![t] = "called"]
  /\ UNCHANGED <<newID, loaded>>

(* The process is started again: the counter is kept nowhere. *)
Restart(n) ==
  /\ n \in MayRestart
  /\ transactionCounter' = [transactionCounter EXCEPT ![n] = 0]
  /\ step' = [t \in Threads |-> IF NodeOf(t) = n THEN "called" ELSE step[t]]
  /\ UNCHANGED <<newID, loaded, issued>>

Next == \/ \E t \in Threads : Shift(t) \/ Load(t) \/ Store(t)
        \/ \E n \in Nodes : Restart(n)

Spec == Init /\ [][Next]_vars
-----------------------------------------------------------------------------
(* Properties. *)

(* The first ids of a node are all different, as many as its counter has   *)
(* values after the shift, if it serves one request at a time and is not   *)
(* restarted.  (A transaction with the id of a running one would take over *)
(* its handler and its logs.)                                              *)
FreshIds ==
  \A n \in Nodes \ MayRestart : Cardinality(Workers[n]) = 1 =>
    \A i, j \in 1..Len(issued[n]) :
       i < j /\ j <= 2^(CounterBits - NodeBits) => issued[n][i].id # issued[n][j].id

(* No id is issued by two nodes, even if their counters wrap, race with    *)
(* themselves or start again.                                              *)
NodesDisjoint == \A n, m \in Nodes : n # m =>
  \A i \in 1..Len(issued[n]), j \in 1..Len(issued[m]) :
     issued[n][i].id # issued[m][j].id

(* "bits 47-16: per node counter, bits 15-0: unique node id"               *)
(* (GlobalMessageHandler.hpp:191): the id holds the whole counter.         *)
HoldsCounter == \A n \in Nodes : \A i \in 1..Len(issued[n]) :
  /\ issued[n][i].id % 2^NodeBits = n
  /\ issued[n][i].id \div 2^NodeBits = issued[n][i].counter
=============================================================================
