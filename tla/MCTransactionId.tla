-------------------------- MODULE MCTransactionId ---------------------------
(* Instances of TransactionId for TLC: one or two bits for the node and    *)
(* three or four for the counter stand for the 16 and 32 bits of the code. *)
EXTENDS TransactionId

\* Node 0 serves one request at a time, every other node two.
QuietAndBusy == [n \in Nodes |-> IF n = 0 THEN {1} ELSE {1, 2}]
OneWorker == [n \in Nodes |-> {1}]
=============================================================================
