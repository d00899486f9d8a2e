----------------------------- MODULE LogRequest -----------------------------
(***************************************************************************)
(* The requests that the DBMS serves on a transaction log (the routes of   *)
(* DBMS/main.cpp), and their answers.                                      *)
(***************************************************************************)
EXTENDS TransactionLog

Torn == "torn"       \* what is copied from a string that is being assigned
NoAnswer == "none"

NoRequest == [op |-> "none", data |-> "none"]
Once(v) == [op |-> "ONCE", data |-> v]
Write(v) == [op |-> "WRITE", data |-> v]
Read == [op |-> "READ", data |-> "none"]
Request == {Once(v) : v \in Loggable} \cup {Write(v) : v \in Loggable} \cup {Read}

(* The value of a log that holds l, after request r. *)
After(l, r) == CASE r.op = "ONCE" -> LogOnce(l, r.data)
                 [] r.op = "WRITE" -> LogWrite(l, r.data)
                 [] r.op = "READ" -> LogRead(l)
=============================================================================
