--------------------------- MODULE TransactionLog ---------------------------
(***************************************************************************)
(* One TransactionLog of the simulated DBMS (DBMS/include/log.hpp): a      *)
(* single cell that starts as "WORKING" and is accessed with LOG_READ,     *)
(* LOG_WRITE and LOG_ONCE.  The DBMS keeps one cell per transaction and    *)
(* host (logManager.hpp, getLogPair).  The operators give, for a cell that *)
(* holds l, the value it holds after the operation; each operation returns *)
(* the value that the cell then holds.                                     *)
(***************************************************************************)

\* What checkUndefinedInput lets through, and the initial value of `decision`.
Loggable == {"VOTEYES", "COMMIT", "ABORT"}
LogValue == Loggable \cup {"WORKING"}

\* The two decisions, and the Decision variable of a handler not yet assigned.
Decision == {"COMMIT", "ABORT"}
NoDecision == "none"

\* Mutation: LOG_ONCE that overwrites what somebody has already logged.
LogOnceBlind(l, data) == data

\* TransactionLog::LOG_ONCE: the first value logged wins.
LogOnce(l, data) == IF l # "WORKING" THEN l ELSE data

\* TransactionLog::LOG_WRITE: unconditional.
LogWrite(l, data) == data

\* TransactionLog::LOG_READ.
LogRead(l) == l
=============================================================================
