------------------------------ MODULE DbmsLog -------------------------------
(***************************************************************************)
(* The simulated DBMS at the grain of its locks: an HTTP worker thread per *)
(* request (DBMS/main.cpp) finds the log of an address under logMutex      *)
(* (logManager.hpp), runs LOG_ONCE, LOG_WRITE or LOG_READ under the lock   *)
(* of that log (log.hpp), which returns a reference to `decision`, and     *)
(* copies what it refers to after the lock has been released.              *)
(*                                                                         *)
(* All clients use the log of one transaction and host, as the protocols   *)
(* do: in the PAPER_VERSION its participant ("voter") and the others'      *)
(* termination protocol, in the NEW_VERSION the participant that gives up  *)
(* and the replicator (or coordinator) on its host.                        *)
(***************************************************************************)
EXTENDS LogRequest

CONSTANTS Clients,
          Populations  \* who the clients may be, functions to Kinds

Kinds == {"voter", "terminator", "participant", "replicator", "absent"}

ASSUME KindAssumption == Populations \subseteq [Clients -> Kinds]

\* In the PAPER_VERSION a log is one participant's, and the others only end.
ASSUME VoterAssumption ==
  \A k \in Populations : \A v \in Clients : k[v] = "voter" =>
    \A c \in Clients \ {v} : k[c] \in {"terminator", "absent"}

VARIABLES
  kind,      \* of the clients of this behavior
  pc,        \* where the request of each client is
  logMutex,  \* the client whose thread holds it, or Nobody
  logs,      \* the address's LogPair, named by the client that had it made
  found,     \* the LogPair that the thread of each client has looked up
  decision,  \* the string in each TransactionLog
  copy,      \* what the copy of `decision` that a thread makes may be
  request,   \* the last request of each client
  answer,    \* and the last answer it got
  held       \* what the log has held since the request took effect

vars == <<kind, pc, logMutex, logs, found, decision, copy, request, answer, held>>

Nobody == "nobody"

ASSUME NobodyAssumption == Nobody \notin Clients

Init ==
  /\ kind \in Populations
  /\ pc = [c \in Clients |-> "idle"]
  /\ logMutex = Nobody
  /\ logs = Nobody
  /\ found = [c \in Clients |-> Nobody]
  /\ decision = [c \in Clients |-> "WORKING"]
  /\ copy = [c \in Clients |-> {}]
  /\ request = [c \in Clients |-> NoRequest]
  /\ answer = [c \in Clients |-> NoAnswer]
  /\ held = [c \in Clients |-> {}]

Goto(c, l) == pc' = [pc EXCEPT ![c] = l]

(* Mutation: a participant that gives up logs what it has read. *)
GivesUpWithRead(a) == a

GivesUpWith(a) == "ABORT"

(* What a client asks next.  A voter: LOG_ONCE of its vote and, if that    *)
(* was stored, LOG_WRITE of a decision, perhaps after the LOG_ONCE of its  *)
(* own termination protocol.  A terminator: one LOG_ONCE("ABORT").  The    *)
(* others: LOG_READ, and LOG_WRITE unless there is a decision, or the      *)
(* COMMIT, already.                                                        *)
First == [voter |-> {Once("VOTEYES")}, terminator |-> {Once("ABORT")},
          participant |-> {Read}, replicator |-> {Read}, absent |-> {}]

Following(c) ==
  LET k == kind[c]
      a == answer[c]
      last == request[c]
  IN  CASE last = NoRequest -> First[k]
        [] k = "voter" /\ last.op = "ONCE" /\ a = "VOTEYES" ->
             {Write(d) : d \in Decision} \cup ({Once("ABORT")} \ {last})
        [] k = "participant" /\ last = Read /\ a \notin Decision -> {Write(GivesUpWith(a))}
        [] k = "replicator" /\ last = Read /\ a # "COMMIT" -> {Write("COMMIT")}
        [] OTHER -> {}

SendRequest(c) ==
  /\ pc[c] = "idle"
  /\ \E r \in Following(c) : request' = [request EXCEPT ![c] = r]
  /\ Goto(c, "asked")
  /\ UNCHANGED <<kind, logMutex, logs, found, decision, copy, answer, held>>

(* Mutation: getLogPair without its mutex. *)
NobodySearchesUnchecked == TRUE

NobodySearches == logMutex = Nobody

(* getLogPair: the mutex is taken, the maps are searched ... *)
BeginFind(c) ==
  /\ pc[c] = "asked"
  /\ NobodySearches
  /\ logMutex' = c
  /\ found' = [found EXCEPT ![c] = logs]
  /\ Goto(c, "finding")
  /\ UNCHANGED <<kind, logs, request, decision, copy, answer, held>>

(* Mutation: the mutex is kept where the LogPair existed. *)
ReleaseIfMade(c) == logMutex' = IF found[c] = Nobody THEN Nobody ELSE logMutex

Release(c) == logMutex' = Nobody

(* ... and a LogPair that was not there is made. *)
EndFind(c) ==
  /\ pc[c] = "finding"
  /\ logs' = IF found[c] = Nobody THEN c ELSE logs
  /\ found' = [found EXCEPT ![c] = IF @ = Nobody THEN c ELSE @]
  /\ Release(c)
  /\ Goto(c, "locking")
  /\ UNCHANGED <<kind, request, decision, copy, answer, held>>

(* Threads that have the same log, and where they are. *)
At(c, l) == {d \in Clients : found[d] = found[c] /\ pc[d] = l}
Assigning(c) == At(c, "assigning")

(* Mutation: LOG_ONCE takes the shared lock only. *)
CanLockShared(c) == request[c].op = "ONCE" \/ Assigning(c) = {}

(* decisionMutex: all that a thread does under the lock without assigning  *)
(* is a step, so it only has to keep clear of an assignment.               *)
CanLock(c) == Assigning(c) = {}

Assigns(c) == \/ request[c].op = "WRITE"
              \/ request[c].op = "ONCE" /\ decision[found[c]] = "WORKING"

(* What the request leaves the log with; held is kept for the properties.  *)
Effect(c) ==
  held' = [d \in Clients |->
             CASE d = c -> {After(decision[found[c]], request[c])}
               [] d \in At(c, "copy") \cup At(c, "copying") ->
                    held[d] \cup {After(decision[found[c]], request[c])}
               [] OTHER -> held[d]]

(* LOG_READ, or LOG_ONCE when somebody has already logged: the lock is     *)
(* taken, and released with the return.                                    *)
Look(c) ==
  /\ pc[c] = "locking"
  /\ CanLock(c)
  /\ ~ Assigns(c)
  /\ Effect(c)
  /\ Goto(c, "copy")
  /\ UNCHANGED <<kind, logMutex, logs, found, request, decision, copy, answer>>

(* A copy that overlaps an assignment of v may be of v or of neither.      *)
Overlap(values, v) == IF v \in values THEN values ELSE values \cup {v, Torn}

(* `decision = data` begins under the exclusive lock ... *)
BeginAssign(c) ==
  /\ pc[c] = "locking"
  /\ CanLock(c)
  /\ Assigns(c)
  /\ Effect(c)
  /\ copy' = [d \in Clients |-> IF d \in At(c, "copying")
                                THEN Overlap(copy[d], request[c].data) ELSE copy[d]]
  /\ Goto(c, "assigning")
  /\ UNCHANGED <<kind, logMutex, logs, found, request, decision, answer>>

(* ... ends, and the lock is released. *)
EndAssign(c) ==
  /\ pc[c] = "assigning"
  /\ decision' = [decision EXCEPT ![found[c]] = request[c].data]
  /\ Goto(c, "copy")
  /\ UNCHANGED <<kind, logMutex, logs, found, request, copy, answer, held>>

(* The LogManager copies what the reference refers to, without a lock. *)
BeginCopy(c) ==
  /\ pc[c] = "copy"
  /\ copy' = [copy EXCEPT ![c] =
       UNION {Overlap({decision[found[c]]}, v) :
                v \in {decision[found[c]]} \cup {request[d].data : d \in Assigning(c)}}]
  /\ Goto(c, "copying")
  /\ UNCHANGED <<kind, logMutex, logs, found, request, decision, answer, held>>

(* The copy is the content of the HTTP response. *)
EndCopy(c) ==
  /\ pc[c] = "copying"
  /\ \E v \in copy[c] : answer' = [answer EXCEPT ![c] = v]
  /\ copy' = [copy EXCEPT ![c] = {}]
  /\ held' = [held EXCEPT ![c] = {}]
  /\ Goto(c, "idle")
  /\ UNCHANGED <<kind, logMutex, logs, found, request, decision>>

ServerStep(c) ==
  \/ BeginFind(c) \/ EndFind(c) \/ Look(c) \/ BeginAssign(c) \/ EndAssign(c)
  \/ BeginCopy(c) \/ EndCopy(c)

Quiescent == \A c \in Clients : pc[c] = "idle" /\ Following(c) = {}

Next == \/ \E c \in Clients : SendRequest(c) \/ ServerStep(c)
        \/ Quiescent /\ UNCHANGED vars

Spec == Init /\ [][Next]_vars

(* The threads of the HTTP server are scheduled. *)
FairSpec == Spec /\ \A c \in Clients : WF_vars(ServerStep(c))
-----------------------------------------------------------------------------
(* Properties. *)

TypeOK ==
  /\ kind \in Populations
  /\ pc \in [Clients -> {"idle", "asked", "finding", "locking", "assigning",
                         "copy", "copying"}]
  /\ {logMutex, logs} \subseteq Clients \cup {Nobody}
  /\ found \in [Clients -> Clients \cup {Nobody}]
  /\ decision \in [Clients -> LogValue]
  /\ copy \in [Clients -> SUBSET (LogValue \cup {Torn})]
  /\ request \in [Clients -> Request \cup {NoRequest}]
  /\ answer \in [Clients -> LogValue \cup {Torn, NoAnswer}]
  /\ held \in [Clients -> SUBSET LogValue]

ToldYes(v) == request[v] \notin {NoRequest, Once("VOTEYES")} \/ answer[v] = "VOTEYES"
ToldNo(v) == request[v] = Once("VOTEYES") /\ answer[v] \notin {NoAnswer, "VOTEYES"}

(* What terminationProtocol relies on (TransactionHandler.hpp:17-30): a    *)
(* log settles its participant's vote once, for whoever asks and whenever  *)
(* the copies are made.  No ABORT is answered beside a VOTEYES unless the  *)
(* participant itself has written it since; a participant that is not told *)
(* VOTEYES has been forestalled by an ABORT, and one that is finds its     *)
(* VOTEYES again.                                                          *)
VoteSettledOnce ==
  \A v, t \in Clients : kind[v] = "voter" /\ kind[t] = "terminator" =>
    /\ answer[t] = "ABORT" /\ ToldYes(v) => request[v] = Write("ABORT")
    /\ answer[t] = "COMMIT" => request[v] = Write("COMMIT")
    /\ ToldNo(v) => answer[v] = "ABORT" /\ answer[t] \in {"ABORT", NoAnswer}
    /\ request[v] = Once("ABORT") => answer[v] = "VOTEYES"

(* The log as RegularLog sees it: a request takes effect where its test or *)
(* assignment begins.                                                      *)
ValueBar ==
  IF logs = Nobody THEN "WORKING"
  ELSE LET w == {c \in Clients : pc[c] = "assigning" /\ found[c] = logs}
       IN  IF w = {} THEN decision[logs] ELSE request[CHOOSE c \in w : TRUE].data

StageBar == [c \in Clients |->
  CASE pc[c] = "idle" -> "idle"
    [] pc[c] \in {"asked", "finding", "locking"} -> "asked"
    [] OTHER -> "effective"]

R == INSTANCE RegularLog WITH value <- ValueBar, stage <- StageBar

(* The locks, the lookup and the late copies amount to RegularLog: one log *)
(* per address, whose requests are atomic, and answers that are values     *)
(* held since, or torn only if the log has changed meanwhile.              *)
ImplementsRegularLog == R!RegularSpec

(* Every request is answered. *)
Answered == \A c \in Clients : pc[c] = "asked" ~> pc[c] = "idle"

(* "requires unique writer (no readers allowed)" (log.hpp:39 and 47). *)
NoReadersWhileWriting ==
  \A c, d \in Clients : pc[c] = "copying" /\ pc[d] = "assigning" => found[c] # found[d]
=============================================================================
