--------------------------- MODULE MessageHandler ---------------------------
(***************************************************************************)
(* How a GlobalMessageHandler passes requests to transaction handlers, and *)
(* how these wait for them: the detached thread of each request, the maps  *)
(* from txid to handler under mapMutex, and the MessageQueue of a handler  *)
(* (messageQueue.hpp).                                                     *)
(*                                                                         *)
(* A request of a type in Creates makes a handler, and its thread goes on  *)
(* to run it; the handler is named by the request.  What handlers do       *)
(* besides waiting is in PaperCornus and NewCornus.                        *)
(***************************************************************************)
EXTENDS Integers, SequencesExt

CONSTANTS Messages,    \* all requests, records with type, tx and from
          Votes        \* how many participants a coordinator waits for

ASSUME VotesAssumption == Votes \in Nat \ {0}
ASSUME MessageAssumption ==
  \A m \in Messages :
    m.type \in {"TRANSACTION", "VOTEREQ", "VOTEYES", "ABORT", "COMMIT", "WILLCOMMIT",
               "DECISIONCOMPLETED", "OVERRIDECOMMIT"}

VARIABLES
  at,        \* where the thread of each request is
  mapMutex,  \* the request whose thread holds it, or Nobody
  map,       \* `handlers`, `replicators` and `committers`: a handler per key
  queue,     \* the MessageQueue of each handler
  taken      \* what its waits for a message have returned

handlerVars == <<at, mapMutex, map, queue, taken>>

NoMessage == [type |-> "none"]  \* std::nullopt
Nobody == [type |-> "nobody"]

(* Mutation: a callback is not registered. *)
EndpointsShort == {"VOTEREQ", "VOTEYES", "ABORT", "COMMIT", "WILLCOMMIT", "OVERRIDECOMMIT"}

(* The callbacks of the TCPServer; TRANSACTION comes over HTTP. *)
Endpoints == {"VOTEREQ", "VOTEYES", "ABORT", "COMMIT", "WILLCOMMIT",
              "DECISIONCOMPLETED", "OVERRIDECOMMIT"}

Creates == {"TRANSACTION", "VOTEREQ", "WILLCOMMIT", "OVERRIDECOMMIT"}
Creators == {m \in Messages : m.type \in Creates}

Key(m) ==
  <<CASE m.type \in {"WILLCOMMIT", "DECISIONCOMPLETED"} -> "replicators"
      [] m.type = "OVERRIDECOMMIT" -> "committers"
      [] OTHER -> "handlers",
    m.tx>>

(* How many messages a handler takes, unless one is an ABORT. *)
Needs(h) == CASE h.type = "TRANSACTION" -> Votes
              [] h.type = "OVERRIDECOMMIT" -> 0
              [] OTHER -> 1

HandlerInit ==
  /\ at = [m \in Messages |-> "none"]
  /\ mapMutex = Nobody
  /\ map = [k \in {Key(m) : m \in Messages} |-> Nobody]
  /\ queue = [h \in Creators |-> <<>>]
  /\ taken = [h \in Creators |-> <<>>]

Goto(m, l) == at' = [at EXCEPT ![m] = l]

(* A callback detaches a thread for its request (so does httplib). *)
Spawn(ms) ==
  /\ at' = [m \in Messages |-> IF m \in ms THEN "spawned" ELSE at[m]]
  /\ UNCHANGED <<mapMutex, map, queue, taken>>

(* createNode takes mapMutex and keeps it while the handler is constructed, *)
(* which connects to the coordinator (Participant.h:16) ...                 *)
BeginCreate(m) ==
  /\ m \in Creators
  /\ at[m] = "spawned"
  /\ mapMutex = Nobody
  /\ mapMutex' = m
  /\ Goto(m, "creating")
  /\ UNCHANGED <<map, queue, taken>>

(* ... and until it is in the map; an entry of the same key is replaced. *)
EndCreate(m) ==
  /\ at[m] = "creating"
  /\ map' = [map EXCEPT ![Key(m)] = m]
  /\ mapMutex' = Nobody
  /\ Goto(m, "running")
  /\ UNCHANGED <<queue, taken>>

(* The handler gets to its wait; a Committer has none. *)
StartWaiting(h) ==
  /\ at[h] = "running"
  /\ Goto(h, IF Needs(h) = 0 THEN "ended" ELSE "waiting")
  /\ UNCHANGED <<mapMutex, map, queue, taken>>

(* Mutation: push does not notify. *)
Unnotified(l) == l

(* cv.notify_one, on the thread that waits. *)
Notified(l) == IF l = "blocked" THEN "waiting" ELSE l

(* sendMessage: the request goes to the handler of its key, and is         *)
(* forgotten if there is none.                                             *)
SendMessage(m) ==
  /\ m.type \notin Creates
  /\ at[m] = "spawned"
  /\ mapMutex = Nobody
  /\ LET h == map[Key(m)]
     IN  \/ /\ h # Nobody
            /\ queue' = [queue EXCEPT ![h] = Append(@, m)]
            /\ at' = [at EXCEPT ![m] = "handled", ![h] = Notified(@)]
         \/ /\ h = Nobody
            /\ Goto(m, "handled")
            /\ UNCHANGED queue
  /\ UNCHANGED <<mapMutex, map, taken>>

(* waitForNextMessage finds a message, at once or when it is notified ... *)
Take(h) ==
  /\ at[h] = "waiting"
  /\ queue[h] # <<>>
  /\ queue' = [queue EXCEPT ![h] = Tail(@)]
  /\ taken' = [taken EXCEPT ![h] = Append(@, Head(queue[h]))]
  /\ Goto(h, IF Head(queue[h]).type = "ABORT" \/ Len(taken'[h]) = Needs(h)
             THEN "ended" ELSE "waiting")
  /\ UNCHANGED <<mapMutex, map>>

(* ... or blocks on the condition variable ... *)
Block(h) ==
  /\ at[h] = "waiting"
  /\ queue[h] = <<>>
  /\ Goto(h, "blocked")
  /\ UNCHANGED <<mapMutex, map, queue, taken>>

(* Mutation: the queue is not looked at again when the deadline passes. *)
NothingQueuedUnchecked(h) == TRUE

NothingQueued(h) == queue[h] = <<>>

(* ... or finds its deadline passed and the queue still empty.  The handler *)
(* then decides by itself.                                                  *)
TimeOut(h) ==
  /\ at[h] \in {"waiting", "blocked"}
  /\ NothingQueued(h)
  /\ taken' = [taken EXCEPT ![h] = Append(@, NoMessage)]
  /\ Goto(h, "ended")
  /\ UNCHANGED <<mapMutex, map, queue>>

(* Mutation: a handler stays in the map. *)
ErasedNot(k) == map

Erased(k) == [map EXCEPT ![k] = Nobody]

(* removeFromMap, whoever is there by now. *)
RemoveFromMap(h) ==
  /\ at[h] = "ended"
  /\ mapMutex = Nobody
  /\ map' = Erased(Key(h))
  /\ Goto(h, "handled")
  /\ UNCHANGED <<mapMutex, queue, taken>>

ThreadStep(m) ==
  \/ SendMessage(m)
  \/ BeginCreate(m) \/ EndCreate(m)
  \/ m \in Creators /\ (\/ StartWaiting(m) \/ Take(m) \/ Block(m) \/ TimeOut(m)
                        \/ RemoveFromMap(m))

HandlerTypeOK ==
  /\ at \in [Messages -> {"none", "spawned", "creating", "running", "waiting",
                          "blocked", "ended", "handled"}]
  /\ mapMutex \in Creators \cup {Nobody}
  /\ map \in [{Key(m) : m \in Messages} -> Creators \cup {Nobody}]
  /\ \A h \in Creators : /\ queue[h] \in Seq(Messages)
                         /\ Range(taken[h]) \subseteq Messages \cup {NoMessage}
                         /\ Len(taken[h]) <= Needs(h)
=============================================================================
