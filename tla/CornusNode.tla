----------------------------- MODULE CornusNode -----------------------------
(***************************************************************************)
(* The receiving side of a Cornus node: requests of several transactions   *)
(* come in over TCP connections (TcpConnection) and from the client over   *)
(* HTTP, and go to the handlers of their transactions (MessageHandler).    *)
(* What the other hosts send is a script per connection.                   *)
(***************************************************************************)
EXTENDS TcpConnection, MessageHandler

CONSTANTS Scripts,      \* the scripts, functions from Senders to Seq(Messages)
          ConfigLength  \* tokens in the config of a transaction

VARIABLES script,  \* the script of this behavior
          pos      \* how much of it each sender has sent

vars == <<phase, wire, buffer, at, mapMutex, map, queue, taken, script, pos>>

Http == "http"
Senders == Connections \cup {Http}

(* A sender sends under its own name and no request twice; only clients    *)
(* ask for a TRANSACTION.                                                  *)
ASSUME ScriptAssumption ==
  /\ Http \notin Connections
  /\ Scripts \subseteq [Senders -> Seq(Messages)]
  /\ \A s \in Scripts, c \in Senders : \A i \in DOMAIN s[c] :
       /\ s[c][i].from = c
       /\ s[c][i].type = "TRANSACTION" <=> c = Http
       /\ \A j \in DOMAIN s[c] : s[c][i] = s[c][j] => i = j

(* A transaction makes one handler of a kind in this node, but Committers: *)
(* each replicator may ask for one.                                        *)
ASSUME HandlerAssumption ==
  \A g, h \in Creators : Key(g) = Key(h) /\ g.type # "OVERRIDECOMMIT" => g = h

Init ==
  /\ TcpInit
  /\ HandlerInit
  /\ script \in Scripts
  /\ pos = [c \in Senders |-> 0]

(* The txid and the sender are a token.  Requests that name the            *)
(* transaction's participants carry its config; of these, the longer name  *)
(* (it is sent twice) makes the longer request.                            *)
Padding(m) ==
  CASE m.type = "VOTEREQ" -> ConfigLength[m.tx]
    [] m.type = "WILLCOMMIT" -> ConfigLength[m.tx] + 1
    [] m.type = "OVERRIDECOMMIT" -> ConfigLength[m.tx] + 2
    [] OTHER -> 0

Encode(m) ==
  [endpoint |-> <<m.type>>,
   request |-> <<m.tx \o m.from>> \o [i \in 1..Padding(m) |-> "config"]]

ASSUME ConfigAssumption == \A m \in Messages : ConfigLength[m.tx] \in Nat

(* No body contains a delimiter (its parameters are a number, a type and   *)
(* the names of hosts), and each says all that its request is about.       *)
ASSUME EncodingAssumption ==
  \A m \in Messages :
    /\ m.tx \o m.from \notin {HeaderDelim, MessageEnd}
    /\ \A n \in Messages : Encode(m) = Encode(n) => m = n

(* The handler is there (and in the map); what it sends comes later. *)
Made(h) == at[h] \notin {"none", "spawned", "creating"}

(* Answers to what a handler of this node has sent: a vote (or refusal)    *)
(* answers the VOTEREQ of the coordinator, a COMMIT the participant's vote. *)
Due ==
  {m \in Messages :
     \/ m.type \in {"VOTEYES", "COMMIT"}
     \/ m.type = "ABORT" /\ \E h \in Messages : h.type = "TRANSACTION" /\ h.tx = m.tx}

MaySend(m) == m \in Due => \E h \in Creators : Key(h) = Key(m) /\ Made(h)

Next1(c) == script[c][pos[c] + 1]

HasNext(c) == pos[c] < Len(script[c]) /\ MaySend(Next1(c))

Send(c) ==
  /\ HasNext(c)
  /\ SendRequest(c, Encode(Next1(c)))
  /\ pos' = [pos EXCEPT ![c] = @ + 1]
  /\ UNCHANGED <<handlerVars, script>>

(* A client asks this node to coordinate. *)
ClientRequest ==
  /\ HasNext(Http)
  /\ Spawn({Next1(Http)})
  /\ pos' = [pos EXCEPT ![Http] = @ + 1]
  /\ UNCHANGED <<tcpVars, script>>

HasCallback(r) == r.endpoint \in {<<e>> : e \in Endpoints}

(* handle_connection: the callback of a request that has become complete   *)
(* detaches a thread for it, before the request is answered.               *)
HandleConnection(c) == \E n \in 0..MaxMessageSize :
  LET b == Received(c, n)
      calls == Complete(b) /\ HasCallback(Decoded(b))
  IN  /\ Receive(c, n, calls)
      /\ IF calls THEN Spawn({m \in Messages : Encode(m) = Decoded(b)})
                  ELSE UNCHANGED handlerVars
      /\ UNCHANGED <<script, pos>>

ClientStep(c) == ReceiveResponse(c) /\ UNCHANGED <<handlerVars, script, pos>>
CloseConnection(c) == Close(c) /\ UNCHANGED <<handlerVars, script, pos>>
HandlerStep(m) == ThreadStep(m) /\ UNCHANGED <<tcpVars, script, pos>>

Quiescent ==
  /\ \A c \in Connections : phase[c] = "ended"
  /\ \A m \in Messages : at[m] \in {"none", "handled"}
  /\ pos[Http] = Len(script[Http])

Next ==
  \/ \E c \in Connections : \/ Send(c) \/ HandleConnection(c) \/ ClientStep(c)
                            \/ CloseConnection(c)
  \/ ClientRequest
  \/ \E m \in Messages : HandlerStep(m)
  \/ Quiescent /\ UNCHANGED vars

Spec == Init /\ [][Next]_vars

(* Some thread of this node that can run does: waits have deadlines, and    *)
(* what has been written to a socket arrives.                              *)
NodeStep == \/ \E c \in Connections : HandleConnection(c)
            \/ \E m \in Messages : HandlerStep(m)

FairSpec == Spec /\ WF_vars(NodeStep)
-----------------------------------------------------------------------------
(* Properties. *)

TypeOK ==
  /\ phase \in [Connections -> {"idle", "awaiting", "answered", "closed", "ended"}]
  /\ \A c \in Connections : Len(wire[c]) < MaxMessageSize /\ Len(buffer[c]) < MaxMessageSize
  /\ HandlerTypeOK
  /\ script \in Scripts
  /\ \A c \in Senders : pos[c] \in 0..Len(script[c])

(* No lost wakeup: a thread that sleeps in waitForNextMessage has nothing  *)
(* in its queue, although messages are pushed by other threads that find   *)
(* the handler at any point of its life (messageQueue.hpp:13-32).          *)
NoLostWakeup == \A h \in Creators : at[h] = "blocked" => queue[h] = <<>>

(* handle_connection cuts its stream at the right places, however recv     *)
(* splits it: between two requests of a client nothing is left behind, and *)
(* before that the buffer holds a proper part of one request, which has a  *)
(* prefix of one frame (tcp.hpp:378-384).                                  *)
BufferDrained ==
  \A c \in Connections :
    /\ phase[c] \in {"idle", "answered"} => buffer[c] = <<>> /\ wire[c] = <<>>
    /\ buffer[c] # <<>> =>
         /\ pos[c] > 0
         /\ IsStrictPrefix(buffer[c], Frame(Encode(script[c][pos[c]])))

(* The message that a client is sending will be complete. *)
OnItsWay(m) ==
  \E c \in Connections :
    /\ phase[c] \in {"awaiting", "closed"}
    /\ pos[c] > 0 /\ script[c][pos[c]] = m
    /\ Complete(buffer[c] \o wire[c])

Unsent(m) == \A c \in Senders : \A i \in 1..pos[c] : script[c][i] # m

Status(m) ==
  CASE Made(m) -> "handled"
    [] at[m] \in {"spawned", "creating"} \/ OnItsWay(m) -> "net"
    [] Unsent(m) -> "unsent"
    [] OTHER -> "lost"

Stage(h) ==
  CASE ~ Made(h) -> "none"
    [] at[h] = "blocked" -> "waiting"
    [] at[h] \in {"ended", "handled"} ->
         IF NoMessage \in Range(taken[h]) THEN "expired" ELSE "closed"
    [] OTHER -> at[h]

Dead == {c \in Connections : phase[c] \in {"closed", "ended"}}

Mail(h) == IF Stage(h) \in {"running", "waiting"} THEN Range(queue[h]) ELSE {}

StatusBar == [m \in Messages |-> Status(m)]
StageBar == [h \in Creators |-> Stage(h)]
MailBar == [h \in Creators |-> Mail(h)]

D == INSTANCE Delivery WITH
  Refusable <- {m \in Messages : ~ Encodable(Encode(m))},
  status <- StatusBar, dead <- Dead, stage <- StageBar, mail <- MailBar

(* The node delivers as PaperCornus and NewCornus assume it: each message  *)
(* once, in any order, to the handler of its transaction and to no other;  *)
(* none is lost unless its sender dies or it is too long; a handler times  *)
(* out only if it has no message; a vote or COMMIT never comes before its  *)
(* handler is in the map.                                                  *)
ImplementsDelivery == D!DeliverySpec

(* Whatever the threads of other messages do under mapMutex, in the end    *)
(* every message that was sent has been handled, unless it was too long or *)
(* its sender died.                                                        *)
EveryMessageHandled ==
  <>[] \A m \in Messages :
         \/ Status(m) \in {"unsent", "handled"}
         \/ Status(m) = "lost" /\ (m.from \in Dead \/ ~ Encodable(Encode(m)))

(* In the end every handler has finished and no map has an entry left.     *)
HandlersLeave ==
  <>[] /\ \A h \in Creators : at[h] \in {"none", "handled"}
       /\ \A k \in DOMAIN map : map[k] = Nobody
=============================================================================
