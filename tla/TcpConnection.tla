--------------------------- MODULE TcpConnection ----------------------------
(***************************************************************************)
(* Connections between a TCPClient of another host and the TCPServer of    *)
(* this one (tcp.hpp): sendRequest writes one framed request and waits for *)
(* the response; handle_connection collects in a buffer what recv returns, *)
(* in pieces of any length, and cuts the requests out of it.               *)
(*                                                                         *)
(* A request is an endpoint and a body; both are sequences of tokens here, *)
(* of which the two delimiters are none.  A TCPClient belongs to one       *)
(* handler, which awaits each response before it sends to the same host    *)
(* again, so a connection carries one request at a time.                   *)
(***************************************************************************)
EXTENDS Integers, SequencesExt

CONSTANTS Connections,
          MaxMessageSize  \* MAX_MESSAGE_SIZE, in tokens

ASSUME SizeAssumption == MaxMessageSize \in Nat \ {0}

VARIABLES
  phase,   \* the client: "idle", "awaiting" or "answered", then "closed";
           \* "ended": the server's thread has noticed that
  wire,    \* what has been sent and not been received
  buffer   \* msg[0 .. bufferPointer) of handle_connection

tcpVars == <<phase, wire, buffer>>

HeaderDelim == "\t"
MessageEnd == "\n"

TcpInit ==
  /\ phase = [c \in Connections |-> "idle"]
  /\ wire = [c \in Connections |-> <<>>]
  /\ buffer = [c \in Connections |-> <<>>]

Frame(r) == r.endpoint \o <<HeaderDelim>> \o r.request \o <<MessageEnd>>

(* Mutation: the size is not checked. *)
EncodableAlways(r) == TRUE

(* encodeIntoBuffer of the client, the delimiters included. *)
Encodable(r) == Len(Frame(r)) < MaxMessageSize

(* getRequest: both delimiters are there, and the last of each counts. *)
Complete(b) == {HeaderDelim, MessageEnd} \subseteq Range(b)
LastOf(b, d) == SelectLastInSeq(b, LAMBDA t : t = d)
Decoded(b) ==
  [endpoint |-> SubSeq(b, 1, LastOf(b, HeaderDelim) - 1),
   request |-> SubSeq(b, LastOf(b, HeaderDelim) + 1, LastOf(b, MessageEnd) - 1)]

(* Mutation: the delimiters stay in the buffer. *)
ConsumedShort(r) == Len(r.endpoint) + Len(r.request)

(* messageSize: what is shifted out of the buffer after a request. *)
Consumed(r) == Len(r.endpoint) + Len(r.request) + 2

(* sendRequest: a request that is too long is refused, and nobody looks at *)
(* the result; trySendData writes the others.                              *)
SendRequest(c, r) ==
  /\ phase[c] = "idle"
  /\ phase' = IF Encodable(r) THEN [phase EXCEPT ![c] = "awaiting"] ELSE phase
  /\ wire' = IF Encodable(r) THEN [wire EXCEPT ![c] = Frame(r)] ELSE wire
  /\ UNCHANGED buffer

(* recv returns n tokens, or 0 when the client has closed its side. *)
MayReceive(c, n) ==
  \/ phase[c] \in {"awaiting", "closed"}
       /\ n \in 1..Len(wire[c]) /\ n <= MaxMessageSize - Len(buffer[c])
  \/ phase[c] = "closed" /\ n = 0 /\ wire[c] = <<>>

Received(c, n) == buffer[c] \o SubSeq(wire[c], 1, n)

(* One round of handle_connection.  A request with a callback is answered; *)
(* the callback itself is the caller's.  The last round leaves the loop,   *)
(* and the buffer is gone.                                                 *)
Receive(c, n, hasCallback) ==
  LET b == Received(c, n)
  IN  /\ MayReceive(c, n)
      /\ wire' = [wire EXCEPT ![c] = SubSeq(@, n + 1, Len(@))]
      /\ buffer' = [buffer EXCEPT ![c] =
           CASE n = 0 -> <<>>
             [] n > 0 /\ Complete(b) -> SubSeq(b, Consumed(Decoded(b)) + 1, Len(b))
             [] OTHER -> b]
      /\ phase' = [phase EXCEPT ![c] =
           CASE n = 0 -> "ended"
             [] n > 0 /\ @ = "awaiting" /\ Complete(b) /\ hasCallback -> "answered"
             [] OTHER -> @]

(* sendRequest returns the response. *)
ReceiveResponse(c) ==
  /\ phase[c] = "answered"
  /\ phase' = [phase EXCEPT ![c] = "idle"]
  /\ UNCHANGED <<wire, buffer>>

(* The TCPClient is destroyed, or its process dies; what it has written by *)
(* then may be any part of the frame.                                      *)
Close(c) ==
  /\ phase[c] \notin {"closed", "ended"}
  /\ phase' = [phase EXCEPT ![c] = "closed"]
  /\ \E n \in 0..Len(wire[c]) : wire' = [wire EXCEPT ![c] = SubSeq(@, 1, n)]
  /\ UNCHANGED buffer
=============================================================================
