----------------------------- MODULE RegularLog -----------------------------
(***************************************************************************)
(* What the DBMS promises of one transaction log: every request takes      *)
(* effect at once, and its answer is a value that the log has held since   *)
(* then.  If the log has changed since then, the answer may also be Torn.  *)
(***************************************************************************)
EXTENDS LogRequest

CONSTANT Clients

VARIABLES value,    \* the log
          request,  \* the last request of each client
          stage,    \* of that request: "asked", "effective" or "idle"
          held,     \* what the log has held since the request took effect
          answer    \* the last answer of each client

regularVars == <<value, request, stage, held, answer>>

RegularInit ==
  /\ value = "WORKING"
  /\ request = [c \in Clients |-> NoRequest]
  /\ stage = [c \in Clients |-> "idle"]
  /\ held = [c \in Clients |-> {}]
  /\ answer = [c \in Clients |-> NoAnswer]

Ask(c, r) ==
  /\ stage[c] = "idle"
  /\ request' = [request EXCEPT ![c] = r]
  /\ stage' = [stage EXCEPT ![c] = "asked"]
  /\ UNCHANGED <<value, held, answer>>

TakeEffect(c) ==
  /\ stage[c] = "asked"
  /\ value' = After(value, request[c])
  /\ stage' = [stage EXCEPT ![c] = "effective"]
  /\ held' = [d \in Clients |->
                CASE d = c -> {value'}
                  [] d # c /\ stage[d] = "effective" -> held[d] \cup {value'}
                  [] OTHER -> held[d]]
  /\ UNCHANGED <<request, answer>>

HasChanged(c) == \E v, w \in held[c] : v # w

Reply(c) ==
  /\ stage[c] = "effective"
  /\ \E v \in held[c] \cup {Torn} :
       /\ v = Torn => HasChanged(c)
       /\ answer' = [answer EXCEPT ![c] = v]
  /\ stage' = [stage EXCEPT ![c] = "idle"]
  /\ held' = [held EXCEPT ![c] = {}]
  /\ UNCHANGED <<value, request>>

RegularNext == \E c \in Clients :
  (\E r \in Request : Ask(c, r)) \/ TakeEffect(c) \/ Reply(c)

RegularSpec == RegularInit /\ [][RegularNext]_regularVars
=============================================================================
