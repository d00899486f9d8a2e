------------------------------ MODULE Delivery ------------------------------
(***************************************************************************)
(* Delivery as PaperCornus and NewCornus assume it: a message is in the    *)
(* net until, at some later time and in any order, it makes a handler or   *)
(* reaches the one of its transaction, once; what has no handler (any      *)
(* more) is forgotten.  A handler takes messages in any order, and may     *)
(* time out only if it has none.                                           *)
(***************************************************************************)
CONSTANTS Messages,
          Senders,
          Creators,   \* the messages that make a handler
          Key(_),     \* which handler a message is for
          Refusable,  \* the messages that cannot be sent
          Due         \* those sent only after their handler has been made

VARIABLES status,  \* of a message: "unsent", "net", "handled" or "lost"
          dead,    \* senders that may lose messages
          stage,   \* of a handler: "none", "running", "waiting", "closed"
           \* or, if it has timed out, "expired"
          mail     \* the messages that a handler has not taken yet

deliveryVars == <<status, dead, stage, mail>>

DeliveryInit ==
  /\ status = [m \in Messages |-> "unsent"]
  /\ dead = {}
  /\ stage = [h \in Creators |-> "none"]
  /\ mail = [h \in Creators |-> {}]

Pass(m, s1, s2) == status[m] = s1 /\ status' = [status EXCEPT ![m] = s2]

Send(m) == Pass(m, "unsent", "net") /\ UNCHANGED <<dead, stage, mail>>

Refuse(m) ==
  /\ m \in Refusable
  /\ Pass(m, "unsent", "lost")
  /\ UNCHANGED <<dead, stage, mail>>

(* A sender dies, and what it is sending may be lost with it. *)
Die(s) ==
  /\ dead' = dead \cup {s}
  /\ \/ UNCHANGED status
     \/ \E m \in Messages : m.from = s /\ Pass(m, "net", "lost")
  /\ UNCHANGED <<stage, mail>>

Open(m) ==
  /\ m \in Creators
  /\ Pass(m, "net", "handled")
  /\ stage' = [stage EXCEPT ![m] = "running"]
  /\ UNCHANGED <<dead, mail>>

HandlersOf(m) == {h \in Creators : Key(h) = Key(m) /\ stage[h] # "none"}

Deliver(m) ==
  /\ m \notin Creators
  /\ m \in Due => HandlersOf(m) # {}
  /\ Pass(m, "net", "handled")
  /\ mail' = [h \in Creators |-> IF h \in HandlersOf(m) /\ stage[h] \in {"running", "waiting"}
                                 THEN mail[h] \cup {m} ELSE mail[h]]
  /\ UNCHANGED <<dead, stage>>

Wait(h) ==
  /\ stage[h] = "running"
  /\ stage' = [stage EXCEPT ![h] = "waiting"]
  /\ UNCHANGED <<status, dead, mail>>

CloseHandler(h, how) ==
  /\ stage' = [stage EXCEPT ![h] = how]
  /\ mail' = [mail EXCEPT ![h] = {}]

Take(h, m) ==
  /\ stage[h] = "waiting"
  /\ m \in mail[h]
  /\ \/ mail' = [mail EXCEPT ![h] = @ \ {m}] /\ UNCHANGED stage
     \/ CloseHandler(h, "closed")
  /\ UNCHANGED <<status, dead>>

End(h) ==
  /\ \/ stage[h] = "running" /\ CloseHandler(h, "closed")
     \/ stage[h] = "waiting" /\ mail[h] = {} /\ CloseHandler(h, "expired")
  /\ UNCHANGED <<status, dead>>

DeliveryNext ==
  \/ \E s \in Senders : Die(s)
  \/ \E m \in Messages : Send(m) \/ Refuse(m) \/ Open(m) \/ Deliver(m)
  \/ \E h \in Creators : Wait(h) \/ End(h) \/ \E m \in Messages : Take(h, m)

DeliverySpec == DeliveryInit /\ [][DeliveryNext]_deliveryVars
=============================================================================
