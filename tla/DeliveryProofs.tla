--------------------------- MODULE DeliveryProofs ---------------------------
(***************************************************************************)
(* CornusNode implements Delivery, for all messages, scripts and sizes.    *)
(***************************************************************************)
EXTENDS CornusNodeProofs

(* A queue is empty until its handler is in the map. *)
FreshInv == \A h \in Creators : ~ Made(h) => queue[h] = <<>>

RInv == IInv /\ FreshInv

(* All of m is in the buffer and on the wire of c. *)
Carries(c, m) ==
  /\ phase[c] \in {"awaiting", "closed"}
  /\ pos[c] > 0 /\ Request(c) = m
  /\ Complete(buffer[c] \o wire[c])

LEMMA OnItsWayIs == ASSUME NEW m PROVE OnItsWay(m) <=> \E c \in Connections : Carries(c, m)
BY DEF OnItsWay, Carries, Request

LEMMA Join ==
  ASSUME NEW T, NEW F \in Seq(T), NEW k \in Nat, NEW l \in Nat, k <= l, l <= Len(F)
  PROVE  SubSeq(F, 1, k) \o SubSeq(F, k + 1, l) = SubSeq(F, 1, l)
<1> DEFINE z == l - k
<1>1. z \in Nat /\ k + z = l
  OBVIOUS
<1> HIDE DEF z
<1> PICK w : w = SubSeq(F, k + 1, l)
  OBVIOUS
<1>2. k + z + 0 <= Len(F) /\ w = SubSeq(F, k + 1, k + z + 0)
  BY <1>1
<1>3. /\ SubSeq(F, 1, k) \o SubSeq(w, 1, z) = SubSeq(F, 1, k + z)
      /\ SubSeq(w, 1, z) = SubSeq(F, k + 1, k + z)
  BY <1>1, <1>2, RecvMoves
<1> QED BY <1>1, <1>3

LEMMA CutJoins ==
  ASSUME NodeTypeInv, NEW c \in Connections, NEW k \in Nat, NEW l \in Nat, Cut(c, k, l)
  PROVE  /\ buffer[c] \o wire[c] = SubSeq(FrameOf(Request(c)), 1, l)
         /\ Request(c) \in Messages
         /\ Complete(buffer[c] \o wire[c]) <=> l = Len(FrameOf(Request(c)))
<1> PICK F : F = FrameOf(Request(c))
  OBVIOUS
<1>1. /\ Request(c) \in Messages
      /\ F \in Seq(Tokens) /\ Len(F) \in Nat
      /\ \A j \in 0..Len(F) : Complete(SubSeq(F, 1, j)) <=> j = Len(F)
  BY RequestFacts, FrameFacts DEF Cut, Senders
<1>2. /\ l \in 0..Len(F) /\ k <= l /\ l <= Len(F)
      /\ buffer[c] = SubSeq(F, 1, k) /\ wire[c] = SubSeq(F, k + 1, l)
  BY <1>1 DEF Cut
<1>3. buffer[c] \o wire[c] = SubSeq(F, 1, l)
  BY <1>1, <1>2, Join
<1> QED BY <1>1, <1>2, <1>3

LEMMA CarriesIs ==
  NodeInv => \A c \in Connections, m \in Messages :
               /\ Carries(c, m) <=> \E k \in Nat : /\ Cut(c, k, Len(FrameOf(Request(c))))
                                                  /\ Request(c) = m
               /\ Carries(c, m) => at[m] = "none" /\ ~ Unsent(m) /\ m.from = c
<1> SUFFICES ASSUME NodeInv, NEW c \in Connections, NEW m \in Messages
             PROVE  /\ Carries(c, m) <=> \E k \in Nat : /\ Cut(c, k, Len(FrameOf(Request(c))))
                                                       /\ Request(c) = m
                    /\ Carries(c, m) => at[m] = "none" /\ ~ Unsent(m) /\ m.from = c
  OBVIOUS
<1>1. NodeTypeInv /\ StreamOK(c) /\ c \in Senders
  BY DEF NodeInv, StreamInv, Senders
<1>2. ASSUME Carries(c, m)
      PROVE  \E k \in Nat : Cut(c, k, Len(FrameOf(Request(c)))) /\ Request(c) = m
  <2>1. ~ (buffer[c] = <<>> /\ wire[c] = <<>>)
    <3>1. SUFFICES ASSUME buffer[c] = <<>>, wire[c] = <<>> PROVE FALSE
      OBVIOUS
    <3>2. buffer[c] \o wire[c] = <<>>
      BY <3>1
    <3> QED BY <1>2, <3>2 DEF Carries, Complete, Range
  <2>2. PICK k \in Nat, l \in Nat : Cut(c, k, l)
    BY <1>1, <2>1 DEF StreamOK
  <2>3. l = Len(FrameOf(Request(c)))
    BY <1>1, <1>2, <2>2, CutJoins DEF Carries
  <2> QED BY <1>2, <2>2, <2>3 DEF Carries
<1>3. ASSUME NEW k \in Nat, Cut(c, k, Len(FrameOf(Request(c)))), Request(c) = m
      PROVE  Carries(c, m)
  <2>1. Len(FrameOf(m)) \in Nat
    BY FrameFacts
  <2>2. Complete(buffer[c] \o wire[c])
    BY <1>1, <1>3, <2>1, CutJoins
  <2> QED BY <1>3, <2>2 DEF Carries, Cut
<1>4. ASSUME Carries(c, m) PROVE at[m] = "none" /\ ~ Unsent(m) /\ m.from = c
  <2>1. at[m] = "none"
    BY <1>2, <1>4 DEF Cut
  <2>2. pos[c] > 0 /\ Request(c) = m
    BY <1>4 DEF Carries
  <2> QED BY <1>1, <2>1, <2>2, RequestFacts
<1> QED BY <1>2, <1>3, <1>4

(* The arms of Status exclude each other. *)
StatusOf(m) ==
  /\ Made(m) => Status(m) = "handled"
  /\ at[m] \in {"spawned", "creating"} => Status(m) = "net" /\ ~ Unsent(m)
  /\ at[m] = "none" =>
       /\ OnItsWay(m) => Status(m) = "net"
       /\ ~ OnItsWay(m) /\ Unsent(m) => Status(m) = "unsent"
       /\ ~ OnItsWay(m) /\ ~ Unsent(m) => Status(m) = "lost"
  /\ OnItsWay(m) => at[m] = "none" /\ ~ Unsent(m)

StatusInv == \A m \in Messages : StatusOf(m)

LEMMA StatusIs == IInv => StatusInv
<1> SUFFICES ASSUME IInv, NEW m \in Messages PROVE StatusOf(m)
  BY DEF StatusInv
<1>1. OnItsWay(m) => at[m] = "none" /\ ~ Unsent(m)
  BY OnItsWayIs, CarriesIs DEF IInv
<1>2. at[m] # "none" => ~ Unsent(m)
  BY DEF IInv, NodeInv, SentInv
<1>3. Made(m) <=> at[m] \notin {"none", "spawned", "creating"}
  BY DEF Made
<1>4. Made(m) => Status(m) = "handled"
  BY <1>1, <1>2, <1>3 DEF Status
<1>5. at[m] \in {"spawned", "creating"} => Status(m) = "net"
  BY <1>2, <1>3 DEF Status
<1>6. OnItsWay(m) => Status(m) = "net"
  BY <1>1, <1>3 DEF Status
<1>7. at[m] = "none" /\ ~ OnItsWay(m) /\ Unsent(m) => Status(m) = "unsent"
  BY <1>3 DEF Status
<1>8. at[m] = "none" /\ ~ OnItsWay(m) /\ ~ Unsent(m) => Status(m) = "lost"
  BY <1>3 DEF Status
<1> QED BY <1>1, <1>2, <1>4, <1>5, <1>6, <1>7, <1>8 DEF StatusOf

LEMMA StatusIsNext == ASSUME IInv', NEW m \in Messages PROVE StatusOf(m)'
<1>1. IInv' => StatusInv'
  BY StatusIs, PTL
<1> QED BY <1>1 DEF StatusInv

(* A message that a step leaves where it is. *)
LEMMA StatusKept ==
  ASSUME IInv, IInv', NEW m \in Messages,
         \/ at'[m] = at[m]
         \/ Made(m) /\ Made(m)'
         \/ at[m] \in {"spawned", "creating"} /\ at'[m] \in {"spawned", "creating"},
         OnItsWay(m)' <=> OnItsWay(m),
         Unsent(m)' <=> Unsent(m)
  PROVE  Status(m)' = Status(m)
<1>2. CASE at[m] = "none"
  BY <1>2, StatusIs, StatusIsNext DEF StatusInv, StatusOf, Made
<1>3. CASE at[m] \in {"spawned", "creating"}
  BY <1>3, StatusIs, StatusIsNext DEF StatusInv, StatusOf, Made
<1>4. CASE Made(m) /\ Made(m)'
  BY <1>4, StatusIs, StatusIsNext DEF StatusInv, StatusOf
<1>5. CASE Made(m) /\ at'[m] = at[m]
  BY <1>4, <1>5 DEF Made
<1>6. Made(m) \/ at[m] \in {"none", "spawned", "creating"}
  BY DEF Made
<1> QED BY <1>2, <1>3, <1>4, <1>5, <1>6
LEMMA FreshKept ==
  ASSUME FreshInv, \A h \in Creators : Made(h) => Made(h)', queue' = queue PROVE FreshInv'
BY DEF FreshInv

LEMMA ThreadKeepsFresh ==
  ASSUME IInv, FreshInv, NEW m \in Messages, ThreadStep(m) PROVE FreshInv'
<1>1. TypeInv /\ MapInv
  BY DEF IInv, HandlerInv
<1>2. \A h \in Creators : Made(h) => Made(h)'
  BY <1>1, ThreadsAdvance, NamesDiffer
<1>3. CASE UNCHANGED queue
  BY <1>2, <1>3, FreshKept
<1>4. CASE m \in Creators /\ Take(m)
  <2>1. queue' = [queue EXCEPT ![m] = Tail(queue[m])] /\ at[m] = "waiting"
    BY <1>4 DEF Take
  <2>2. Made(m)
    BY <2>1 DEF Made
  <2> QED BY <1>1, <1>2, <2>1, <2>2 DEF FreshInv, TypeInv
<1>5. CASE SendMessage(m) /\ map[Key(m)] # Nobody
  <2> PICK h : h = map[Key(m)]
    OBVIOUS
  <2>1. h \in Creators /\ Key(h) = Key(m) /\ m \notin Creators
    BY <1>1, <1>5, NamesDiffer DEF TypeInv, MapInv, SendMessage, Creators
  <2>2. h.type # "OVERRIDECOMMIT"
    BY <2>1, MessageAssumption DEF Key, Creators, Creates
  <2>3. at[h] \in InMap
    BY <1>1, <2>1, <2>2 DEF MapInv
  <2>4. queue' = [queue EXCEPT ![h] = Append(queue[h], m)]
    BY <1>5 DEF SendMessage
  <2>5. Made(h)
    BY <2>3 DEF Made, InMap
  <2> QED BY <1>1, <1>2, <2>1, <2>4, <2>5 DEF FreshInv, TypeInv
<1> QED BY <1>3, <1>4, <1>5 DEF ThreadStep, SendMessage, BeginCreate, EndCreate, StartWaiting,
              Block, TimeOut, RemoveFromMap

LEMMA NextKeepsFresh == RInv /\ [Next]_vars => FreshInv'
<1> SUFFICES ASSUME IInv, FreshInv, [Next]_vars PROVE FreshInv'
  BY DEF RInv
<1>1. ASSUME UNCHANGED handlerVars PROVE FreshInv'
  BY <1>1 DEF handlerVars, FreshInv, Made
<1>2. ASSUME NEW ms, Spawn(ms), \A m \in ms : at[m] = "none" PROVE FreshInv'
  <2>1. at \in [Messages -> Labels]
    BY DEF IInv, HandlerInv, TypeInv
  <2>2. \A h \in Creators : Made(h) => Made(h)'
    BY <1>2, <2>1, NamesDiffer DEF Spawn, Made
  <2> QED BY <1>2, <2>2, FreshKept DEF Spawn
<1>3. ASSUME NEW c \in Connections, HandleConnection(c) PROVE FreshInv'
  <2>1. CASE Spawn({Request(c)}) /\ \E k, l \in Nat : Cut(c, k, l)
    <3>1. at[Request(c)] = "none"
      BY <2>1 DEF Cut
    <3> QED BY <1>2, <2>1, <3>1
  <2> QED BY <1>1, <1>3, <2>1, HandleConnectionCases DEF IInv
<1>4. CASE ClientRequest
  <2>1. Next1(Http) \in Messages /\ Unsent(Next1(Http))
    BY <1>4, NextIsUnsent DEF IInv, NodeInv, ClientRequest, HasNext, Senders
  <2>2. at[Next1(Http)] = "none"
    BY <2>1 DEF IInv, NodeInv, SentInv
  <2> QED BY <1>2, <1>4, <2>2 DEF ClientRequest
<1>5. ASSUME NEW m \in Messages, HandlerStep(m) PROVE FreshInv'
  BY <1>5, ThreadKeepsFresh DEF HandlerStep
<1> QED BY <1>1, <1>3, <1>4, <1>5 DEF Next, Send, ClientStep, CloseConnection, vars, handlerVars

LEMMA RInvHolds == Spec => []RInv
<1>1. Init => RInv
  <2>1. ASSUME Init PROVE FreshInv
    BY <2>1 DEF Init, HandlerInit, FreshInv
  <2> QED BY <2>1, InitHolds DEF RInv
<1>2. RInv /\ [Next]_vars => RInv'
  BY NextHolds, NextKeepsFresh DEF RInv
<1> QED BY <1>1, <1>2, PTL DEF Spec
-----------------------------------------------------------------------------
(* The steps of Delivery, message by message and handler by handler.       *)
LEMMA StageKept ==
  ASSUME NEW h \in Creators, at'[h] = at[h], taken'[h] = taken[h]
  PROVE  Stage(h)' = Stage(h)
BY DEF Stage, Made

LEMMA MailKept ==
  ASSUME NEW h \in Creators, Stage(h)' = Stage(h), queue'[h] = queue[h]
  PROVE  Mail(h)' = Mail(h)
BY DEF Mail

LEMMA HandlersKept ==
  ASSUME \A h \in Creators : at'[h] = at[h], UNCHANGED <<queue, taken>>
  PROVE  UNCHANGED <<StageBar, MailBar>>
<1>1. \A h \in Creators : Stage(h)' = Stage(h) /\ Mail(h)' = Mail(h)
  BY StageKept, MailKept
<1> QED BY <1>1 DEF StageBar, MailBar

LEMMA Passes ==
  ASSUME NEW m \in Messages, NEW s1, NEW s2, Status(m) = s1, Status(m)' = s2,
         \A n \in Messages \ {m} : Status(n)' = Status(n)
  PROVE  D!Pass(m, s1, s2)
BY DEF D!Pass, StatusBar

LEMMA Stutters ==
  ASSUME \A m \in Messages : Status(m)' = Status(m),
         UNCHANGED <<Dead, StageBar, MailBar>>
  PROVE  UNCHANGED D!deliveryVars
BY DEF D!deliveryVars, StatusBar

LEMMA CarriesKept ==
  ASSUME NEW m, NEW c \in Connections,
         UNCHANGED <<phase[c], pos[c], script, buffer[c], wire[c]>>
  PROVE  Carries(c, m)' <=> Carries(c, m)
BY DEF Carries, Request

LEMMA WayKept ==
  ASSUME NEW m, \A c \in Connections : Carries(c, m)' <=> Carries(c, m)
  PROVE  OnItsWay(m)' <=> OnItsWay(m)
BY DEF OnItsWay, Carries, Request

(* A step that sends m. *)
LEMMA UnsentKept ==
  ASSUME NodeInv, NEW c \in Senders, pos[c] < Len(script[c]), NEW m, m = Next1(c),
         pos' = [pos EXCEPT ![c] = pos[c] + 1], script' = script
  PROVE  /\ \A n \in Messages \ {m} : Unsent(n)' <=> Unsent(n)
         /\ ~ Unsent(m)'
         /\ Request(c)' = m
<1>1. pos \in [Senders -> Nat]
  BY DEF NodeInv, NodeTypeInv
<1>2. pos'[c] = pos[c] + 1 /\ \A d \in Senders \ {c} : pos'[d] = pos[d]
  BY <1>1
<1>3. Request(c)' = m
  BY <1>2 DEF Request, Next1
<1>4. ~ Unsent(m)'
  <2>1. pos'[c] \in 1..pos'[c] /\ script'[c][pos'[c]] = m
    BY <1>1, <1>2 DEF Next1
  <2> QED BY <2>1 DEF Unsent
<1>5. ASSUME NEW n, n # m, Unsent(n) PROVE Unsent(n)'
  <2> SUFFICES ASSUME NEW d \in Senders, NEW i \in 1..pos'[d] PROVE script[d][i] # n
    BY DEF Unsent
  <2>1. CASE d = c /\ i = pos[c] + 1
    BY <1>5, <2>1 DEF Next1
  <2>2. CASE i \in 1..pos[d]
    BY <1>5, <2>2 DEF Unsent
  <2> QED BY <1>1, <1>2, <2>1, <2>2
<1>6. ASSUME NEW n, Unsent(n)' PROVE Unsent(n)
  <2>1. \A d \in Senders : \A i \in 1..pos[d] : i \in 1..pos'[d]
    BY <1>1, <1>2
  <2> QED BY <1>6, <2>1 DEF Unsent
<1> QED BY <1>3, <1>4, <1>5, <1>6

LEMMA SendImplements ==
  ASSUME IInv, IInv', NEW c \in Connections, Send(c)
  PROVE  \E m \in Messages : D!Send(m) \/ D!Refuse(m)
<1> PICK m : m = Next1(c)
  OBVIOUS
<1> DEFINE fits == Encodable(Encode(m))
<1>0. /\ NodeInv /\ NodeTypeInv /\ c \in Senders /\ phase[c] = "idle"
      /\ pos[c] < Len(script[c])
      /\ UNCHANGED <<buffer, script, handlerVars>>
      /\ pos' = [pos EXCEPT ![c] = pos[c] + 1]
      /\ phase' = IF fits THEN [phase EXCEPT ![c] = "awaiting"] ELSE phase
      /\ wire' = IF fits THEN [wire EXCEPT ![c] = FrameOf(m)] ELSE wire
  BY DEF IInv, NodeInv, Send, HasNext, SendRequest, Senders, FrameOf
<1>1. m \in Messages /\ m.from = c /\ Unsent(m)
  BY <1>0, NextIsUnsent
<1>2. /\ Request(c)' = m /\ ~ Unsent(m)'
      /\ \A n \in Messages \ {m} : Unsent(n)' <=> Unsent(n)
  BY <1>0, <1>1, UnsentKept
<1>3. \A d \in Connections \ {c} : UNCHANGED <<phase[d], pos[d], script, buffer[d], wire[d]>>
  BY <1>0 DEF NodeTypeInv, Senders
<1>4. at[m] = "none" /\ at'[m] = "none"
  BY <1>0, <1>1 DEF NodeInv, SentInv, handlerVars
<1>5. UNCHANGED <<Dead, StageBar, MailBar>>
  <2>1. Dead' = Dead
    BY <1>0 DEF Dead, NodeTypeInv
  <2> QED BY <1>0, <2>1, HandlersKept DEF handlerVars
<1>6. ASSUME NEW n \in Messages \ {m} PROVE Status(n)' = Status(n)
  <2>1. ~ Carries(c, n) /\ ~ Carries(c, n)'
    BY <1>0, <1>2 DEF Carries
  <2>2. OnItsWay(n)' <=> OnItsWay(n)
    BY <1>3, <2>1, CarriesKept, WayKept
  <2> QED BY <1>0, <1>2, <2>2, StatusKept DEF handlerVars
<1>7. Status(m) = "unsent"
  BY <1>1, <1>4, StatusIs DEF StatusInv, StatusOf
<1>8. CASE fits
  <2>1. wire'[c] = FrameOf(m) /\ phase'[c] = "awaiting"
    BY <1>0, <1>8 DEF NodeTypeInv
  <2>2. buffer'[c] = <<>>
    BY <1>0, StreamIsShort
  <2>3. Complete(buffer'[c] \o wire'[c])
    <3>1. /\ FrameOf(m) \in Seq(Tokens) /\ Len(FrameOf(m)) \in 0..Len(FrameOf(m))
          /\ Complete(SubSeq(FrameOf(m), 1, Len(FrameOf(m))))
      BY <1>1, FrameFacts
    <3>2. SubSeq(FrameOf(m), 1, Len(FrameOf(m))) = FrameOf(m)
      BY <3>1, SubSeqFull
    <3>3. <<>> \o FrameOf(m) = FrameOf(m)
      BY <3>1
    <3> QED BY <2>1, <2>2, <3>1, <3>2, <3>3
  <2>4. pos'[c] > 0
    BY <1>0 DEF NodeTypeInv
  <2>5. Carries(c, m)'
    BY <1>2, <2>1, <2>3, <2>4 DEF Carries
  <2>6. OnItsWay(m)'
    BY <2>5 DEF OnItsWay, Carries, Request
  <2>7. Status(m)' = "net"
    BY <1>1, <1>4, <2>6, StatusIsNext DEF StatusOf
  <2>8. D!Pass(m, "unsent", "net")
    BY <1>1, <1>6, <1>7, <2>7, Passes
  <2> QED BY <1>1, <1>5, <2>8 DEF D!Send
<1>9. CASE ~ fits
  <2>1. ~ Carries(c, m) /\ ~ Carries(c, m)'
    BY <1>0, <1>9 DEF Carries
  <2>2. OnItsWay(m)' <=> OnItsWay(m)
    BY <1>3, <2>1, CarriesKept, WayKept
  <2>3. ~ OnItsWay(m)
    BY <1>1, StatusIs DEF StatusInv, StatusOf
  <2>4. Status(m)' = "lost"
    BY <1>1, <1>2, <1>4, <2>2, <2>3, StatusIsNext DEF StatusOf
  <2>5. D!Pass(m, "unsent", "lost")
    BY <1>1, <1>6, <1>7, <2>4, Passes
  <2> QED BY <1>1, <1>5, <1>9, <2>5 DEF D!Refuse
<1> QED BY <1>8, <1>9

LEMMA ClientRequestImplements ==
  ASSUME IInv, IInv', ClientRequest PROVE \E m \in Messages : D!Send(m)
<1> PICK m : m = Next1(Http)
  OBVIOUS
<1>0. /\ NodeInv /\ NodeTypeInv /\ Http \in Senders /\ pos[Http] < Len(script[Http])
      /\ UNCHANGED <<phase, wire, buffer, script>> /\ Spawn({m})
      /\ pos' = [pos EXCEPT ![Http] = pos[Http] + 1]
  BY DEF IInv, NodeInv, ClientRequest, HasNext, Senders, tcpVars
<1>1. m \in Messages /\ Unsent(m)
  BY <1>0, NextIsUnsent
<1>2. \A n \in Messages \ {m} : Unsent(n)' <=> Unsent(n)
  BY <1>0, <1>1, UnsentKept
<1>3. /\ at[m] = "none" /\ at'[m] = "spawned"
      /\ \A n \in Messages \ {m} : at'[n] = at[n]
  BY <1>0, <1>1 DEF NodeInv, SentInv, Spawn
<1>4. \A d \in Connections : UNCHANGED <<phase[d], pos[d], script, buffer[d], wire[d]>>
  BY <1>0, ScriptAssumption DEF NodeTypeInv, Senders
<1>5. ASSUME NEW n \in Messages \ {m} PROVE Status(n)' = Status(n)
  <2>1. OnItsWay(n)' <=> OnItsWay(n)
    BY <1>4, CarriesKept, WayKept
  <2> QED BY <1>2, <1>3, <2>1, StatusKept
<1>6. Status(m) = "unsent" /\ Status(m)' = "net"
  BY <1>1, <1>3, StatusIs, StatusIsNext DEF StatusInv, StatusOf
<1>7. UNCHANGED <<Dead, StageBar, MailBar>>
  <2>1. \A h \in Creators : Stage(h)' = Stage(h) /\ Mail(h)' = Mail(h)
    <3> SUFFICES ASSUME NEW h \in Creators PROVE Stage(h)' = Stage(h)
      BY <1>0, MailKept DEF Spawn
    <3>1. CASE h = m
      BY <1>3, <3>1 DEF Stage, Made
    <3>2. CASE h # m
      BY <1>0, <1>3, <3>2, StageKept, NamesDiffer DEF Spawn
    <3> QED BY <3>1, <3>2
  <2> QED BY <1>0, <2>1 DEF Dead, StageBar, MailBar
<1>8. D!Pass(m, "unsent", "net")
  BY <1>1, <1>5, <1>6, Passes
<1> QED BY <1>1, <1>7, <1>8 DEF D!Send

(* Reading a request, up to its detached thread, changes nothing.          *)
LEMMA HandleConnectionStutters ==
  ASSUME IInv, IInv', NEW c \in Connections, HandleConnection(c)
  PROVE  UNCHANGED D!deliveryVars
<1> PICK m : m = Request(c)
  OBVIOUS
<1>0. /\ NodeInv /\ NodeTypeInv /\ StreamOK(c) /\ UNCHANGED <<script, pos>>
      /\ \A d \in Connections \ {c} : UNCHANGED <<phase[d], wire[d], buffer[d]>>
  BY HandleConnectionCases DEF IInv, NodeInv, StreamInv
<1>1. \A n \in Messages : Unsent(n)' <=> Unsent(n)
  BY <1>0 DEF Unsent
<1>2. \A n \in Messages : \A d \in Connections \ {c} : Carries(d, n)' <=> Carries(d, n)
  BY <1>0, CarriesKept
<1>3. ASSUME phase'[c] \in {"closed", "ended"} <=> phase[c] \in {"closed", "ended"}
      PROVE  Dead' = Dead
  BY <1>0, <1>3 DEF Dead
<1>4. ASSUME UNCHANGED handlerVars, Dead' = Dead,
             \A n \in Messages : Carries(c, n)' <=> Carries(c, n)
      PROVE  UNCHANGED D!deliveryVars
  <2>1. \A n \in Messages : Status(n)' = Status(n)
    BY <1>1, <1>2, <1>4, WayKept, StatusKept DEF handlerVars
  <2> QED BY <1>4, <2>1, HandlersKept, Stutters DEF handlerVars
<1>5. CASE /\ phase[c] = "closed" /\ wire[c] = <<>> /\ UNCHANGED handlerVars
           /\ phase'[c] = "ended" /\ wire'[c] = <<>> /\ buffer'[c] = <<>>
  <2>1. ~ Complete(buffer[c] \o wire[c])
    <3>1. buffer[c] \in Seq(Tokens)
      BY <1>0 DEF NodeTypeInv
    <3>2. buffer[c] \o <<>> = buffer[c]
      BY <3>1
    <3> QED BY <1>0, <1>5, <3>2, BufferIncomplete
  <2>2. \A n \in Messages : Carries(c, n)' <=> Carries(c, n)
    BY <1>5, <2>1 DEF Carries
  <2> QED BY <1>3, <1>4, <1>5, <2>2
<1>6. ASSUME UNCHANGED <<phase[c], handlerVars>>,
             NEW k \in Nat, NEW l \in Nat, NEW n \in Nat,
             Cut(c, k, l), n > 0, k + n <= l, k + n < Len(FrameOf(m)),
             buffer'[c] = SubSeq(FrameOf(m), 1, k + n),
             wire'[c] = SubSeq(FrameOf(m), k + n + 1, l)
      PROVE  UNCHANGED D!deliveryVars
  <2> PICK F : F = FrameOf(m)
    OBVIOUS
  <2>1. m \in Messages /\ buffer[c] \o wire[c] = SubSeq(F, 1, l)
    BY <1>0, <1>6, CutJoins
  <2>2. F \in Seq(Tokens) /\ l <= Len(F) /\ k + n \in Nat
    BY <1>6, <2>1, FrameFacts DEF Cut
  <2>3. buffer'[c] \o wire'[c] = SubSeq(F, 1, l)
    <3> PICK j : j = k + n
      OBVIOUS
    <3>1. j \in Nat /\ j <= l /\ buffer'[c] = SubSeq(F, 1, j) /\ wire'[c] = SubSeq(F, j + 1, l)
      BY <1>6
    <3> QED BY <2>2, <3>1, Join
  <2>4. \A x \in Messages : Carries(c, x)' <=> Carries(c, x)
    BY <1>0, <1>6, <2>1, <2>3 DEF Carries, Request
  <2> QED BY <1>3, <1>4, <1>6, <2>4
<1>7. ASSUME NEW k \in Nat, Cut(c, k, Len(FrameOf(m))),
             phase'[c] = IF phase[c] = "awaiting" THEN "answered" ELSE phase[c],
             wire'[c] = <<>>, buffer'[c] = <<>>, Spawn({m})
      PROVE  UNCHANGED D!deliveryVars
  <2>1. m \in Messages /\ at[m] = "none" /\ phase[c] \in {"awaiting", "closed"}
    BY <1>0, <1>7, RequestFacts DEF Cut, Senders
  <2>2. at'[m] = "spawned" /\ \A n \in Messages \ {m} : at'[n] = at[n]
    BY <1>7, <2>1 DEF Spawn
  <2>3. Carries(c, m)
    BY <1>0, <1>7, <2>1, CarriesIs
  <2>4. OnItsWay(m)
    BY <2>3 DEF OnItsWay, Carries, Request
  <2>5. Status(m) = "net" /\ Status(m)' = "net"
    BY <2>1, <2>2, <2>4, StatusIs, StatusIsNext DEF StatusInv, StatusOf
  <2>6. ASSUME NEW n \in Messages \ {m} PROVE Status(n)' = Status(n)
    <3>1. ~ Carries(c, n) /\ ~ Carries(c, n)'
      <4>1. buffer'[c] \o wire'[c] = <<>>
        BY <1>7
      <4>2. ~ Complete(buffer'[c] \o wire'[c])
        BY <4>1 DEF Complete, Range
      <4> QED BY <4>2 DEF Carries
    <3> QED BY <1>1, <1>2, <2>2, <3>1, WayKept, StatusKept
  <2>7. \A h \in Creators : Stage(h)' = Stage(h) /\ Mail(h)' = Mail(h)
    <3> SUFFICES ASSUME NEW h \in Creators PROVE Stage(h)' = Stage(h)
      BY <1>7, MailKept DEF Spawn
    <3>1. CASE h = m
      BY <2>1, <2>2, <3>1 DEF Stage, Made
    <3>2. CASE h # m
      BY <1>7, <2>2, <3>2, StageKept, NamesDiffer DEF Spawn
    <3> QED BY <3>1, <3>2
  <2>8. Dead' = Dead
    BY <1>3, <1>7, <2>1
  <2> QED BY <2>5, <2>6, <2>7, <2>8, Stutters DEF StageBar, MailBar
<1> QED BY <1>5, <1>6, <1>7, HandleConnectionCases DEF IInv

LEMMA ClientStepStutters ==
  ASSUME IInv, IInv', NEW c \in Connections, ClientStep(c) PROVE UNCHANGED D!deliveryVars
<1>0. /\ phase[c] = "answered" /\ phase' = [phase EXCEPT ![c] = "idle"]
      /\ UNCHANGED <<wire, buffer, script, pos, handlerVars>>
      /\ NodeTypeInv
  BY DEF ClientStep, ReceiveResponse, IInv, NodeInv
<1>1. \A n \in Messages : Unsent(n)' <=> Unsent(n)
  BY <1>0 DEF Unsent
<1>2. ASSUME NEW n \in Messages, NEW d \in Connections
      PROVE  Carries(d, n)' <=> Carries(d, n)
  <2>1. CASE d = c
    BY <1>0, <2>1 DEF Carries, NodeTypeInv
  <2>2. CASE d # c
    BY <1>0, <2>2, CarriesKept DEF NodeTypeInv
  <2> QED BY <2>1, <2>2
<1>3. \A n \in Messages : Status(n)' = Status(n)
  BY <1>0, <1>1, <1>2, WayKept, StatusKept DEF handlerVars
<1>4. Dead' = Dead
  BY <1>0 DEF Dead, NodeTypeInv
<1> QED BY <1>0, <1>3, <1>4, HandlersKept, Stutters DEF handlerVars

LEMMA CloseImplements ==
  ASSUME IInv, IInv', NEW c \in Connections, CloseConnection(c) PROVE D!Die(c)
<1> PICK m : m = Request(c)
  OBVIOUS
<1>0. /\ UNCHANGED <<script, pos, buffer, handlerVars>> /\ NodeTypeInv
      /\ phase[c] \notin {"closed", "ended"} /\ phase' = [phase EXCEPT ![c] = "closed"]
      /\ \A d \in Connections \ {c} : wire'[d] = wire[d]
      /\ \/ buffer[c] = <<>> /\ wire[c] = <<>> /\ wire'[c] = <<>>
         \/ \E k, l \in Nat : Cut(c, k, Len(FrameOf(m))) /\ Cut(c, k, l)'
  BY CloseCuts DEF IInv, NodeInv
<1>1. \A n \in Messages : Unsent(n)' <=> Unsent(n)
  BY <1>0 DEF Unsent
<1>2. ASSUME NEW n \in Messages PROVE \A d \in Connections \ {c} : Carries(d, n)' <=> Carries(d, n)
  BY <1>0, CarriesKept DEF NodeTypeInv
<1>3. Dead' = Dead \cup {c} /\ UNCHANGED <<StageBar, MailBar>>
  <2>1. Dead' = Dead \cup {c}
    BY <1>0 DEF Dead, NodeTypeInv
  <2> QED BY <1>0, <2>1, HandlersKept DEF handlerVars
<1>4. ASSUME NEW n \in Messages, Carries(c, n)' <=> Carries(c, n)
      PROVE  Status(n)' = Status(n)
  BY <1>0, <1>1, <1>2, <1>4, WayKept, StatusKept DEF handlerVars
<1>5. ASSUME \A n \in Messages : Status(n)' = Status(n) PROVE D!Die(c)
  BY <1>3, <1>5 DEF D!Die, StatusBar
<1>6. CASE buffer[c] = <<>> /\ wire[c] = <<>> /\ wire'[c] = <<>>
  <2>1. ~ Complete(<<>> \o <<>>)
    <3>1. <<>> \o <<>> = <<>>
      OBVIOUS
    <3> QED BY <3>1 DEF Complete, Range
  <2>2. \A n \in Messages : ~ Carries(c, n) /\ ~ Carries(c, n)'
    BY <1>0, <1>6, <2>1 DEF Carries
  <2> QED BY <1>4, <1>5, <2>2
<1>7. CASE \E k, l \in Nat : Cut(c, k, Len(FrameOf(m))) /\ Cut(c, k, l)'
  <2>1. /\ m \in Messages /\ m.from = c /\ Carries(c, m)
        /\ at[m] = "none" /\ ~ Unsent(m)
    <3>1. m \in Messages /\ m.from = c
      BY <1>0, <1>7, RequestFacts DEF Cut, Senders
    <3>2. Carries(c, m)
      BY <1>7, <3>1, CarriesIs DEF IInv, NodeInv
    <3> QED BY <3>1, <3>2, CarriesIs DEF IInv, NodeInv
  <2>2. CASE Carries(c, m)'
    <3>1. \A n \in Messages : Carries(c, n)' <=> Carries(c, n)
      BY <1>0, <2>1, <2>2 DEF Carries, Request
    <3> QED BY <1>4, <1>5, <3>1
  <2>3. CASE ~ Carries(c, m)'
    <3>1. \A n \in Messages \ {m} : ~ Carries(c, n) /\ ~ Carries(c, n)'
      BY <1>0 DEF Carries, Request
    <3>2. \A n \in Messages \ {m} : Status(n)' = Status(n)
      BY <1>4, <3>1
    <3>3. Status(m) = "net"
      <4>1. OnItsWay(m)
        BY <2>1 DEF OnItsWay, Carries, Request
      <4> QED BY <2>1, <4>1, StatusIs DEF StatusInv, StatusOf
    <3>4. Status(m)' = "lost"
      <4>1. ~ OnItsWay(m)'
        <5>1. \A d \in Connections \ {c} : ~ Carries(d, m)'
          <6>1. \A d \in Connections \ {c} : ~ Carries(d, m)
            BY <2>1, CarriesIs DEF IInv, NodeInv
          <6> QED BY <1>2, <2>1, <6>1
        <5> QED BY <2>3, <5>1 DEF OnItsWay, Carries, Request
      <4>2. at'[m] = "none" /\ ~ Unsent(m)'
        BY <1>0, <1>1, <2>1 DEF handlerVars
      <4> QED BY <2>1, <4>1, <4>2, StatusIsNext DEF StatusOf
    <3>5. D!Pass(m, "net", "lost")
      BY <2>1, <3>2, <3>3, <3>4, Passes
    <3> QED BY <1>3, <2>1, <3>5 DEF D!Die
  <2> QED BY <2>2, <2>3
<1> QED BY <1>0, <1>6, <1>7
-----------------------------------------------------------------------------
(* The threads.  They leave the connections alone.                         *)
LEMMA ThreadStatus ==
  ASSUME IInv, IInv', UNCHANGED <<phase, wire, buffer, script, pos>>, NEW m \in Messages,
         \/ at'[m] = at[m]
         \/ Made(m) /\ Made(m)'
         \/ at[m] \in {"spawned", "creating"} /\ at'[m] \in {"spawned", "creating"}
  PROVE  Status(m)' = Status(m)
<1>1. \A c \in Connections : Carries(c, m)' <=> Carries(c, m)
  BY CarriesKept
<1>2. Unsent(m)' <=> Unsent(m)
  BY DEF Unsent
<1> QED BY <1>1, <1>2, WayKept, StatusKept

(* A step of the thread of h that leaves the others alone. *)
LEMMA OthersKept ==
  ASSUME IInv, IInv', UNCHANGED <<phase, wire, buffer, script, pos>>, NEW h \in Messages,
         \A n \in Messages \ {h} : at'[n] = at[n],
         \A g \in Creators \ {h} : queue'[g] = queue[g] /\ taken'[g] = taken[g]
  PROVE  /\ Dead' = Dead
         /\ \A n \in Messages \ {h} : Status(n)' = Status(n)
         /\ \A g \in Creators \ {h} : Stage(g)' = Stage(g) /\ Mail(g)' = Mail(g)
<1>1. \A n \in Messages \ {h} : Status(n)' = Status(n)
  BY ThreadStatus
<1>2. \A g \in Creators \ {h} : Stage(g)' = Stage(g) /\ Mail(g)' = Mail(g)
  BY StageKept, MailKept, NamesDiffer
<1> QED BY <1>1, <1>2 DEF Dead

LEMMA BeginCreateStutters ==
  ASSUME IInv, IInv', UNCHANGED <<phase, wire, buffer, script, pos>>,
         NEW m \in Messages, BeginCreate(m)
  PROVE  UNCHANGED D!deliveryVars
<1>1. /\ m \in Creators /\ at[m] = "spawned" /\ at' = [at EXCEPT ![m] = "creating"]
      /\ UNCHANGED <<queue, taken>> /\ at \in [Messages -> Labels]
  BY DEF BeginCreate, Goto, IInv, HandlerInv, TypeInv
<1>2. at'[m] = "creating" /\ \A n \in Messages \ {m} : at'[n] = at[n]
  BY <1>1
<1>3. Status(m)' = Status(m)
  BY <1>1, <1>2, ThreadStatus
<1>4. Stage(m) = "none" /\ Stage(m)' = "none"
  BY <1>1, <1>2 DEF Stage, Made
<1>5. Mail(m)' = Mail(m)
  BY <1>1, <1>4, MailKept
<1>6. UNCHANGED <<Dead, StageBar, MailBar>> /\ \A n \in Messages : Status(n)' = Status(n)
  BY <1>1, <1>2, <1>3, <1>4, <1>5, OthersKept DEF StageBar, MailBar
<1> QED BY <1>6, Stutters

LEMMA EndCreateImplements ==
  ASSUME RInv, IInv', UNCHANGED <<phase, wire, buffer, script, pos>>,
         NEW m \in Messages, EndCreate(m)
  PROVE  D!Open(m)
<1>0. IInv /\ FreshInv
  BY DEF RInv
<1>1. /\ m \in Creators /\ at[m] = "creating" /\ at' = [at EXCEPT ![m] = "running"]
      /\ UNCHANGED <<queue, taken>> /\ at \in [Messages -> Labels]
  BY <1>0 DEF EndCreate, Goto, IInv, HandlerInv, TypeInv
<1>2. at'[m] = "running" /\ \A n \in Messages \ {m} : at'[n] = at[n]
  BY <1>1
<1>3. Status(m) = "net" /\ Status(m)' = "handled"
  BY <1>0, <1>1, <1>2, StatusIs, StatusIsNext DEF StatusInv, StatusOf, Made
<1>4. Stage(m) = "none" /\ Stage(m)' = "running"
  BY <1>1, <1>2 DEF Stage, Made
<1>5. Mail(m)' = Mail(m)
  <2>1. queue[m] = <<>>
    BY <1>0, <1>1 DEF FreshInv, Made
  <2> QED BY <1>1, <1>4, <2>1 DEF Mail, Range
<1>6. /\ Dead' = Dead
      /\ \A n \in Messages \ {m} : Status(n)' = Status(n)
      /\ \A g \in Creators \ {m} : Stage(g)' = Stage(g) /\ Mail(g)' = Mail(g)
  BY <1>0, <1>1, <1>2, OthersKept
<1>7. D!Pass(m, "net", "handled")
  BY <1>3, <1>6, Passes
<1>8. StageBar' = [StageBar EXCEPT ![m] = "running"] /\ MailBar' = MailBar
  BY <1>1, <1>4, <1>5, <1>6 DEF StageBar, MailBar
<1> QED BY <1>1, <1>6, <1>7, <1>8 DEF D!Open

(* A handler closes, and forgets what it has not taken. *)
LEMMA Closes ==
  ASSUME NEW h \in Creators, NEW how, how \in {"closed", "expired"}, Stage(h)' = how,
         \A g \in Creators \ {h} : Stage(g)' = Stage(g) /\ Mail(g)' = Mail(g)
  PROVE  D!CloseHandler(h, how)
<1>1. Mail(h)' = {}
  BY DEF Mail
<1> QED BY <1>1 DEF D!CloseHandler, StageBar, MailBar

LEMMA StartWaitingImplements ==
  ASSUME IInv, IInv', UNCHANGED <<phase, wire, buffer, script, pos>>,
         NEW h \in Creators, StartWaiting(h)
  PROVE  D!Wait(h) \/ D!End(h)
<1>1. /\ h \in Messages /\ at[h] = "running"
      /\ at' = [at EXCEPT ![h] = IF Needs(h) = 0 THEN "ended" ELSE "waiting"]
      /\ UNCHANGED <<queue, taken>> /\ at \in [Messages -> Labels]
  BY NamesDiffer DEF StartWaiting, Goto, IInv, HandlerInv, TypeInv
<1>2. /\ at'[h] = IF Needs(h) = 0 THEN "ended" ELSE "waiting"
      /\ \A n \in Messages \ {h} : at'[n] = at[n]
  BY <1>1
<1>3. Status(h)' = Status(h)
  BY <1>1, <1>2, ThreadStatus DEF Made
<1>4. /\ Dead' = Dead
      /\ \A n \in Messages \ {h} : Status(n)' = Status(n)
      /\ \A g \in Creators \ {h} : Stage(g)' = Stage(g) /\ Mail(g)' = Mail(g)
  BY <1>1, <1>2, OthersKept
<1>5. Stage(h) = "running"
  BY <1>1 DEF Stage, Made
<1>6. CASE Needs(h) = 0
  <2>1. NoMessage \notin Range(taken'[h])
    <3>1. taken[h] = <<>>
      BY <1>1 DEF IInv, HandlerInv, TakenInv, TakenOK
    <3> QED BY <1>1, <3>1 DEF Range
  <2>2. Stage(h)' = "closed"
    BY <1>2, <1>6, <2>1 DEF Stage, Made
  <2>3. D!CloseHandler(h, "closed")
    BY <1>4, <2>2, Closes
  <2> QED BY <1>3, <1>4, <1>5, <2>3 DEF D!End, StatusBar, StageBar
<1>7. CASE Needs(h) # 0
  <2>1. Stage(h)' = "waiting"
    BY <1>2, <1>7 DEF Stage, Made
  <2>2. Mail(h)' = Mail(h)
    BY <1>1, <1>5, <2>1 DEF Mail
  <2> QED BY <1>3, <1>4, <1>5, <2>1, <2>2 DEF D!Wait, StatusBar, StageBar, MailBar
<1> QED BY <1>6, <1>7

LEMMA BlockStutters ==
  ASSUME IInv, IInv', UNCHANGED <<phase, wire, buffer, script, pos>>,
         NEW h \in Creators, Block(h)
  PROVE  UNCHANGED D!deliveryVars
<1>1. /\ h \in Messages /\ at[h] = "waiting" /\ at' = [at EXCEPT ![h] = "blocked"]
      /\ UNCHANGED <<queue, taken>> /\ at \in [Messages -> Labels]
  BY NamesDiffer DEF Block, Goto, IInv, HandlerInv, TypeInv
<1>2. at'[h] = "blocked" /\ \A n \in Messages \ {h} : at'[n] = at[n]
  BY <1>1
<1>3. Status(h)' = Status(h)
  BY <1>1, <1>2, ThreadStatus DEF Made
<1>4. Stage(h) = "waiting" /\ Stage(h)' = "waiting"
  BY <1>1, <1>2 DEF Stage, Made
<1>5. Mail(h)' = Mail(h)
  BY <1>1, <1>4, MailKept
<1>6. UNCHANGED <<Dead, StageBar, MailBar>> /\ \A n \in Messages : Status(n)' = Status(n)
  BY <1>1, <1>2, <1>3, <1>4, <1>5, OthersKept DEF StageBar, MailBar
<1> QED BY <1>6, Stutters

LEMMA RemoveFromMapStutters ==
  ASSUME IInv, IInv', UNCHANGED <<phase, wire, buffer, script, pos>>,
         NEW h \in Creators, RemoveFromMap(h)
  PROVE  UNCHANGED D!deliveryVars
<1>1. /\ h \in Messages /\ at[h] = "ended" /\ at' = [at EXCEPT ![h] = "handled"]
      /\ UNCHANGED <<queue, taken>> /\ at \in [Messages -> Labels]
  BY NamesDiffer DEF RemoveFromMap, Goto, IInv, HandlerInv, TypeInv
<1>2. at'[h] = "handled" /\ \A n \in Messages \ {h} : at'[n] = at[n]
  BY <1>1
<1>3. Status(h)' = Status(h)
  BY <1>1, <1>2, ThreadStatus DEF Made
<1>4. Stage(h)' = Stage(h)
  BY <1>1, <1>2 DEF Stage, Made
<1>5. Mail(h)' = Mail(h)
  BY <1>1, <1>4, MailKept
<1>6. UNCHANGED <<Dead, StageBar, MailBar>> /\ \A n \in Messages : Status(n)' = Status(n)
  BY <1>1, <1>2, <1>3, <1>4, <1>5, OthersKept DEF StageBar, MailBar
<1> QED BY <1>6, Stutters

LEMMA TimeOutImplements ==
  ASSUME IInv, IInv', UNCHANGED <<phase, wire, buffer, script, pos>>,
         NEW h \in Creators, TimeOut(h)
  PROVE  D!End(h)
<1>1. /\ h \in Messages /\ at[h] \in {"waiting", "blocked"} /\ queue[h] = <<>>
      /\ at' = [at EXCEPT ![h] = "ended"] /\ at \in [Messages -> Labels]
      /\ taken' = [taken EXCEPT ![h] = Append(taken[h], NoMessage)]
      /\ taken \in [Creators -> Seq(Messages \cup {NoMessage})] /\ queue' = queue
  BY NamesDiffer DEF TimeOut, NothingQueued, Goto, IInv, HandlerInv, TypeInv
<1>2. at'[h] = "ended" /\ \A n \in Messages \ {h} : at'[n] = at[n]
  BY <1>1
<1>3. /\ taken'[h] = Append(taken[h], NoMessage)
      /\ \A g \in Creators \ {h} : taken'[g] = taken[g]
  BY <1>1
<1>4. Status(h)' = Status(h)
  BY <1>1, <1>2, ThreadStatus DEF Made
<1>5. /\ Dead' = Dead
      /\ \A n \in Messages \ {h} : Status(n)' = Status(n)
      /\ \A g \in Creators \ {h} : Stage(g)' = Stage(g) /\ Mail(g)' = Mail(g)
  BY <1>1, <1>2, <1>3, OthersKept
<1>6. Stage(h) = "waiting" /\ Mail(h) = {}
  <2>1. Stage(h) = "waiting"
    BY <1>1 DEF Stage, Made
  <2> QED BY <1>1, <2>1 DEF Mail, Range
<1>7. Stage(h)' = "expired"
  <2>1. NoMessage \in Range(taken'[h])
    BY <1>3, TakenGrows DEF IInv
  <2> QED BY <1>2, <2>1 DEF Stage, Made
<1>8. D!CloseHandler(h, "expired")
  BY <1>5, <1>7, Closes
<1> QED BY <1>4, <1>5, <1>6, <1>8 DEF D!End, StatusBar, StageBar, MailBar

(* What is left of a queue without repetitions. *)
LEMMA RangeOfRest ==
  ASSUME NEW T, NEW q \in Seq(T), NEW t \in Seq(T), q # <<>>, Len(t) = Len(q) - 1,
         \A i \in 1..Len(t) : t[i] = q[i + 1],
         \A i, j \in 1..Len(q) : q[i] = q[j] => i = j
  PROVE  q[1] \in Range(q) /\ Range(t) = Range(q) \ {q[1]}
<1>1. /\ Range(q) = {q[i] : i \in 1..Len(q)}
      /\ Range(t) = {t[i] : i \in 1..Len(t)}
  BY RangeEquality
<1>2. 1 \in 1..Len(q) /\ Len(q) \in Nat
  BY EmptySeq
<1>3. ASSUME NEW x \in Range(t) PROVE x \in Range(q) \ {q[1]}
  <2>1. PICK i \in 1..Len(t) : x = t[i]
    BY <1>1
  <2>2. i + 1 \in 1..Len(q) /\ i + 1 # 1 /\ x = q[i + 1]
    BY <1>2, <2>1
  <2>3. q[i + 1] # q[1]
    BY <1>2, <2>2
  <2> QED BY <1>1, <2>2, <2>3
<1>4. ASSUME NEW x \in Range(q) \ {q[1]} PROVE x \in Range(t)
  <2>1. PICK i \in 1..Len(q) : x = q[i]
    BY <1>1
  <2>2. i # 1
    BY <1>4, <2>1
  <2> PICK j : j = i - 1
    OBVIOUS
  <2>3. j \in 1..Len(t) /\ j + 1 = i
    BY <1>2, <2>1, <2>2
  <2>4. t[j] = x
    BY <2>1, <2>3
  <2> QED BY <1>1, <2>3, <2>4
<1> QED BY <1>1, <1>2, <1>3, <1>4

LEMMA TakeImplements ==
  ASSUME IInv, IInv', UNCHANGED <<phase, wire, buffer, script, pos>>,
         NEW h \in Creators, Take(h)
  PROVE  \E m \in Messages : D!Take(h, m)
<1> PICK q : q = queue[h]
  OBVIOUS
<1> PICK m : m = Head(q)
  OBVIOUS
<1> PICK l : l = IF m.type = "ABORT" \/ Len(taken'[h]) = Needs(h) THEN "ended" ELSE "waiting"
  OBVIOUS
<1>1. /\ h \in Messages /\ at[h] = "waiting" /\ q # <<>> /\ at' = [at EXCEPT ![h] = l]
      /\ queue' = [queue EXCEPT ![h] = Tail(q)] /\ taken' = [taken EXCEPT ![h] = Append(taken[h], m)]
      /\ l \in {"ended", "waiting"}
  BY NamesDiffer DEF Take, Goto
<1>2. /\ at \in [Messages -> Labels] /\ queue \in [Creators -> Seq(Messages)]
      /\ taken \in [Creators -> Seq(Messages \cup {NoMessage})]
      /\ \A i, j \in 1..Len(q) : q[i] = q[j] => i = j
      /\ NoMessage \notin Range(taken[h])
  <2>1. NoMessage \notin Range(taken[h])
    BY <1>1 DEF IInv, HandlerInv, TakenInv, TakenOK
  <2> QED BY <2>1 DEF IInv, HandlerInv, TypeInv, QueueInv
<1>3. /\ at'[h] = l /\ queue'[h] = Tail(q) /\ taken'[h] = Append(taken[h], m)
      /\ \A n \in Messages \ {h} : at'[n] = at[n]
      /\ \A g \in Creators \ {h} : queue'[g] = queue[g] /\ taken'[g] = taken[g]
  BY <1>1, <1>2
<1>4. m \in Messages /\ m \in Range(q) /\ Range(Tail(q)) = Range(q) \ {m}
  <2> DEFINE t == Tail(q)
  <2>1. /\ q \in Seq(Messages) /\ m \in Messages /\ m = q[1] /\ t \in Seq(Messages)
        /\ Len(t) = Len(q) - 1 /\ \A i \in 1..Len(t) : t[i] = q[i + 1]
    BY <1>1, <1>2, HeadTailProperties
  <2> HIDE DEF t
  <2>2. q[1] \in Range(q) /\ Range(t) = Range(q) \ {q[1]}
    <3>1. q # <<>> /\ \A i, j \in 1..Len(q) : q[i] = q[j] => i = j
      BY <1>1, <1>2
    <3>2. q \in Seq(Messages) /\ t \in Seq(Messages) /\ Len(t) = Len(q) - 1
      BY <2>1
    <3>3. \A i \in 1..Len(t) : t[i] = q[i + 1]
      BY <2>1
    <3> QED BY <3>1, <3>2, <3>3, RangeOfRest
  <2> QED BY <2>1, <2>2 DEF t
<1>5. Made(h) /\ Made(h)'
  BY <1>1, <1>3 DEF Made
<1>6. Status(h)' = Status(h)
  BY <1>1, <1>5, ThreadStatus
<1>7. /\ Dead' = Dead
      /\ \A n \in Messages \ {h} : Status(n)' = Status(n)
      /\ \A g \in Creators \ {h} : Stage(g)' = Stage(g) /\ Mail(g)' = Mail(g)
  BY <1>1, <1>3, OthersKept
<1>8. Stage(h) = "waiting" /\ Mail(h) = Range(q)
  <2>1. Stage(h) = "waiting"
    BY <1>1 DEF Stage, Made
  <2> QED BY <2>1 DEF Mail
<1>9. /\ StatusBar' = StatusBar /\ Dead' = Dead
      /\ StageBar[h] = "waiting" /\ MailBar[h] = Range(q)
  BY <1>6, <1>7, <1>8 DEF StatusBar, StageBar, MailBar
<1>10. CASE l = "waiting"
  <2>1. Stage(h)' = "waiting"
    BY <1>3, <1>10 DEF Stage, Made
  <2>2. Mail(h)' = Mail(h) \ {m}
    BY <1>3, <1>4, <1>8, <2>1 DEF Mail
  <2>3. StageBar' = StageBar /\ MailBar' = [MailBar EXCEPT ![h] = MailBar[h] \ {m}]
    BY <1>7, <1>8, <2>1, <2>2 DEF StageBar, MailBar
  <2> QED BY <1>4, <1>9, <2>3 DEF D!Take
<1>11. CASE l = "ended"
  <2>1. NoMessage \notin Range(taken'[h])
    BY <1>2, <1>3, <1>4, TakenGrows, NamesDiffer DEF IInv
  <2>2. Stage(h)' = "closed"
    BY <1>3, <1>11, <2>1 DEF Stage, Made
  <2>3. D!CloseHandler(h, "closed")
    BY <1>7, <2>2, Closes
  <2> QED BY <1>4, <1>9, <2>3 DEF D!Take
<1> QED BY <1>1, <1>10, <1>11

LEMMA SendMessageImplements ==
  ASSUME RInv, IInv', UNCHANGED <<phase, wire, buffer, script, pos>>,
         NEW m \in Messages, SendMessage(m)
  PROVE  D!Deliver(m)
<1> PICK h : h = map[Key(m)]
  OBVIOUS
<1>0. IInv /\ TypeInv /\ MapInv
  BY DEF RInv, IInv, HandlerInv
<1>1. /\ m \notin Creators /\ at[m] = "spawned" /\ taken' = taken
      /\ \/ /\ h # Nobody
            /\ queue' = [queue EXCEPT ![h] = Append(queue[h], m)]
            /\ at' = [at EXCEPT ![m] = "handled", ![h] = Notified(@)]
         \/ /\ h = Nobody /\ queue' = queue
            /\ at' = [at EXCEPT ![m] = "handled"]
  BY DEF SendMessage, Goto, Creators
<1>2. h # Nobody => /\ h \in Creators /\ h \in Messages /\ h # m /\ Key(h) = Key(m)
                    /\ h.type # "OVERRIDECOMMIT"
  <2>1. h # Nobody => h \in Creators /\ Key(h) = Key(m)
    BY <1>0, NamesDiffer DEF TypeInv, MapInv
  <2>2. m.type # "OVERRIDECOMMIT"
    BY <1>1 DEF Creators, Creates
  <2>3. ASSUME h \in Creators, Key(h) = Key(m) PROVE h.type # "OVERRIDECOMMIT"
    BY <2>2, <2>3, MessageAssumption DEF Key
  <2> QED BY <1>1, <2>1, <2>3, NamesDiffer
<1>3. /\ at'[m] = "handled"
      /\ \A n \in Messages \ {m} : at'[n] = IF n = h THEN Notified(at[n]) ELSE at[n]
  <2>1. CASE h # Nobody
    <3>1. at' = [at EXCEPT ![m] = "handled", ![h] = Notified(@)] /\ at \in [Messages -> Labels]
      BY <1>0, <1>1, <2>1 DEF TypeInv
    <3>2. h \in Messages /\ h # m
      BY <1>2, <2>1
    <3> QED BY <3>1, <3>2
  <2>2. CASE h = Nobody
    <3>1. at' = [at EXCEPT ![m] = "handled"] /\ at \in [Messages -> Labels]
      BY <1>0, <1>1, <2>2 DEF TypeInv
    <3>2. \A n \in Messages : n # h
      BY <2>2, MessageAssumption DEF Nobody
    <3> QED BY <3>1, <3>2
  <2> QED BY <2>1, <2>2
<1>4. ASSUME NEW n \in Messages \ {m} PROVE Status(n)' = Status(n)
  <2>1. at'[n] = at[n] \/ (Made(n) /\ Made(n)')
    BY <1>3 DEF Notified, Made
  <2> QED BY <1>0, <2>1, ThreadStatus
<1>5. Status(m) = "net" /\ Status(m)' = "handled" /\ ~ Unsent(m)
  BY <1>0, <1>1, <1>3, StatusIs, StatusIsNext DEF StatusInv, StatusOf, Made
<1>6. D!Pass(m, "net", "handled")
  BY <1>4, <1>5, Passes
<1>7. m \in Due => D!HandlersOf(m) # {}
  <2> SUFFICES ASSUME m \in Due PROVE D!HandlersOf(m) # {}
    OBVIOUS
  <2>1. PICK c \in Senders : \E i \in 1..pos[c] : script[c][i] = m
    BY <1>5 DEF Unsent
  <2>2. MaySend(m)
    BY <1>0, <2>1 DEF IInv, NodeInv, DueInv
  <2>3. PICK g \in Creators : Key(g) = Key(m) /\ Made(g)
    BY <2>2 DEF MaySend
  <2>4. Stage(g) # "none"
    BY <2>3 DEF Stage, Made
  <2> QED BY <2>3, <2>4 DEF D!HandlersOf, StageBar
<1>8. ASSUME NEW g \in Creators PROVE Stage(g)' = Stage(g)
  <2>1. g \in Messages \ {m}
    BY <1>1, NamesDiffer
  <2>2. CASE at'[g] = at[g]
    BY <1>1, <2>2, StageKept
  <2>3. CASE at[g] = "blocked" /\ at'[g] = "waiting"
    BY <2>3 DEF Stage, Made
  <2> QED BY <1>3, <2>1, <2>2, <2>3 DEF Notified
<1>9. ASSUME NEW g \in Creators
      PROVE  Mail(g)' = IF g \in D!HandlersOf(m) /\ StageBar[g] \in {"running", "waiting"}
                        THEN Mail(g) \cup {m} ELSE Mail(g)
  <2>1. StageBar[g] = Stage(g) /\ Stage(g)' = Stage(g)
    BY <1>8 DEF StageBar
  <2>2. CASE Stage(g) \notin {"running", "waiting"}
    BY <2>1, <2>2 DEF Mail
  <2>3. CASE Stage(g) \in {"running", "waiting"}
    <3>1. at[g] \in InMap
      BY <2>3 DEF Stage, Made, InMap
    <3>2. g \in D!HandlersOf(m) <=> Key(g) = Key(m)
      BY <2>1, <2>3 DEF D!HandlersOf
    <3>3. CASE g = h
      <4>1. h # Nobody
        BY <3>3, NamesDiffer
      <4>2. queue'[g] = Append(queue[g], m) /\ queue[g] \in Seq(Messages)
        BY <1>0, <1>1, <1>2, <3>3, <4>1 DEF TypeInv
      <4>3. Range(queue'[g]) = Range(queue[g]) \cup {m}
        BY <4>2, RangeOfAppend
      <4> QED BY <1>2, <2>1, <2>3, <3>2, <3>3, <4>1, <4>3 DEF Mail
    <3>4. CASE g # h
      <4>1. Key(g) # Key(m)
        <5> SUFFICES ASSUME Key(g) = Key(m) PROVE FALSE
          OBVIOUS
        <5>1. m.type # "OVERRIDECOMMIT"
          BY <1>1 DEF Creators, Creates
        <5>2. g.type # "OVERRIDECOMMIT"
          BY <5>1, MessageAssumption DEF Key
        <5>3. map[Key(g)] = g
          BY <1>0, <3>1, <5>2 DEF MapInv
        <5> QED BY <3>4, <5>3
      <4>2. queue'[g] = queue[g]
        BY <1>0, <1>1, <1>2, <3>4 DEF TypeInv
      <4> QED BY <2>1, <3>2, <4>1, <4>2 DEF Mail
    <3> QED BY <3>3, <3>4
  <2> QED BY <2>2, <2>3
<1>10. UNCHANGED <<Dead, StageBar>>
  BY <1>8 DEF Dead, StageBar
<1>11. MailBar' = [g \in Creators |->
                    IF g \in D!HandlersOf(m) /\ StageBar[g] \in {"running", "waiting"}
                    THEN MailBar[g] \cup {m} ELSE MailBar[g]]
  BY <1>9 DEF MailBar
<1> QED BY <1>1, <1>6, <1>7, <1>10, <1>11 DEF D!Deliver
-----------------------------------------------------------------------------
LEMMA NextImplements == RInv /\ RInv' /\ [Next]_vars => [D!DeliveryNext]_(D!deliveryVars)
<1> SUFFICES ASSUME RInv, RInv', [Next]_vars
             PROVE  D!DeliveryNext \/ UNCHANGED D!deliveryVars
  OBVIOUS
<1>0. IInv /\ IInv'
  BY DEF RInv
<1>1. ASSUME NEW c \in Connections, Send(c) PROVE D!DeliveryNext
  BY <1>0, <1>1, SendImplements DEF D!DeliveryNext
<1>2. ASSUME NEW c \in Connections, HandleConnection(c) \/ ClientStep(c)
      PROVE  UNCHANGED D!deliveryVars
  BY <1>0, <1>2, HandleConnectionStutters, ClientStepStutters
<1>3. ASSUME NEW c \in Connections, CloseConnection(c) PROVE D!DeliveryNext
  BY <1>0, <1>3, CloseImplements DEF D!DeliveryNext, Senders
<1>4. CASE ClientRequest
  BY <1>0, <1>4, ClientRequestImplements DEF D!DeliveryNext
<1>5. ASSUME NEW m \in Messages, HandlerStep(m)
      PROVE  D!DeliveryNext \/ UNCHANGED D!deliveryVars
  <2>0. UNCHANGED <<phase, wire, buffer, script, pos>> /\ ThreadStep(m)
    BY <1>5 DEF HandlerStep, tcpVars
  <2>1. CASE SendMessage(m)
    BY <1>0, <2>0, <2>1, SendMessageImplements DEF D!DeliveryNext
  <2>2. CASE BeginCreate(m)
    BY <1>0, <2>0, <2>2, BeginCreateStutters
  <2>3. CASE EndCreate(m)
    BY <1>0, <2>0, <2>3, EndCreateImplements DEF D!DeliveryNext
  <2>4. CASE m \in Creators /\ StartWaiting(m)
    BY <1>0, <2>0, <2>4, StartWaitingImplements DEF D!DeliveryNext
  <2>5. CASE m \in Creators /\ Take(m)
    BY <1>0, <2>0, <2>5, TakeImplements DEF D!DeliveryNext
  <2>6. CASE m \in Creators /\ (Block(m) \/ RemoveFromMap(m))
    BY <1>0, <2>0, <2>6, BlockStutters, RemoveFromMapStutters
  <2>7. CASE m \in Creators /\ TimeOut(m)
    BY <1>0, <2>0, <2>7, TimeOutImplements DEF D!DeliveryNext
  <2> QED BY <2>0, <2>1, <2>2, <2>3, <2>4, <2>5, <2>6, <2>7 DEF ThreadStep
<1>6. CASE UNCHANGED vars
  <2>1. \A m \in Messages : Status(m)' = Status(m)
    BY <1>0, <1>6, ThreadStatus DEF vars
  <2>2. UNCHANGED <<Dead, StageBar, MailBar>>
    BY <1>6, HandlersKept DEF vars, Dead
  <2> QED BY <2>1, <2>2, Stutters
<1> QED BY <1>1, <1>2, <1>3, <1>4, <1>5, <1>6 DEF Next

LEMMA InitImplements == Init => D!DeliveryInit
<1> SUFFICES ASSUME Init PROVE D!DeliveryInit
  OBVIOUS
<1>1. /\ phase = [c \in Connections |-> "idle"] /\ at = [m \in Messages |-> "none"]
      /\ pos = [c \in Senders |-> 0]
  BY DEF Init, TcpInit, HandlerInit
<1>2. ASSUME NEW m \in Messages PROVE Status(m) = "unsent"
  <2>1. ~ OnItsWay(m)
    BY <1>1 DEF OnItsWay
  <2>2. at[m] = "none" /\ Unsent(m)
    BY <1>1 DEF Unsent
  <2> QED BY <2>1, <2>2, InitHolds, StatusIs DEF StatusInv, StatusOf
<1>3. ASSUME NEW h \in Creators PROVE Stage(h) = "none" /\ Mail(h) = {}
  <2>1. at[h] = "none"
    BY <1>1, NamesDiffer
  <2>2. Stage(h) = "none"
    BY <2>1 DEF Stage, Made
  <2> QED BY <2>2 DEF Mail
<1>4. Dead = {}
  BY <1>1 DEF Dead
<1> QED BY <1>2, <1>3, <1>4 DEF D!DeliveryInit, StatusBar, StageBar, MailBar

(* Threads, maps and queues under mapMutex, and streams that recv cuts     *)
(* anywhere, deliver as the protocols assume it: each message once, to the *)
(* handler of its transaction, lost only if its sender dies; a handler     *)
(* times out only with no message in its queue.                            *)
THEOREM NodeDelivers == Spec => ImplementsDelivery
<1>1. Spec => D!DeliverySpec
  BY RInvHolds, InitImplements, NextImplements, PTL DEF Spec, D!DeliverySpec
<1> QED BY <1>1 DEF ImplementsDelivery
=============================================================================
