-------------------------- MODULE CornusNodeProofs --------------------------
(***************************************************************************)
(* Proofs about CornusNode, for all messages, scripts and sizes.  The      *)
(* inductive invariant has one part about the handlers, which the threads  *)
(* and the arrival of new requests keep, and one about the connections.    *)
(***************************************************************************)
EXTENDS CornusNode, TcpConnectionProofs

Keys == {Key(m) : m \in Messages}

Labels == {"none", "spawned", "creating", "running", "waiting", "blocked",
           "ended", "handled"}
InMap == {"running", "waiting", "blocked", "ended"}

TypeInv ==
  /\ at \in [Messages -> Labels]
  /\ \A m \in Messages : at[m] \in {"creating"} \cup InMap => m \in Creators
  /\ mapMutex \in Creators \cup {Nobody}
  /\ map \in [Keys -> Creators \cup {Nobody}]
  /\ queue \in [Creators -> Seq(Messages)]
  /\ taken \in [Creators -> Seq(Messages \cup {NoMessage})]

(* A handler ends with the last message that it needs, or with none. *)
TakenOK(h) ==
  /\ at[h] \in {"none", "spawned", "creating", "running"} => taken[h] = <<>>
  /\ at[h] \in {"waiting", "blocked"} => Len(taken[h]) < Needs(h)
  /\ at[h] \in {"ended", "handled"} => Len(taken[h]) <= Needs(h)
  /\ at[h] \notin {"ended", "handled"} => NoMessage \notin Range(taken[h])

TakenInv == \A h \in Creators : TakenOK(h)

(* The maps hold the handlers that are there.  A Committer may have been   *)
(* replaced by another.                                                    *)
MapInv ==
  /\ \A k \in Keys : map[k] # Nobody => Key(map[k]) = k
  /\ \A h \in Creators :
       h.type # "OVERRIDECOMMIT" => (map[Key(h)] = h <=> at[h] \in InMap)

(* A queue holds messages whose threads have ended, each once. *)
QueueInv ==
  \A h \in Creators :
    /\ \A i, j \in 1..Len(queue[h]) : queue[h][i] = queue[h][j] => i = j
    /\ \A i \in 1..Len(queue[h]) :
         queue[h][i] \notin Creators /\ at[queue[h][i]] = "handled"

HandlerInv == TypeInv /\ NoLostWakeup /\ TakenInv /\ MapInv /\ QueueInv

LEMMA NamesDiffer ==
  /\ Nobody \notin Creators
  /\ NoMessage \notin Messages
  /\ Creators \subseteq Messages
  /\ \A h \in Creators : Needs(h) \in Nat
  /\ \A m \in Messages : Key(m) \in Keys
BY MessageAssumption, VotesAssumption DEF Nobody, NoMessage, Creators, Creates, Needs, Keys

LEMMA HandlerInitHolds == HandlerInit => HandlerInv
<1> SUFFICES ASSUME HandlerInit PROVE HandlerInv
  OBVIOUS
<1>1. TypeInv /\ NoLostWakeup
  BY NamesDiffer DEF HandlerInit, TypeInv, NoLostWakeup, Keys, Labels, InMap
<1>2. TakenInv
  BY NamesDiffer DEF HandlerInit, TakenInv, TakenOK, Range
<1>3. MapInv
  BY NamesDiffer DEF HandlerInit, MapInv, Keys, InMap
<1>4. QueueInv
  BY DEF HandlerInit, QueueInv
<1> QED BY <1>1, <1>2, <1>3, <1>4 DEF HandlerInv

(* A step that leaves maps, queues and what was taken alone, and moves     *)
(* threads without taking a handler into the map or out of it.             *)
LEMMA MovesKeep ==
  ASSUME HandlerInv, TypeInv', TakenInv', map' = map, queue' = queue,
         \A h \in Creators : /\ at'[h] = "blocked" => queue[h] = <<>>
                             /\ at[h] \in InMap <=> at'[h] \in InMap,
         \A m \in Messages \ Creators : at[m] = "handled" => at'[m] = "handled"
  PROVE  HandlerInv'
<1>1. NoLostWakeup'
  BY DEF NoLostWakeup
<1>2. MapInv'
  BY DEF HandlerInv, MapInv
<1>3. QueueInv'
  <2> SUFFICES ASSUME NEW h \in Creators
               PROVE  /\ \A i, j \in 1..Len(queue[h]) : queue[h][i] = queue[h][j] => i = j
                      /\ \A i \in 1..Len(queue[h]) :
                           queue[h][i] \notin Creators /\ at'[queue[h][i]] = "handled"
    BY DEF QueueInv
  <2>1. \A i \in 1..Len(queue[h]) : queue[h][i] \in Messages
    BY DEF HandlerInv, TypeInv
  <2> QED BY <2>1 DEF HandlerInv, QueueInv
<1> QED BY <1>1, <1>2, <1>3 DEF HandlerInv

LEMMA SpawnKeeps ==
  ASSUME HandlerInv, NEW ms \in SUBSET {m \in Messages : at[m] = "none"}, Spawn(ms)
  PROVE  HandlerInv'
<1>1. TypeInv'
  BY DEF Spawn, HandlerInv, TypeInv, Labels, InMap
<1>2. TakenInv'
  BY NamesDiffer DEF Spawn, HandlerInv, TakenInv, TakenOK
<1>3. \A h \in Creators : /\ at'[h] = "blocked" => queue[h] = <<>>
                          /\ at[h] \in InMap <=> at'[h] \in InMap
  BY NamesDiffer DEF Spawn, HandlerInv, NoLostWakeup, InMap
<1>4. \A m \in Messages \ Creators : at[m] = "handled" => at'[m] = "handled"
  BY DEF Spawn
<1> QED BY <1>1, <1>2, <1>3, <1>4, MovesKeep DEF Spawn

LEMMA BeginCreateKeeps ==
  ASSUME HandlerInv, NEW m \in Messages, BeginCreate(m) PROVE HandlerInv'
<1>1. TypeInv'
  BY DEF BeginCreate, Goto, HandlerInv, TypeInv, Labels, InMap
<1>2. TakenInv'
  BY NamesDiffer DEF BeginCreate, Goto, HandlerInv, TypeInv, TakenInv, TakenOK
<1>3. \A h \in Creators : /\ at'[h] = "blocked" => queue[h] = <<>>
                          /\ at[h] \in InMap <=> at'[h] \in InMap
  BY NamesDiffer DEF BeginCreate, Goto, HandlerInv, TypeInv, NoLostWakeup, InMap
<1>4. \A n \in Messages \ Creators : at[n] = "handled" => at'[n] = "handled"
  BY DEF BeginCreate, Goto, HandlerInv, TypeInv
<1> QED BY <1>1, <1>2, <1>3, <1>4, MovesKeep DEF BeginCreate

LEMMA StartWaitingKeeps ==
  ASSUME HandlerInv, NEW h \in Creators, StartWaiting(h) PROVE HandlerInv'
<1>1. TypeInv'
  BY NamesDiffer DEF StartWaiting, Goto, HandlerInv, TypeInv, Labels, InMap
<1>2. TakenInv'
  <2> SUFFICES ASSUME NEW g \in Creators PROVE TakenOK(g)'
    BY DEF TakenInv
  <2>1. CASE g = h
    <3>1. taken[g] = <<>> /\ taken' = taken /\ NoMessage \notin Range(taken[g])
      BY <2>1 DEF StartWaiting, HandlerInv, TakenInv, TakenOK
    <3>2. at'[g] = IF Needs(g) = 0 THEN "ended" ELSE "waiting"
      BY <2>1, NamesDiffer DEF StartWaiting, Goto, HandlerInv, TypeInv
    <3>3. Len(taken'[g]) = 0
      BY <3>1
    <3> QED BY <3>1, <3>2, <3>3, NamesDiffer DEF TakenOK
  <2>2. CASE g # h
    BY <2>2, NamesDiffer DEF StartWaiting, Goto, HandlerInv, TypeInv, TakenInv, TakenOK
  <2> QED BY <2>1, <2>2
<1>3. \A g \in Creators : /\ at'[g] = "blocked" => queue[g] = <<>>
                          /\ at[g] \in InMap <=> at'[g] \in InMap
  BY NamesDiffer DEF StartWaiting, Goto, HandlerInv, TypeInv, NoLostWakeup, InMap
<1>4. \A n \in Messages \ Creators : at[n] = "handled" => at'[n] = "handled"
  BY DEF StartWaiting, Goto, HandlerInv, TypeInv
<1> QED BY <1>1, <1>2, <1>3, <1>4, MovesKeep DEF StartWaiting

LEMMA BlockKeeps ==
  ASSUME HandlerInv, NEW h \in Creators, Block(h) PROVE HandlerInv'
<1>1. TypeInv'
  BY NamesDiffer DEF Block, Goto, HandlerInv, TypeInv, Labels, InMap
<1>2. TakenInv'
  BY NamesDiffer DEF Block, Goto, HandlerInv, TypeInv, TakenInv, TakenOK
<1>3. \A g \in Creators : /\ at'[g] = "blocked" => queue[g] = <<>>
                          /\ at[g] \in InMap <=> at'[g] \in InMap
  BY NamesDiffer DEF Block, Goto, HandlerInv, TypeInv, NoLostWakeup, InMap
<1>4. \A n \in Messages \ Creators : at[n] = "handled" => at'[n] = "handled"
  BY DEF Block, Goto, HandlerInv, TypeInv
<1> QED BY <1>1, <1>2, <1>3, <1>4, MovesKeep DEF Block

LEMMA EndCreateKeeps ==
  ASSUME HandlerInv, NEW m \in Messages, EndCreate(m) PROVE HandlerInv'
<1>0. m \in Creators
  BY DEF EndCreate, HandlerInv, TypeInv
<1>1. TypeInv'
  BY <1>0, NamesDiffer DEF EndCreate, Goto, HandlerInv, TypeInv, Labels, InMap
<1>2. NoLostWakeup'
  BY <1>0, NamesDiffer DEF EndCreate, Goto, HandlerInv, TypeInv, NoLostWakeup
<1>3. TakenInv'
  BY NamesDiffer DEF EndCreate, Goto, HandlerInv, TypeInv, TakenInv, TakenOK
<1>4. MapInv'
  <2>1. /\ at' = [at EXCEPT ![m] = "running"]
        /\ map' = [map EXCEPT ![Key(m)] = m]
    BY DEF EndCreate, Goto
  <2>2. \A k \in Keys : map'[k] # Nobody => Key(map'[k]) = k
    BY <2>1 DEF HandlerInv, TypeInv, MapInv
  <2>3. ASSUME NEW h \in Creators, h.type # "OVERRIDECOMMIT"
        PROVE  map'[Key(h)] = h <=> at'[h] \in InMap
    <3>1. CASE h = m
      BY <2>1, <3>1, NamesDiffer DEF HandlerInv, TypeInv, InMap
    <3>2. CASE h # m
      <4>1. Key(h) # Key(m)
        BY <1>0, <2>3, <3>2, HandlerAssumption
      <4>2. map'[Key(h)] = map[Key(h)] /\ at'[h] = at[h]
        BY <2>1, <3>2, <4>1, NamesDiffer DEF HandlerInv, TypeInv
      <4> QED BY <2>3, <4>2 DEF HandlerInv, MapInv
    <3> QED BY <3>1, <3>2
  <2> QED BY <2>2, <2>3 DEF MapInv
<1>5. QueueInv'
  <2>1. \A h \in Creators : \A i \in 1..Len(queue[h]) : queue[h][i] \in Messages
    BY DEF HandlerInv, TypeInv
  <2> QED BY <1>0, <2>1 DEF EndCreate, Goto, HandlerInv, TypeInv, QueueInv
<1> QED BY <1>1, <1>2, <1>3, <1>4, <1>5 DEF HandlerInv

LEMMA RemoveFromMapKeeps ==
  ASSUME HandlerInv, NEW h \in Creators, RemoveFromMap(h) PROVE HandlerInv'
<1>0. /\ at[h] = "ended" /\ at' = [at EXCEPT ![h] = "handled"]
      /\ map' = [map EXCEPT ![Key(h)] = Nobody]
      /\ UNCHANGED <<mapMutex, queue, taken>>
  BY DEF RemoveFromMap, Goto, Erased
<1>1. TypeInv'
  BY <1>0, NamesDiffer DEF HandlerInv, TypeInv, Labels, InMap
<1>2. NoLostWakeup'
  BY <1>0, NamesDiffer DEF HandlerInv, TypeInv, NoLostWakeup
<1>3. TakenInv'
  BY <1>0, NamesDiffer DEF HandlerInv, TypeInv, TakenInv, TakenOK
<1>4. MapInv'
  <2>1. \A k \in Keys : map'[k] # Nobody => Key(map'[k]) = k
    BY <1>0 DEF HandlerInv, TypeInv, MapInv
  <2>2. ASSUME NEW g \in Creators, g.type # "OVERRIDECOMMIT"
        PROVE  map'[Key(g)] = g <=> at'[g] \in InMap
    <3>1. CASE g = h
      BY <1>0, <3>1, NamesDiffer DEF HandlerInv, TypeInv, InMap
    <3>2. CASE g # h
      <4>1. Key(g) # Key(h)
        BY <2>2, <3>2, HandlerAssumption
      <4>2. map'[Key(g)] = map[Key(g)] /\ at'[g] = at[g]
        BY <1>0, <3>2, <4>1, NamesDiffer DEF HandlerInv, TypeInv
      <4> QED BY <2>2, <4>2 DEF HandlerInv, MapInv
    <3> QED BY <3>1, <3>2
  <2> QED BY <2>1, <2>2 DEF MapInv
<1>5. QueueInv'
  <2>1. \A g \in Creators : \A i \in 1..Len(queue[g]) : queue[g][i] \in Messages
    BY DEF HandlerInv, TypeInv
  <2> QED BY <1>0, <2>1 DEF HandlerInv, TypeInv, QueueInv
<1> QED BY <1>1, <1>2, <1>3, <1>4, <1>5 DEF HandlerInv

LEMMA RangeOfAppend ==
  ASSUME NEW T, NEW q \in Seq(T), NEW x \in T
  PROVE  Range(Append(q, x)) = Range(q) \cup {x}
<1> PICK r : r = Append(q, x)
  OBVIOUS
<1>1. /\ r \in Seq(T) /\ Len(r) = Len(q) + 1 /\ Len(q) \in Nat
      /\ \A i \in 1..Len(q) : r[i] = q[i]
      /\ r[Len(q) + 1] = x
  BY AppendProperties
<1>2. Range(q) = {q[i] : i \in 1..Len(q)}
  BY RangeEquality
<1>3. Range(r) = {r[i] : i \in 1..Len(q) + 1}
  <2>1. r \in Seq(T) /\ Len(r) = Len(q) + 1
    BY <1>1
  <2>2. DOMAIN r = 1..Len(q) + 1
    BY <2>1
  <2> QED BY <2>2 DEF Range
<1>4. \A i \in 1..Len(q) + 1 : i \in 1..Len(q) \/ i = Len(q) + 1
  BY <1>1
<1>5. \A i \in 1..Len(q) : i \in 1..Len(q) + 1
  BY <1>1
<1>6. Len(q) + 1 \in 1..Len(q) + 1
  BY <1>1
<1> QED BY <1>1, <1>2, <1>3, <1>4, <1>5, <1>6

(* What one more wait of h has returned. *)
LEMMA TakenGrows ==
  ASSUME HandlerInv, NEW h \in Creators, NEW x \in Messages \cup {NoMessage}
  PROVE  /\ Append(taken[h], x) \in Seq(Messages \cup {NoMessage})
         /\ Len(Append(taken[h], x)) = Len(taken[h]) + 1
         /\ Len(taken[h]) \in Nat
         /\ Range(Append(taken[h], x)) = Range(taken[h]) \cup {x}
<1>1. taken[h] \in Seq(Messages \cup {NoMessage})
  BY DEF HandlerInv, TypeInv
<1> QED BY <1>1, AppendProperties, RangeOfAppend

LEMMA TimeOutKeeps ==
  ASSUME HandlerInv, NEW h \in Creators, TimeOut(h) PROVE HandlerInv'
<1>0. /\ at[h] \in {"waiting", "blocked"} /\ at' = [at EXCEPT ![h] = "ended"]
      /\ taken' = [taken EXCEPT ![h] = Append(taken[h], NoMessage)]
      /\ UNCHANGED <<mapMutex, map, queue>>
  BY DEF TimeOut, Goto
<1>1. TypeInv'
  BY <1>0, TakenGrows, NamesDiffer DEF HandlerInv, TypeInv, Labels, InMap
<1>2. TakenInv'
  <2> SUFFICES ASSUME NEW g \in Creators PROVE TakenOK(g)'
    BY DEF TakenInv
  <2>1. CASE g = h
    <3>1. Len(taken'[h]) = Len(taken[h]) + 1 /\ Len(taken[h]) \in Nat
      BY <1>0, TakenGrows DEF HandlerInv, TypeInv
    <3>2. Len(taken[h]) < Needs(h)
      BY <1>0 DEF HandlerInv, TakenInv, TakenOK
    <3>3. at'[h] = "ended"
      BY <1>0, NamesDiffer DEF HandlerInv, TypeInv
    <3> QED BY <2>1, <3>1, <3>2, <3>3, NamesDiffer DEF TakenOK
  <2>2. CASE g # h
    BY <1>0, <2>2, NamesDiffer DEF HandlerInv, TypeInv, TakenInv, TakenOK
  <2> QED BY <2>1, <2>2
<1>3. \A g \in Creators : /\ at'[g] = "blocked" => queue[g] = <<>>
                          /\ at[g] \in InMap <=> at'[g] \in InMap
  BY <1>0, NamesDiffer DEF HandlerInv, TypeInv, NoLostWakeup, InMap
<1>4. \A n \in Messages \ Creators : at[n] = "handled" => at'[n] = "handled"
  BY <1>0 DEF HandlerInv, TypeInv
<1> QED BY <1>0, <1>1, <1>2, <1>3, <1>4, MovesKeep

LEMMA TakeKeeps ==
  ASSUME HandlerInv, NEW h \in Creators, Take(h) PROVE HandlerInv'
<1> DEFINE m == Head(queue[h])
           l == IF m.type = "ABORT" \/ Len(taken'[h]) = Needs(h) THEN "ended" ELSE "waiting"
<1>0. /\ at[h] = "waiting" /\ at' = [at EXCEPT ![h] = l] /\ l \in {"ended", "waiting"}
      /\ queue' = [queue EXCEPT ![h] = Tail(queue[h])]
      /\ taken' = [taken EXCEPT ![h] = Append(taken[h], m)]
      /\ UNCHANGED <<mapMutex, map>>
  BY DEF Take, Goto
<1>1. /\ m \in Messages /\ Tail(queue[h]) \in Seq(Messages)
      /\ Len(queue[h]) \in Nat
      /\ Len(Tail(queue[h])) = Len(queue[h]) - 1
      /\ \A i \in 1..Len(Tail(queue[h])) : Tail(queue[h])[i] = queue[h][i + 1]
  <2>1. queue[h] \in Seq(Messages) /\ queue[h] # <<>>
    BY DEF Take, HandlerInv, TypeInv
  <2> QED BY <2>1, HeadTailProperties
<1> DEFINE t == Append(taken[h], m)
<1>2. /\ t \in Seq(Messages \cup {NoMessage})
      /\ Len(t) = Len(taken[h]) + 1 /\ Len(taken[h]) \in Nat
      /\ Range(t) = Range(taken[h]) \cup {m}
  BY <1>1, TakenGrows
<1>3. /\ at'[h] = l /\ taken'[h] = t /\ queue'[h] = Tail(queue[h])
      /\ \A g \in Creators \ {h} : /\ at'[g] = at[g] /\ taken'[g] = taken[g]
                                   /\ queue'[g] = queue[g]
      /\ \A n \in Messages \ Creators : at'[n] = at[n]
  BY <1>0, NamesDiffer DEF HandlerInv, TypeInv
<1>4. TypeInv'
  <2> HIDE DEF m, l, t
  <2> QED BY <1>0, <1>1, <1>2, NamesDiffer DEF t, HandlerInv, TypeInv, Labels, InMap
<1>5. TakenInv'
  <2> SUFFICES ASSUME NEW g \in Creators PROVE TakenOK(g)'
    BY DEF TakenInv
  <2>1. CASE g = h
    <3>1. /\ Len(taken[h]) < Needs(h) /\ NoMessage \notin Range(taken[h])
      BY <1>0 DEF HandlerInv, TakenInv, TakenOK
    <3>2. NoMessage \notin Range(taken'[h])
      BY <1>1, <1>2, <1>3, <3>1, NamesDiffer
    <3>3. Len(taken'[h]) <= Needs(h) /\ (at'[h] = "waiting" => Len(taken'[h]) < Needs(h))
      BY <1>2, <1>3, <3>1, NamesDiffer
    <3> QED BY <1>0, <1>3, <2>1, <3>2, <3>3 DEF TakenOK
  <2>2. CASE g # h
    <3>1. at'[g] = at[g] /\ taken'[g] = taken[g]
      BY <1>3, <2>2
    <3> QED BY <3>1 DEF HandlerInv, TakenInv, TakenOK
  <2> QED BY <2>1, <2>2
<1>6. NoLostWakeup'
  BY <1>0, <1>3 DEF HandlerInv, NoLostWakeup
<1>7. MapInv'
  <2>1. \A g \in Creators : at[g] \in InMap <=> at'[g] \in InMap
    BY <1>0, <1>3 DEF InMap
  <2> QED BY <1>0, <2>1 DEF HandlerInv, MapInv
<1>8. QueueInv'
  <2> SUFFICES ASSUME NEW g \in Creators
               PROVE  /\ \A i, j \in 1..Len(queue'[g]) : queue'[g][i] = queue'[g][j] => i = j
                      /\ \A i \in 1..Len(queue'[g]) :
                           queue'[g][i] \notin Creators /\ at'[queue'[g][i]] = "handled"
    BY DEF QueueInv
  <2>0. \A i \in 1..Len(queue[g]) : queue[g][i] \in Messages
    BY DEF HandlerInv, TypeInv
  <2>1. CASE g = h
    <3>1. \A i \in 1..Len(queue'[h]) : i + 1 \in 1..Len(queue[h]) /\ queue'[h][i] = queue[h][i + 1]
      BY <1>1, <1>3
    <3>2. \A i \in 1..Len(queue'[h]) :
            queue'[h][i] \notin Creators /\ at'[queue'[h][i]] = "handled"
      BY <1>3, <2>0, <2>1, <3>1 DEF HandlerInv, QueueInv
    <3>3. ASSUME NEW i \in 1..Len(queue'[h]), NEW j \in 1..Len(queue'[h]),
                 queue'[h][i] = queue'[h][j]
          PROVE  i = j
      <4>1. queue[h][i + 1] = queue[h][j + 1]
        BY <3>1, <3>3
      <4>2. i + 1 = j + 1
        BY <3>1, <4>1 DEF HandlerInv, QueueInv
      <4>3. i \in Int /\ j \in Int
        OBVIOUS
      <4> QED BY <4>2, <4>3
    <3> QED BY <2>1, <3>2, <3>3
  <2>2. CASE g # h
    BY <1>3, <2>0, <2>2 DEF HandlerInv, QueueInv
  <2> QED BY <2>1, <2>2
<1> QED BY <1>4, <1>5, <1>6, <1>7, <1>8 DEF HandlerInv

LEMMA SendMessageKeeps ==
  ASSUME HandlerInv, NEW m \in Messages, SendMessage(m) PROVE HandlerInv'
<1> DEFINE h == map[Key(m)]
<1>0. /\ h \in Creators \cup {Nobody} /\ m \notin Creators /\ at[m] = "spawned"
      /\ UNCHANGED <<mapMutex, map, taken>>
  BY NamesDiffer DEF HandlerInv, TypeInv, SendMessage, Creators
<1>1. CASE h = Nobody
  <2>1. queue' = queue /\ at' = [at EXCEPT ![m] = "handled"]
    BY <1>1, NamesDiffer DEF SendMessage, Goto
  <2>2. TypeInv'
    BY <1>0, <2>1 DEF HandlerInv, TypeInv, Labels, InMap
  <2>3. \A g \in Creators : at'[g] = at[g]
    BY <1>0, <2>1, NamesDiffer DEF HandlerInv, TypeInv
  <2>4. TakenInv'
    BY <1>0, <2>3 DEF HandlerInv, TakenInv, TakenOK
  <2>5. \A n \in Messages \ Creators : at[n] = "handled" => at'[n] = "handled"
    BY <2>1 DEF HandlerInv, TypeInv
  <2>6. \A g \in Creators : /\ at'[g] = "blocked" => queue[g] = <<>>
                            /\ at[g] \in InMap <=> at'[g] \in InMap
    BY <2>3 DEF HandlerInv, NoLostWakeup
  <2> QED BY <1>0, <2>1, <2>2, <2>4, <2>5, <2>6, MovesKeep
<1>2. CASE h # Nobody
  <2>1. /\ h \in Creators /\ h \in Messages
        /\ queue' = [queue EXCEPT ![h] = Append(@, m)]
        /\ at' = [at EXCEPT ![m] = "handled", ![h] = Notified(@)]
    BY <1>0, <1>2, NamesDiffer DEF SendMessage
  <2> HIDE DEF h
  <2> DEFINE q == queue[h]
  <2>2. /\ q \in Seq(Messages) /\ Append(q, m) \in Seq(Messages)
        /\ Len(q) \in Nat /\ Len(Append(q, m)) = Len(q) + 1
        /\ \A i \in 1..Len(q) : Append(q, m)[i] = q[i]
        /\ Append(q, m)[Len(q) + 1] = m
    <3>1. q \in Seq(Messages)
      BY <2>1 DEF HandlerInv, TypeInv
    <3> HIDE DEF q
    <3> QED BY <3>1, AppendProperties
  <2>3. /\ at'[m] = "handled" /\ at'[h] = Notified(at[h]) /\ queue'[h] = Append(q, m)
        /\ \A g \in Creators \ {h} : at'[g] = at[g] /\ queue'[g] = queue[g]
        /\ \A n \in Messages \ Creators : n # m => at'[n] = at[n]
    BY <1>0, <2>1, NamesDiffer DEF HandlerInv, TypeInv
  <2>4. /\ at'[h] # "blocked"
        /\ \A g \in Creators : at[g] \in InMap <=> at'[g] \in InMap
    BY <2>3 DEF Notified, InMap
  <2>5. TypeInv'
    BY <1>0, <2>1, <2>2, NamesDiffer DEF HandlerInv, TypeInv, Notified, Labels, InMap
  <2>6. NoLostWakeup'
    BY <2>3, <2>4 DEF HandlerInv, NoLostWakeup
  <2>7. TakenInv'
    <3> SUFFICES ASSUME NEW g \in Creators PROVE TakenOK(g)'
      BY DEF TakenInv
    <3>1. at'[g] = at[g] \/ (at[g] = "blocked" /\ at'[g] = "waiting")
      BY <2>3 DEF Notified
    <3> QED BY <1>0, <3>1 DEF HandlerInv, TakenInv, TakenOK
  <2>8. MapInv'
    BY <1>0, <2>4 DEF HandlerInv, MapInv
  <2>9. QueueInv'
    <3> SUFFICES ASSUME NEW g \in Creators
                 PROVE  /\ \A i, j \in 1..Len(queue'[g]) : queue'[g][i] = queue'[g][j] => i = j
                        /\ \A i \in 1..Len(queue'[g]) :
                             queue'[g][i] \notin Creators /\ at'[queue'[g][i]] = "handled"
      BY DEF QueueInv
    <3>0. \A i \in 1..Len(queue[g]) :
            /\ queue[g][i] \in Messages \ Creators /\ queue[g][i] # m
            /\ at'[queue[g][i]] = "handled"
      <4>1. \A i \in 1..Len(queue[g]) : queue[g][i] \in Messages
        BY DEF HandlerInv, TypeInv
      <4> QED BY <1>0, <2>3, <4>1 DEF HandlerInv, QueueInv
    <3>1. CASE g = h
      <4>1. ASSUME NEW i \in 1..Len(queue'[h])
            PROVE  /\ i \in 1..Len(q) \/ i = Len(q) + 1
                   /\ i \in 1..Len(q) => queue'[h][i] = q[i]
                   /\ i = Len(q) + 1 => queue'[h][i] = m
        BY <2>2, <2>3
      <4>2. \A i \in 1..Len(queue'[h]) :
              queue'[h][i] \notin Creators /\ at'[queue'[h][i]] = "handled"
        BY <1>0, <2>3, <3>0, <3>1, <4>1
      <4>3. ASSUME NEW i \in 1..Len(queue'[h]), NEW j \in 1..Len(queue'[h]),
                   queue'[h][i] = queue'[h][j]
            PROVE  i = j
        <5>1. CASE i \in 1..Len(q) /\ j \in 1..Len(q)
          BY <2>1, <4>1, <4>3, <5>1 DEF HandlerInv, QueueInv
        <5>2. CASE i = Len(q) + 1 \/ j = Len(q) + 1
          BY <3>0, <3>1, <4>1, <4>3, <5>2
        <5> QED BY <4>1, <5>1, <5>2
      <4> QED BY <3>1, <4>2, <4>3
    <3>2. CASE g # h
      <4>1. queue'[g] = queue[g]
        BY <2>3, <3>2
      <4> QED BY <3>0, <4>1 DEF HandlerInv, QueueInv
    <3> QED BY <3>1, <3>2
  <2> QED BY <2>5, <2>6, <2>7, <2>8, <2>9 DEF HandlerInv
<1> QED BY <1>1, <1>2

(* What the threads of this node keep, however they are scheduled. *)
LEMMA ThreadStepKeeps ==
  ASSUME HandlerInv, NEW m \in Messages, ThreadStep(m) PROVE HandlerInv'
<1>1. CASE SendMessage(m) \/ BeginCreate(m) \/ EndCreate(m)
  BY <1>1, SendMessageKeeps, BeginCreateKeeps, EndCreateKeeps
<1>2. CASE m \in Creators /\ (StartWaiting(m) \/ Take(m) \/ Block(m))
  BY <1>2, StartWaitingKeeps, TakeKeeps, BlockKeeps
<1>3. CASE m \in Creators /\ (TimeOut(m) \/ RemoveFromMap(m))
  BY <1>3, TimeOutKeeps, RemoveFromMapKeeps
<1> QED BY <1>1, <1>2, <1>3 DEF ThreadStep
-----------------------------------------------------------------------------
(* The connections. *)

Words == {m.type : m \in Messages} \cup {m.tx \o m.from : m \in Messages} \cup {"config"}
Tokens == Words \cup {HeaderDelim, MessageEnd}

FrameOf(m) == Frame(Encode(m))

LEMMA FrameFacts ==
  ASSUME NEW m \in Messages
  PROVE  /\ FrameOf(m) \in Seq(Tokens)
         /\ Len(FrameOf(m)) \in Nat \ {0}
         /\ \A j \in 0..Len(FrameOf(m)) :
              Complete(SubSeq(FrameOf(m), 1, j)) <=> j = Len(FrameOf(m))
         /\ Decoded(FrameOf(m)) = Encode(m)
         /\ Consumed(Encode(m)) = Len(FrameOf(m))
<1> DEFINE e == <<m.type>>
           p == [i \in 1..Padding(m) |-> "config"]
           q == <<m.tx \o m.from>> \o p
<1>1. HeaderDelim \notin Words /\ MessageEnd \notin Words
  <2>1. \A n \in Messages : n.type # HeaderDelim /\ n.type # MessageEnd
    BY MessageAssumption DEF HeaderDelim, MessageEnd
  <2>2. \A n \in Messages : n.tx \o n.from # HeaderDelim /\ n.tx \o n.from # MessageEnd
    BY EncodingAssumption
  <2>3. "config" # HeaderDelim /\ "config" # MessageEnd
    BY DEF HeaderDelim, MessageEnd
  <2> QED BY <2>1, <2>2, <2>3 DEF Words
<1>2. e \in Seq(Words)
  <2>1. m.type \in Words
    BY DEF Words
  <2> QED BY <2>1
<1>3. p \in Seq(Words)
  <2>1. Padding(m) \in Nat
    <3>1. ConfigLength[m.tx] \in Nat
      BY ConfigAssumption
    <3> QED BY <3>1 DEF Padding
  <2>2. p \in [1..Padding(m) -> Words]
    BY DEF Words
  <2> QED BY <2>1, <2>2, SeqDef
<1>4. q \in Seq(Words)
  <2> DEFINE w == m.tx \o m.from
  <2>0. w \in Words
    BY DEF Words
  <2>1. <<w>> \in Seq(Words)
    <3> HIDE DEF w
    <3> QED BY <2>0
  <2> HIDE DEF p
  <2> QED BY <1>3, <2>1, ConcatProperties
<1>5. Encode(m) = Req(e, q)
  BY DEF Encode, Req
<1> HIDE DEF e, q
<1>6. IsFrame(FrameOf(m), Words, e, q)
  BY <1>1, <1>2, <1>4, <1>5, FrameShape DEF FrameOf
<1>7. FrameOf(m) \in Seq(Tokens) /\ Len(FrameOf(m)) \in Nat \ {0}
  <2>1. Len(e) \in Nat /\ Len(q) \in Nat
    BY <1>2, <1>4
  <2> QED BY <1>6, <2>1 DEF IsFrame, Tokens
<1>8. \A j \in 0..Len(FrameOf(m)) :
        Complete(SubSeq(FrameOf(m), 1, j)) <=> j = Len(FrameOf(m))
  BY <1>1, <1>2, <1>4, <1>5, FrameComplete DEF FrameOf
<1>9. Decoded(FrameOf(m)) = Encode(m) /\ Consumed(Encode(m)) = Len(FrameOf(m))
  BY <1>1, <1>2, <1>4, <1>5, FrameDecodes DEF FrameOf
<1> QED BY <1>7, <1>8, <1>9

NodeTypeInv ==
  /\ phase \in [Connections -> {"idle", "awaiting", "answered", "closed", "ended"}]
  /\ wire \in [Connections -> Seq(Tokens)]
  /\ buffer \in [Connections -> Seq(Tokens)]
  /\ script \in Scripts
  /\ pos \in [Senders -> Nat]
  /\ \A c \in Senders : pos[c] <= Len(script[c])

(* What a sender has sent last. *)
Request(c) == script[c][pos[c]]

(* Of the frame of that request, n tokens have been sent and k of these    *)
(* received; the request has not been seen yet.                            *)
Cut(c, k, n) ==
  /\ phase[c] \in {"awaiting", "closed"}
  /\ pos[c] > 0
  /\ Encodable(Encode(Request(c)))
  /\ at[Request(c)] = "none"
  /\ n \in 0..Len(FrameOf(Request(c))) /\ k \in 0..n
  /\ k < Len(FrameOf(Request(c)))
  /\ phase[c] = "awaiting" => n = Len(FrameOf(Request(c)))
  /\ buffer[c] = SubSeq(FrameOf(Request(c)), 1, k)
  /\ wire[c] = SubSeq(FrameOf(Request(c)), k + 1, n)

StreamOK(c) ==
  \/ buffer[c] = <<>> /\ wire[c] = <<>>
  \/ \E k, n \in Nat : Cut(c, k, n)

StreamInv == \A c \in Connections : StreamOK(c)

SentInv == \A m \in Messages : at[m] # "none" => ~ Unsent(m)

(* What answers a handler was sent after this had been made. *)
DueInv == \A c \in Senders : \A i \in 1..pos[c] : MaySend(script[c][i])

NodeInv == NodeTypeInv /\ StreamInv /\ SentInv /\ DueInv

LEMMA SentFacts ==
  ASSUME NodeTypeInv, NEW c \in Senders, NEW i \in 1..Len(script[c])
  PROVE  /\ script[c][i] \in Messages
         /\ script[c][i].from = c
         /\ script[c][i].type = "TRANSACTION" <=> c = Http
         /\ \A j \in 1..Len(script[c]) : script[c][i] = script[c][j] => i = j
<1>1. script \in Scripts /\ script[c] \in Seq(Messages)
  BY ScriptAssumption DEF NodeTypeInv
<1>2. DOMAIN script[c] = 1..Len(script[c])
  BY <1>1
<1> QED BY <1>1, <1>2, ScriptAssumption

LEMMA LengthIsNat == ASSUME NodeTypeInv, NEW c \in Senders PROVE Len(script[c]) \in Nat
<1>1. script[c] \in Seq(Messages)
  BY ScriptAssumption DEF NodeTypeInv
<1> QED BY <1>1

LEMMA RequestFacts ==
  ASSUME NodeTypeInv, NEW c \in Senders, pos[c] > 0
  PROVE  /\ Request(c) \in Messages /\ Request(c).from = c
         /\ Request(c).type = "TRANSACTION" <=> c = Http
         /\ ~ Unsent(Request(c))
<1>1. pos[c] \in 1..Len(script[c]) /\ pos[c] \in 1..pos[c]
  BY LengthIsNat DEF NodeTypeInv
<1> QED BY <1>1, SentFacts DEF Request, Unsent

LEMMA NextIsUnsent ==
  ASSUME NodeTypeInv, NEW c \in Senders, pos[c] < Len(script[c])
  PROVE  /\ Next1(c) \in Messages /\ Next1(c).from = c
         /\ Next1(c).type = "TRANSACTION" <=> c = Http
         /\ Unsent(Next1(c))
<1>0. pos[c] \in Nat /\ Len(script[c]) \in Nat
  BY LengthIsNat DEF NodeTypeInv
<1>1. pos[c] + 1 \in 1..Len(script[c])
  BY <1>0
<1>2. /\ Next1(c) \in Messages /\ Next1(c).from = c
      /\ Next1(c).type = "TRANSACTION" <=> c = Http
      /\ \A j \in 1..Len(script[c]) : script[c][pos[c] + 1] = script[c][j] => pos[c] + 1 = j
  BY <1>1, SentFacts DEF Next1
<1>3. ASSUME NEW d \in Senders, NEW i \in 1..pos[d], script[d][i] = Next1(c)
      PROVE  FALSE
  <2>1. i \in 1..Len(script[d]) /\ pos[d] \in Nat
    BY LengthIsNat DEF NodeTypeInv
  <2>2. d = c
    BY <1>2, <1>3, <2>1, SentFacts
  <2>3. pos[c] + 1 = i
    BY <1>2, <1>3, <2>1, <2>2 DEF Next1
  <2> QED BY <1>0, <1>3, <2>2, <2>3
<1> QED BY <1>2, <1>3 DEF Unsent

LEMMA NodeInitHolds == Init => NodeInv
<1> SUFFICES ASSUME Init PROVE NodeInv
  OBVIOUS
<1>1. NodeTypeInv
  <2>1. \A c \in Senders : Len(script[c]) \in Nat
    BY ScriptAssumption DEF Init
  <2> QED BY <2>1 DEF Init, TcpInit, NodeTypeInv
<1>2. StreamInv
  BY DEF Init, TcpInit, StreamInv, StreamOK
<1>3. SentInv
  BY DEF Init, HandlerInit, SentInv
<1>4. DueInv
  BY DEF Init, DueInv
<1> QED BY <1>1, <1>2, <1>3, <1>4 DEF NodeInv

(* What is in the buffer is no complete request. *)
LEMMA BufferIncomplete ==
  ASSUME NodeTypeInv, NEW c \in Connections, StreamOK(c) PROVE ~ Complete(buffer[c])
<1>1. CASE buffer[c] = <<>>
  BY <1>1 DEF Complete, Range
<1>2. ASSUME NEW k \in Nat, NEW l \in Nat, Cut(c, k, l) PROVE ~ Complete(buffer[c])
  <2>1. Request(c) \in Messages
    BY <1>2, RequestFacts DEF Cut, Senders
  <2>2. /\ k \in 0..Len(FrameOf(Request(c))) /\ k # Len(FrameOf(Request(c)))
        /\ buffer[c] = SubSeq(FrameOf(Request(c)), 1, k)
    BY <1>2, <2>1, FrameFacts DEF Cut
  <2> QED BY <2>1, <2>2, FrameFacts
<1> QED BY <1>1, <1>2 DEF StreamOK

(* What recv of n tokens finds: the end of the stream, or more of a frame. *)
LEMMA ReceiveCases ==
  ASSUME NodeTypeInv, NEW c \in Connections, StreamOK(c),
         NEW n \in Nat, MayReceive(c, n)
  PROVE  \/ /\ n = 0 /\ phase[c] = "closed" /\ wire[c] = <<>>
            /\ SubSeq(wire[c], n + 1, Len(wire[c])) = <<>>
            /\ Received(c, n) = buffer[c] /\ ~ Complete(Received(c, n))
         \/ /\ n > 0
            /\ \E k, l \in Nat :
                 /\ Cut(c, k, l) /\ k + n <= l
                 /\ Received(c, n) = SubSeq(FrameOf(Request(c)), 1, k + n)
                 /\ SubSeq(wire[c], n + 1, Len(wire[c]))
                      = SubSeq(FrameOf(Request(c)), k + n + 1, l)
<1>0. buffer[c] \in Seq(Tokens) /\ wire[c] \in Seq(Tokens)
  BY DEF NodeTypeInv
<1>1. CASE n = 0 /\ wire[c] = <<>>
  <2>1. phase[c] = "closed"
    BY <1>1 DEF MayReceive
  <2>2. SubSeq(wire[c], 1, 0) = <<>>
    BY SubSeqEmpty
  <2>3. SubSeq(wire[c], 1, Len(wire[c])) = <<>> /\ n + 1 = 1
    BY <1>1, SubSeqEmpty
  <2>4. buffer[c] \o <<>> = buffer[c]
    BY <1>0, ConcatEmptySeq
  <2>5. Received(c, n) = buffer[c]
    BY <1>1, <2>2, <2>4 DEF Received
  <2> QED BY <1>1, <2>1, <2>3, <2>5, BufferIncomplete
<1>2. CASE n # 0 \/ wire[c] # <<>>
  <2>1. n \in 1..Len(wire[c])
    BY <1>2 DEF MayReceive
  <2>2. PICK k \in Nat, l \in Nat : Cut(c, k, l)
    <3>1. wire[c] # <<>>
      BY <2>1
    <3> QED BY <3>1 DEF StreamOK
  <2> DEFINE F == FrameOf(Request(c))
             r == l - k - n
  <2>3. F \in Seq(Tokens) /\ Len(F) \in Nat
    BY <2>2, RequestFacts, FrameFacts DEF Cut, Senders
  <2> HIDE DEF F
  <2>4. /\ k <= l /\ l <= Len(F) /\ buffer[c] = SubSeq(F, 1, k)
        /\ wire[c] = SubSeq(F, k + 1, l)
    BY <2>2, <2>3 DEF Cut, F
  <2>5. Len(wire[c]) = l - k
    <3> DEFINE z == l - k
    <3>1. k + z = l /\ z \in Nat
      BY <2>4
    <3> HIDE DEF z
    <3>2. wire[c] = SubSeq(F, k + 1, k + z) /\ k + z <= Len(F)
      BY <2>4, <3>1
    <3>3. Len(wire[c]) = z
      BY <2>3, <3>1, <3>2, Slice
    <3> QED BY <3>3 DEF z
  <2>6. r \in Nat /\ k + n + r = l /\ k + n <= l
    <3>1. n \in 1..(l - k) /\ n \in Nat /\ k <= l
      BY <2>1, <2>4, <2>5
    <3> QED BY <3>1
  <2> HIDE DEF r
  <2>7. /\ SubSeq(F, 1, k) \o SubSeq(wire[c], 1, n) = SubSeq(F, 1, k + n)
        /\ SubSeq(wire[c], n + 1, Len(wire[c])) = SubSeq(F, k + n + 1, k + n + r)
    <3>1. wire[c] = SubSeq(F, k + 1, k + n + r) /\ k + n + r <= Len(F)
      BY <2>4, <2>6
    <3> QED BY <2>3, <2>6, <3>1, RecvMoves
  <2>8. Received(c, n) = SubSeq(F, 1, k + n)
    BY <2>4, <2>7 DEF Received
  <2>9. SubSeq(wire[c], n + 1, Len(wire[c])) = SubSeq(F, k + n + 1, l)
    BY <2>6, <2>7
  <2> QED BY <2>1, <2>2, <2>6, <2>8, <2>9 DEF F
<1> QED BY <1>1, <1>2

(* handle_connection takes the request of the client exactly when all of   *)
(* it is there.                                                            *)
LEMMA HandleConnectionCases ==
  ASSUME NodeInv, NEW c \in Connections, HandleConnection(c)
  PROVE  /\ UNCHANGED <<script, pos>>
         /\ \A d \in Connections \ {c} : UNCHANGED <<phase[d], wire[d], buffer[d]>>
         /\ \/ /\ phase[c] = "closed" /\ wire[c] = <<>> /\ UNCHANGED handlerVars
               /\ phase'[c] = "ended" /\ wire'[c] = <<>> /\ buffer'[c] = <<>>
            \/ /\ UNCHANGED <<phase[c], handlerVars>>
               /\ \E k, l, n \in Nat :
                    /\ Cut(c, k, l) /\ n > 0 /\ k + n <= l
                    /\ k + n < Len(FrameOf(Request(c)))
                    /\ buffer'[c] = SubSeq(FrameOf(Request(c)), 1, k + n)
                    /\ wire'[c] = SubSeq(FrameOf(Request(c)), k + n + 1, l)
            \/ /\ \E k, l \in Nat : Cut(c, k, l) /\ l = Len(FrameOf(Request(c)))
               /\ phase'[c] = IF phase[c] = "awaiting" THEN "answered" ELSE phase[c]
               /\ wire'[c] = <<>> /\ buffer'[c] = <<>>
               /\ Spawn({Request(c)})
<1> DEFINE F == FrameOf(Request(c))
<1>0. NodeTypeInv /\ StreamOK(c)
  BY DEF NodeInv, StreamInv
<1>1. PICK n \in 0..MaxMessageSize :
        LET b == Received(c, n)
            calls == Complete(b) /\ HasCallback(Decoded(b))
        IN  /\ Receive(c, n, calls)
            /\ IF calls THEN Spawn({m \in Messages : Encode(m) = Decoded(b)})
                        ELSE UNCHANGED handlerVars
            /\ UNCHANGED <<script, pos>>
  BY DEF HandleConnection
<1> DEFINE b == Received(c, n)
           calls == Complete(b) /\ HasCallback(Decoded(b))
           rest == SubSeq(wire[c], n + 1, Len(wire[c]))
           left == SubSeq(b, Consumed(Decoded(b)) + 1, Len(b))
<1>2. /\ MayReceive(c, n)
      /\ wire' = [wire EXCEPT ![c] = rest]
      /\ buffer' = [buffer EXCEPT ![c] =
           CASE n = 0 -> <<>>
             [] n > 0 /\ Complete(b) -> left
             [] OTHER -> b]
      /\ phase' = [phase EXCEPT ![c] =
           CASE n = 0 -> "ended"
             [] n > 0 /\ @ = "awaiting" /\ Complete(b) /\ calls -> "answered"
             [] OTHER -> @]
      /\ IF calls THEN Spawn({m \in Messages : Encode(m) = Decoded(b)})
                  ELSE UNCHANGED handlerVars
      /\ UNCHANGED <<script, pos>>
  BY <1>1 DEF Receive
<1> HIDE DEF b, calls, rest, left
<1>3. \A d \in Connections \ {c} : UNCHANGED <<phase[d], wire[d], buffer[d]>>
  BY <1>0, <1>2 DEF NodeTypeInv
<1>4. /\ wire'[c] = rest
      /\ buffer'[c] = CASE n = 0 -> <<>>
                        [] n > 0 /\ Complete(b) -> left
                        [] OTHER -> b
      /\ phase'[c] = CASE n = 0 -> "ended"
                       [] n > 0 /\ phase[c] = "awaiting" /\ Complete(b) /\ calls -> "answered"
                       [] OTHER -> phase[c]
  BY <1>0, <1>2 DEF NodeTypeInv
<1>5. n \in Nat
  BY SizeAssumption
<1>6. CASE n = 0 /\ phase[c] = "closed" /\ wire[c] = <<>> /\ rest = <<>> /\ ~ Complete(b)
  BY <1>2, <1>3, <1>4, <1>6 DEF calls
<1>7. ASSUME n > 0,
             NEW k \in Nat, NEW l \in Nat, Cut(c, k, l), k + n <= l,
             b = SubSeq(F, 1, k + n), rest = SubSeq(F, k + n + 1, l)
      PROVE  \/ /\ UNCHANGED <<phase[c], handlerVars>>
                /\ k + n < Len(F) /\ buffer'[c] = b /\ wire'[c] = rest
             \/ /\ l = Len(F)
                /\ phase'[c] = IF phase[c] = "awaiting" THEN "answered" ELSE phase[c]
                /\ wire'[c] = <<>> /\ buffer'[c] = <<>>
                /\ Spawn({Request(c)})
  <2>1. /\ Request(c) \in Messages
        /\ Request(c).type # "TRANSACTION"
    BY <1>0, <1>7, RequestFacts, ScriptAssumption DEF Cut, Senders
  <2>2. /\ F \in Seq(Tokens) /\ Len(F) \in Nat
        /\ Decoded(F) = Encode(Request(c)) /\ Consumed(Encode(Request(c))) = Len(F)
        /\ \A j \in 0..Len(F) : Complete(SubSeq(F, 1, j)) <=> j = Len(F)
    BY <2>1, FrameFacts
  <2>3. l <= Len(F)
    BY <1>7, <2>2 DEF Cut
  <2> HIDE DEF F
  <2>4. k + n \in 0..Len(F)
    BY <1>5, <1>7, <2>2, <2>3
  <2>5. CASE k + n # Len(F)
    <3>1. ~ Complete(b)
      BY <1>7, <2>2, <2>4, <2>5
    <3>2. buffer'[c] = b /\ phase'[c] = phase[c] /\ UNCHANGED handlerVars
      <4>1. ~ calls /\ n # 0
        BY <1>5, <1>7, <3>1 DEF calls
      <4> QED BY <1>2, <1>4, <3>1, <4>1
    <3>3. k + n < Len(F)
      BY <2>2, <2>4, <2>5
    <3> QED BY <1>4, <3>2, <3>3
  <2>6. CASE k + n = Len(F)
    <3>1. b = F /\ l = Len(F) /\ Complete(b)
      <4>1. b = SubSeq(F, 1, Len(F))
        BY <1>7, <2>6
      <4>2. b = F
        BY <2>2, <4>1, SubSeqFull
      <4> QED BY <1>5, <1>7, <2>2, <2>3, <2>4, <2>6, <4>2
    <3>2. rest = <<>>
      <4>1. rest = SubSeq(F, Len(F) + 1, Len(F)) /\ Len(F) < Len(F) + 1
        BY <1>7, <2>2, <2>6, <3>1
      <4> QED BY <2>2, <4>1, SubSeqEmpty
    <3>3. buffer'[c] = <<>>
      <4>1. n # 0
        BY <1>5, <1>7
      <4>2. left = SubSeq(F, Len(F) + 1, Len(F))
        BY <2>2, <3>1 DEF left
      <4>3. left = <<>>
        BY <2>2, <4>2, SubSeqEmpty
      <4> QED BY <1>4, <1>7, <3>1, <4>1, <4>3
    <3>4. calls
      <4>1. Request(c).type \in Endpoints
        BY <2>1, MessageAssumption DEF Endpoints
      <4>2. Decoded(b).endpoint = <<Request(c).type>>
        BY <2>2, <3>1 DEF Encode
      <4> QED BY <3>1, <4>1, <4>2 DEF calls, HasCallback
    <3>5. {m \in Messages : Encode(m) = Decoded(b)} = {Request(c)}
      BY <2>1, <2>2, <3>1, EncodingAssumption
    <3>6. Spawn({Request(c)})
      BY <1>2, <3>4, <3>5
    <3>7. phase'[c] = IF phase[c] = "awaiting" THEN "answered" ELSE phase[c]
      BY <1>4, <1>7, <3>1, <3>4
    <3> QED BY <1>4, <3>1, <3>2, <3>3, <3>6, <3>7
  <2> QED BY <2>5, <2>6
<1>8. \/ /\ n = 0 /\ phase[c] = "closed" /\ wire[c] = <<>> /\ rest = <<>> /\ ~ Complete(b)
      \/ /\ n > 0
         /\ \E k, l \in Nat : /\ Cut(c, k, l) /\ k + n <= l
                             /\ b = SubSeq(F, 1, k + n) /\ rest = SubSeq(F, k + n + 1, l)
  BY <1>0, <1>2, <1>5, ReceiveCases DEF b, rest
<1>9. CASE n > 0 /\ \E k, l \in Nat :
             /\ Cut(c, k, l) /\ k + n <= l
             /\ b = SubSeq(F, 1, k + n) /\ rest = SubSeq(F, k + n + 1, l)
  <2>1. PICK k \in Nat, l \in Nat :
             /\ Cut(c, k, l) /\ k + n <= l
             /\ b = SubSeq(F, 1, k + n) /\ rest = SubSeq(F, k + n + 1, l)
    BY <1>9
  <2> QED BY <1>2, <1>3, <1>5, <1>7, <1>9, <2>1
<1> QED BY <1>6, <1>8, <1>9

(* A step that leaves the connection d alone, and the thread of what d is  *)
(* sending.                                                                *)
LEMMA StreamKept ==
  ASSUME NEW d \in Connections, StreamOK(d), script' = script,
         UNCHANGED <<pos[d], phase[d], wire[d], buffer[d]>>,
         pos[d] > 0 /\ at[Request(d)] = "none" => at'[Request(d)] = "none"
  PROVE  StreamOK(d)'
<1>1. CASE buffer[d] = <<>> /\ wire[d] = <<>>
  BY <1>1 DEF StreamOK
<1>2. CASE \E k, l \in Nat : Cut(d, k, l)
  BY <1>2 DEF StreamOK, Cut, Request
<1> QED BY <1>1, <1>2 DEF StreamOK

(* A step that sends nothing. *)
LEMMA SentKept ==
  ASSUME NodeInv, UNCHANGED <<script, pos>>,
         \A m \in Messages : /\ at'[m] # "none" => at[m] # "none" \/ ~ Unsent(m)
                             /\ Made(m) => Made(m)'
  PROVE  SentInv' /\ DueInv'
<1>1. SentInv'
  BY DEF NodeInv, SentInv, Unsent
<1>2. DueInv'
  BY NamesDiffer DEF NodeInv, DueInv, MaySend
<1> QED BY <1>1, <1>2

LEMMA SendKeepsNode ==
  ASSUME NodeInv, NEW c \in Connections, Send(c) PROVE NodeInv'
<1> PICK m : m = Next1(c)
  OBVIOUS
<1> DEFINE F == FrameOf(m)
<1>0. /\ NodeTypeInv /\ c \in Senders /\ phase[c] = "idle" /\ pos[c] < Len(script[c])
      /\ MaySend(m) /\ at' = at /\ script' = script /\ buffer' = buffer
      /\ pos' = [pos EXCEPT ![c] = pos[c] + 1]
      /\ phase' = IF Encodable(Encode(m)) THEN [phase EXCEPT ![c] = "awaiting"] ELSE phase
      /\ wire' = IF Encodable(Encode(m)) THEN [wire EXCEPT ![c] = F] ELSE wire
  BY DEF NodeInv, Send, HasNext, SendRequest, handlerVars, Senders, FrameOf
<1>1. /\ m \in Messages /\ Unsent(m) /\ pos[c] \in Nat /\ Len(script[c]) \in Nat
      /\ F \in Seq(Tokens) /\ Len(F) \in Nat \ {0}
  BY <1>0, NextIsUnsent, LengthIsNat, FrameFacts DEF NodeTypeInv
<1>2. pos'[c] = pos[c] + 1 /\ \A d \in Senders \ {c} : pos'[d] = pos[d]
  BY <1>0 DEF NodeTypeInv
<1>3. Request(c)' = m
  BY <1>0, <1>2 DEF Request, Next1
<1> HIDE DEF F
<1>4. NodeTypeInv'
  <2>1. phase' \in [Connections -> {"idle", "awaiting", "answered", "closed", "ended"}]
    BY <1>0 DEF NodeTypeInv
  <2>2. wire' \in [Connections -> Seq(Tokens)] /\ buffer' \in [Connections -> Seq(Tokens)]
    BY <1>0, <1>1 DEF NodeTypeInv
  <2>3. pos' \in [Senders -> Nat] /\ \A d \in Senders : pos'[d] <= Len(script[d])
    BY <1>0, <1>1, <1>2 DEF NodeTypeInv
  <2> QED BY <1>0, <2>1, <2>2, <2>3 DEF NodeTypeInv
<1>5. StreamInv'
  <2>1. ASSUME NEW d \in Connections, d # c PROVE StreamOK(d)'
    <3>1. UNCHANGED <<pos[d], phase[d], wire[d], buffer[d]>>
      BY <1>0, <1>2, <2>1 DEF NodeTypeInv, Senders
    <3> QED BY <1>0, <2>1, <3>1, StreamKept DEF NodeInv, StreamInv
  <2>2. buffer[c] = <<>> /\ wire[c] = <<>>
    BY <1>0 DEF NodeInv, StreamInv, StreamOK, Cut
  <2>3. ASSUME ~ Encodable(Encode(m)) PROVE StreamOK(c)'
    <3>1. wire' = wire /\ buffer' = buffer
      BY <1>0, <2>3
    <3> QED BY <2>2, <3>1 DEF StreamOK
  <2>4. ASSUME Encodable(Encode(m)) PROVE StreamOK(c)'
    <3>1. phase'[c] = "awaiting" /\ wire'[c] = F /\ buffer'[c] = <<>>
      BY <1>0, <2>2, <2>4 DEF NodeTypeInv
    <3>2. at'[m] = "none"
      BY <1>0, <1>1 DEF NodeInv, SentInv
    <3>3. SubSeq(F, 1, 0) = <<>> /\ SubSeq(F, 0 + 1, Len(F)) = F
      BY <1>1, SubSeqEmpty, SubSeqFull
    <3>4. Cut(c, 0, Len(F))'
      <4>1. /\ pos'[c] > 0 /\ Len(F) \in 0..Len(F) /\ 0 \in 0..Len(F) /\ 0 < Len(F)
        BY <1>1, <1>2
      <4> QED BY <1>3, <2>4, <3>1, <3>2, <3>3, <4>1 DEF Cut, F
    <3> QED BY <1>1, <3>4 DEF StreamOK
  <2> QED BY <2>1, <2>3, <2>4 DEF StreamInv
<1>6. SentInv'
  <2>1. \A d \in Senders : \A i \in 1..pos[d] : i \in 1..pos'[d]
    BY <1>1, <1>2 DEF NodeTypeInv
  <2> QED BY <1>0, <2>1 DEF NodeInv, SentInv, Unsent
<1>7. DueInv'
  <2>1. ASSUME NEW d \in Senders, NEW i \in 1..pos'[d] PROVE MaySend(script[d][i])
    <3>1. CASE d = c /\ i = pos[c] + 1
      BY <1>0, <3>1 DEF Next1
    <3>2. CASE i \in 1..pos[d]
      BY <3>2 DEF NodeInv, DueInv
    <3>3. i \in 1..pos[d] \/ (d = c /\ i = pos[c] + 1)
      BY <1>1, <1>2, <2>1
    <3> QED BY <3>1, <3>2, <3>3
  <2> QED BY <1>0, <2>1 DEF DueInv, MaySend, Made
<1> QED BY <1>4, <1>5, <1>6, <1>7 DEF NodeInv

LEMMA ClientRequestKeepsNode == ASSUME NodeInv, ClientRequest PROVE NodeInv'
<1> PICK m : m = Next1(Http)
  OBVIOUS
<1>0. /\ NodeTypeInv /\ Http \in Senders /\ Http \notin Connections
      /\ pos[Http] < Len(script[Http]) /\ MaySend(m)
      /\ at' = [n \in Messages |-> IF n \in {m} THEN "spawned" ELSE at[n]]
      /\ UNCHANGED <<script, phase, wire, buffer>>
      /\ pos' = [pos EXCEPT ![Http] = pos[Http] + 1]
  BY ScriptAssumption DEF NodeInv, ClientRequest, HasNext, Spawn, tcpVars, Senders
<1>1. /\ m \in Messages /\ m.from = Http /\ Unsent(m)
      /\ pos[Http] \in Nat /\ Len(script[Http]) \in Nat
  BY <1>0, NextIsUnsent, LengthIsNat DEF NodeTypeInv
<1>2. pos'[Http] = pos[Http] + 1 /\ \A d \in Senders \ {Http} : pos'[d] = pos[d]
  BY <1>0 DEF NodeTypeInv
<1>3. NodeTypeInv'
  <2>1. pos' \in [Senders -> Nat] /\ \A d \in Senders : pos'[d] <= Len(script[d])
    BY <1>0, <1>1, <1>2 DEF NodeTypeInv
  <2> QED BY <1>0, <2>1 DEF NodeTypeInv
<1>4. StreamInv'
  <2> SUFFICES ASSUME NEW d \in Connections PROVE StreamOK(d)'
    BY DEF StreamInv
  <2>1. d \in Senders /\ d # Http
    BY <1>0 DEF Senders
  <2>2. ASSUME pos[d] > 0 PROVE Request(d) \in Messages /\ Request(d) # m
    BY <1>0, <1>1, <2>1, <2>2, RequestFacts
  <2>3. pos[d] > 0 /\ at[Request(d)] = "none" => at'[Request(d)] = "none"
    BY <1>0, <2>2
  <2> QED BY <1>0, <1>2, <2>1, <2>3, StreamKept DEF NodeInv, StreamInv
<1>5. SentInv'
  <2>1. \A d \in Senders : \A i \in 1..pos[d] : i \in 1..pos'[d]
    BY <1>1, <1>2 DEF NodeTypeInv
  <2>2. ~ Unsent(m)'
    <3>1. pos[Http] + 1 \in 1..pos'[Http] /\ script'[Http][pos[Http] + 1] = m
      BY <1>0, <1>1, <1>2 DEF Next1
    <3> QED BY <1>0, <3>1 DEF Unsent
  <2>3. ASSUME NEW n \in Messages, at'[n] # "none" PROVE ~ Unsent(n)'
    <3>1. CASE n = m
      BY <2>2, <3>1
    <3>2. CASE n # m
      <4>1. ~ Unsent(n)
        BY <1>0, <2>3, <3>2 DEF NodeInv, SentInv
      <4> QED BY <1>0, <2>1, <4>1 DEF Unsent
    <3> QED BY <3>1, <3>2
  <2> QED BY <2>3 DEF SentInv
<1>6. DueInv'
  <2>1. ASSUME NEW d \in Senders, NEW i \in 1..pos'[d] PROVE MaySend(script[d][i])
    <3>1. CASE d = Http /\ i = pos[Http] + 1
      BY <1>0, <3>1 DEF Next1
    <3>2. CASE i \in 1..pos[d]
      BY <3>2 DEF NodeInv, DueInv
    <3>3. i \in 1..pos[d] \/ (d = Http /\ i = pos[Http] + 1)
      BY <1>1, <1>2, <2>1
    <3> QED BY <3>1, <3>2, <3>3
  <2>2. \A h \in Creators : Made(h) => Made(h)'
    <3>1. at[m] = "none"
      BY <1>1 DEF NodeInv, SentInv
    <3> QED BY <1>0, <3>1, NamesDiffer DEF Made
  <2> QED BY <1>0, <2>1, <2>2 DEF DueInv, MaySend
<1> QED BY <1>3, <1>4, <1>5, <1>6 DEF NodeInv

LEMMA HandleConnectionKeepsNode ==
  ASSUME NodeInv, HandlerInv, NEW c \in Connections, HandleConnection(c)
  PROVE  NodeInv'
<1>0. NodeTypeInv /\ UNCHANGED <<script, pos>> /\ c \in Senders
  BY HandleConnectionCases DEF NodeInv, Senders
<1>1. /\ DOMAIN phase' = Connections /\ phase' = [d \in Connections |-> phase'[d]]
      /\ DOMAIN wire' = Connections /\ wire' = [d \in Connections |-> wire'[d]]
      /\ DOMAIN buffer' = Connections /\ buffer' = [d \in Connections |-> buffer'[d]]
  BY <1>0 DEF HandleConnection, Receive, NodeTypeInv
<1>2. \A d \in Connections \ {c} : UNCHANGED <<phase[d], wire[d], buffer[d]>>
  BY HandleConnectionCases
<1>3. ASSUME StreamOK(c)', phase'[c] \in {"idle", "awaiting", "answered", "closed", "ended"},
             wire'[c] \in Seq(Tokens), buffer'[c] \in Seq(Tokens),
             at' = at \/ (pos[c] > 0 /\ Spawn({Request(c)}) /\ at[Request(c)] = "none")
      PROVE  NodeInv'
  <2>1. NodeTypeInv'
    <3>1. /\ phase' \in [Connections -> {"idle", "awaiting", "answered", "closed", "ended"}]
          /\ wire' \in [Connections -> Seq(Tokens)] /\ buffer' \in [Connections -> Seq(Tokens)]
      BY <1>0, <1>1, <1>2, <1>3 DEF NodeTypeInv
    <3> QED BY <1>0, <3>1 DEF NodeTypeInv
  <2>2. StreamInv'
    <3> SUFFICES ASSUME NEW d \in Connections, d # c PROVE StreamOK(d)'
      BY <1>3 DEF StreamInv
    <3>1. ASSUME pos[d] > 0, at[Request(d)] = "none" PROVE at'[Request(d)] = "none"
      <4>1. Request(d) \in Messages /\ Request(d).from = d
        BY <1>0, <3>1, RequestFacts DEF Senders
      <4>2. pos[c] > 0 => Request(c).from = c
        BY <1>0, RequestFacts
      <4> QED BY <1>3, <3>1, <4>1, <4>2 DEF Spawn
    <3> QED BY <1>0, <1>2, <3>1, StreamKept DEF NodeInv, StreamInv
  <2>3. SentInv' /\ DueInv'
    <3>1. ASSUME NEW m \in Messages
          PROVE  /\ at'[m] # "none" => at[m] # "none" \/ ~ Unsent(m)
                 /\ Made(m) => Made(m)'
      <4>1. CASE at' = at
        BY <4>1 DEF Made
      <4>2. CASE pos[c] > 0 /\ Spawn({Request(c)}) /\ at[Request(c)] = "none"
        BY <1>0, <4>2, RequestFacts DEF Spawn, Made
      <4> QED BY <1>3, <4>1, <4>2
    <3> QED BY <1>0, <3>1, SentKept
  <2> QED BY <2>1, <2>2, <2>3 DEF NodeInv
<1>4. CASE /\ phase[c] = "closed" /\ wire[c] = <<>> /\ UNCHANGED handlerVars
           /\ phase'[c] = "ended" /\ wire'[c] = <<>> /\ buffer'[c] = <<>>
  BY <1>3, <1>4 DEF StreamOK, handlerVars
<1>5. CASE /\ UNCHANGED <<phase[c], handlerVars>>
           /\ \E k, l, n \in Nat :
                /\ Cut(c, k, l) /\ n > 0 /\ k + n <= l
                /\ k + n < Len(FrameOf(Request(c)))
                /\ buffer'[c] = SubSeq(FrameOf(Request(c)), 1, k + n)
                /\ wire'[c] = SubSeq(FrameOf(Request(c)), k + n + 1, l)
  <2>1. PICK k \in Nat, l \in Nat, n \in Nat :
                /\ Cut(c, k, l) /\ n > 0 /\ k + n <= l
                /\ k + n < Len(FrameOf(Request(c)))
                /\ buffer'[c] = SubSeq(FrameOf(Request(c)), 1, k + n)
                /\ wire'[c] = SubSeq(FrameOf(Request(c)), k + n + 1, l)
    BY <1>5
  <2> PICK F : F = FrameOf(Request(c))
    OBVIOUS
  <2>2. F \in Seq(Tokens) /\ Len(F) \in Nat /\ pos[c] > 0 /\ l <= Len(F)
    BY <1>0, <2>1, RequestFacts, FrameFacts DEF Cut
  <2>3. FrameOf(Request(c))' = F /\ Request(c)' = Request(c)
    BY <1>0 DEF Request
  <2>4. Cut(c, k + n, l)'
    <3>1. l \in 0..Len(F) /\ k + n \in 0..l /\ k + n < Len(F)
      BY <2>1, <2>2
    <3> QED BY <1>0, <1>5, <2>1, <2>3, <3>1 DEF Cut, handlerVars
  <2>5. StreamOK(c)'
    BY <2>4 DEF StreamOK
  <2>6. wire'[c] \in Seq(Tokens) /\ buffer'[c] \in Seq(Tokens)
    <3>1. \A i \in 1..Len(F) : F[i] \in Tokens
      BY <2>2
    <3>2. \A i \in 1..(k + n) : F[i] \in Tokens
      BY <2>1, <2>2, <3>1
    <3>3. \A i \in (k + n + 1)..l : F[i] \in Tokens
      BY <2>1, <2>2, <3>1
    <3> QED BY <2>1, <3>2, <3>3, SubSeqProperties
  <2> QED BY <1>0, <1>3, <1>5, <2>5, <2>6 DEF NodeTypeInv, handlerVars
<1>6. CASE /\ \E k, l \in Nat : Cut(c, k, l) /\ l = Len(FrameOf(Request(c)))
           /\ phase'[c] = IF phase[c] = "awaiting" THEN "answered" ELSE phase[c]
           /\ wire'[c] = <<>> /\ buffer'[c] = <<>>
           /\ Spawn({Request(c)})
  <2>1. pos[c] > 0 /\ at[Request(c)] = "none"
    BY <1>6 DEF Cut
  <2>2. StreamOK(c)'
    BY <1>6 DEF StreamOK
  <2> QED BY <1>0, <1>3, <1>6, <2>1, <2>2 DEF NodeTypeInv
<1> QED BY <1>4, <1>5, <1>6, HandleConnectionCases

LEMMA ClientStepKeepsNode ==
  ASSUME NodeInv, NEW c \in Connections, ClientStep(c) PROVE NodeInv'
<1>0. /\ phase[c] = "answered" /\ phase' = [phase EXCEPT ![c] = "idle"]
      /\ UNCHANGED <<wire, buffer, at, script, pos>>
  BY DEF ClientStep, ReceiveResponse, handlerVars
<1>1. NodeTypeInv'
  BY <1>0 DEF NodeInv, NodeTypeInv
<1>2. StreamInv'
  <2>1. StreamOK(c)'
    BY <1>0 DEF NodeInv, StreamInv, StreamOK, Cut
  <2>2. ASSUME NEW d \in Connections, d # c PROVE StreamOK(d)'
    <3>1. phase'[d] = phase[d]
      BY <1>0, <2>2 DEF NodeInv, NodeTypeInv
    <3> QED BY <1>0, <2>2, <3>1, StreamKept DEF NodeInv, StreamInv
  <2> QED BY <2>1, <2>2 DEF StreamInv
<1>3. SentInv' /\ DueInv'
  BY <1>0, SentKept DEF Made
<1> QED BY <1>1, <1>2, <1>3 DEF NodeInv

(* What is left of the stream when it is closed. *)
LEMMA CloseCuts ==
  ASSUME NodeInv, NEW c \in Connections, CloseConnection(c)
  PROVE  /\ UNCHANGED <<script, pos, buffer, handlerVars>>
         /\ phase[c] \notin {"closed", "ended"} /\ phase' = [phase EXCEPT ![c] = "closed"]
         /\ wire' \in [Connections -> Seq(Tokens)]
         /\ \A d \in Connections \ {c} : wire'[d] = wire[d]
         /\ \/ buffer[c] = <<>> /\ wire[c] = <<>> /\ wire'[c] = <<>>
            \/ \E k, l \in Nat : Cut(c, k, Len(FrameOf(Request(c)))) /\ Cut(c, k, l)'
<1>0. /\ phase[c] \notin {"closed", "ended"} /\ phase' = [phase EXCEPT ![c] = "closed"]
      /\ UNCHANGED <<script, pos, buffer, handlerVars>>
      /\ NodeTypeInv /\ StreamOK(c)
  BY DEF CloseConnection, Close, NodeInv, StreamInv
<1>1. PICK n \in 0..Len(wire[c]) : wire' = [wire EXCEPT ![c] = SubSeq(wire[c], 1, n)]
  BY DEF CloseConnection, Close
<1>2. /\ wire[c] \in Seq(Tokens) /\ Len(wire[c]) \in Nat /\ n \in Nat
      /\ SubSeq(wire[c], 1, n) \in Seq(Tokens)
  <2>1. wire[c] \in Seq(Tokens) /\ Len(wire[c]) \in Nat /\ n \in Nat
    BY <1>0 DEF NodeTypeInv
  <2>2. \A i \in 1..n : wire[c][i] \in Tokens
    BY <2>1
  <2> QED BY <2>1, <2>2, SubSeqProperties
<1>3. /\ wire' \in [Connections -> Seq(Tokens)] /\ wire'[c] = SubSeq(wire[c], 1, n)
      /\ \A d \in Connections \ {c} : wire'[d] = wire[d]
  BY <1>0, <1>1, <1>2 DEF NodeTypeInv
<1>4. CASE buffer[c] = <<>> /\ wire[c] = <<>>
  <2>1. n = 0
    BY <1>4
  <2>2. wire'[c] = <<>>
    BY <1>3, <2>1, SubSeqEmpty
  <2> QED BY <1>0, <1>3, <1>4, <2>2
<1>5. ASSUME NEW k \in Nat, NEW l \in Nat, Cut(c, k, l)
      PROVE  Cut(c, k, Len(FrameOf(Request(c)))) /\ Cut(c, k, k + n)'
  <2> PICK F : F = FrameOf(Request(c))
    OBVIOUS
  <2>1. F \in Seq(Tokens) /\ Len(F) \in Nat /\ pos[c] > 0 /\ Request(c) \in Messages
    BY <1>0, <1>5, RequestFacts, FrameFacts DEF Cut, Senders
  <2>2. /\ phase[c] = "awaiting" /\ l = Len(F) /\ k < Len(F)
        /\ wire[c] = SubSeq(F, k + 1, l)
    BY <1>0, <1>5 DEF Cut
  <2>3. FrameOf(Request(c))' = F /\ Request(c)' = Request(c)
    BY <1>0 DEF Request
  <2>4. Len(wire[c]) = l - k
    <3> DEFINE z == l - k
    <3>1. k + z = l /\ z \in Nat
      BY <2>1, <2>2
    <3> HIDE DEF z
    <3>2. wire[c] = SubSeq(F, k + 1, k + z) /\ k + z <= Len(F)
      BY <2>1, <2>2, <3>1
    <3>3. Len(wire[c]) = z
      BY <2>1, <3>1, <3>2, Slice
    <3> QED BY <3>3 DEF z
  <2>5. wire'[c] = SubSeq(F, k + 1, k + n)
    <3> DEFINE r == l - k - n
    <3>1. k + n + r = l /\ r \in Nat
      BY <1>2, <2>1, <2>2, <2>4
    <3> HIDE DEF r
    <3>2. wire[c] = SubSeq(F, k + 1, k + n + r) /\ k + n + r <= Len(F)
      <4>1. wire[c] = SubSeq(F, k + 1, l) /\ l <= Len(F)
        BY <2>1, <2>2
      <4> QED BY <3>1, <4>1
    <3> QED BY <1>2, <1>3, <2>1, <3>1, <3>2, RecvMoves
  <2>6. k + n \in 0..Len(F) /\ k \in 0..(k + n)
    BY <1>2, <2>1, <2>2, <2>4
  <2>7. phase'[c] = "closed" /\ at' = at /\ buffer' = buffer /\ pos' = pos
    BY <1>0 DEF NodeTypeInv, handlerVars
  <2>8. Cut(c, k, k + n)'
    BY <1>5, <2>2, <2>3, <2>5, <2>6, <2>7 DEF Cut
  <2>9. Cut(c, k, Len(FrameOf(Request(c))))
    BY <1>5, <2>2
  <2> QED BY <2>8, <2>9
<1>6. CASE \E k, l \in Nat : Cut(c, k, l)
  <2>1. PICK k \in Nat, l \in Nat : Cut(c, k, l)
    BY <1>6
  <2>2. k + n \in Nat
    BY <1>2
  <2>3. Cut(c, k, Len(FrameOf(Request(c)))) /\ Cut(c, k, k + n)'
    BY <1>5, <2>1
  <2> QED BY <1>0, <1>3, <2>2, <2>3
<1> QED BY <1>0, <1>4, <1>6 DEF StreamOK

LEMMA CloseKeepsNode ==
  ASSUME NodeInv, NEW c \in Connections, CloseConnection(c) PROVE NodeInv'
<1>0. /\ UNCHANGED <<script, pos, buffer, handlerVars>>
      /\ phase' = [phase EXCEPT ![c] = "closed"]
      /\ wire' \in [Connections -> Seq(Tokens)]
      /\ \A d \in Connections \ {c} : wire'[d] = wire[d]
  BY CloseCuts
<1>1. NodeTypeInv'
  BY <1>0 DEF NodeInv, NodeTypeInv
<1>2. StreamInv'
  <2>1. StreamOK(c)'
    BY <1>0, CloseCuts DEF StreamOK
  <2>2. ASSUME NEW d \in Connections, d # c PROVE StreamOK(d)'
    <3>1. phase'[d] = phase[d] /\ wire'[d] = wire[d] /\ at' = at
      BY <1>0, <2>2 DEF NodeInv, NodeTypeInv, handlerVars
    <3> QED BY <1>0, <2>2, <3>1, StreamKept DEF NodeInv, StreamInv
  <2> QED BY <2>1, <2>2 DEF StreamInv
<1>3. SentInv' /\ DueInv'
  BY <1>0, SentKept DEF Made, handlerVars
<1> QED BY <1>1, <1>2, <1>3 DEF NodeInv

(* Threads neither begin nor go back by their own steps. *)
LEMMA ThreadsAdvance ==
  ASSUME TypeInv, NEW m \in Messages, ThreadStep(m), NEW n \in Messages
  PROVE  (at'[n] = "none" <=> at[n] = "none") /\ (Made(n) => Made(n)')
<1>1. CASE SendMessage(m)
  <2>1. CASE map[Key(m)] = Nobody
    BY <1>1, <2>1 DEF SendMessage, Goto, TypeInv, Made, Notified, Creators
  <2>2. CASE map[Key(m)] # Nobody
    <3>1. at' = [at EXCEPT ![m] = "handled", ![map[Key(m)]] = Notified(@)] /\ at[m] = "spawned"
      BY <1>1, <2>2 DEF SendMessage
    <3> QED BY <3>1 DEF TypeInv, Made, Notified
  <2> QED BY <2>1, <2>2
<1>2. CASE BeginCreate(m) \/ EndCreate(m)
  BY <1>2 DEF BeginCreate, EndCreate, Goto, TypeInv, Made
<1>3. CASE StartWaiting(m) \/ Take(m) \/ Block(m) \/ TimeOut(m) \/ RemoveFromMap(m)
  BY <1>3 DEF StartWaiting, Take, Block, TimeOut, RemoveFromMap, Goto, TypeInv, Made
<1> QED BY <1>1, <1>2, <1>3 DEF ThreadStep

LEMMA HandlerStepKeepsNode ==
  ASSUME NodeInv, HandlerInv, NEW m \in Messages, HandlerStep(m) PROVE NodeInv'
<1>0. UNCHANGED <<phase, wire, buffer, script, pos>> /\ TypeInv /\ ThreadStep(m)
  BY DEF HandlerStep, tcpVars, HandlerInv
<1>1. NodeTypeInv'
  BY <1>0 DEF NodeInv, NodeTypeInv
<1>2. StreamInv'
  <2> SUFFICES ASSUME NEW d \in Connections PROVE StreamOK(d)'
    BY DEF StreamInv
  <2>1. pos[d] > 0 => Request(d) \in Messages
    BY RequestFacts DEF NodeInv, Senders
  <2> QED BY <1>0, <2>1, ThreadsAdvance, StreamKept DEF NodeInv, StreamInv
<1>3. SentInv' /\ DueInv'
  BY <1>0, ThreadsAdvance, SentKept
<1> QED BY <1>1, <1>2, <1>3 DEF NodeInv
-----------------------------------------------------------------------------
IInv == HandlerInv /\ NodeInv

LEMMA InitHolds == Init => IInv
BY HandlerInitHolds, NodeInitHolds DEF Init, IInv

LEMMA HandleConnectionKeeps ==
  ASSUME IInv, NEW c \in Connections, HandleConnection(c) PROVE HandlerInv'
<1>1. CASE UNCHANGED handlerVars
  BY <1>1 DEF IInv, handlerVars, HandlerInv, TypeInv, NoLostWakeup, TakenInv, TakenOK,
              MapInv, QueueInv
<1>2. CASE Spawn({Request(c)}) /\ \E k, l \in Nat : Cut(c, k, l)
  <2>1. at[Request(c)] = "none" /\ Request(c) \in Messages
    BY <1>2, RequestFacts DEF IInv, NodeInv, Cut, Senders
  <2> QED BY <1>2, <2>1, SpawnKeeps DEF IInv
<1> QED BY <1>1, <1>2, HandleConnectionCases DEF IInv

LEMMA ClientRequestKeeps == ASSUME IInv, ClientRequest PROVE HandlerInv'
<1>1. Next1(Http) \in Messages /\ Unsent(Next1(Http))
  BY NextIsUnsent DEF IInv, NodeInv, ClientRequest, HasNext, Senders
<1>2. at[Next1(Http)] = "none"
  BY <1>1 DEF IInv, NodeInv, SentInv
<1> QED BY <1>1, <1>2, SpawnKeeps DEF IInv, ClientRequest

LEMMA NextHolds == IInv /\ [Next]_vars => IInv'
<1> SUFFICES ASSUME IInv, [Next]_vars PROVE IInv'
  OBVIOUS
<1>1. ASSUME UNCHANGED handlerVars PROVE HandlerInv'
  BY <1>1 DEF handlerVars, IInv, HandlerInv, TypeInv, NoLostWakeup, TakenInv, TakenOK,
              MapInv, QueueInv
<1>2. ASSUME NEW c \in Connections, Send(c) PROVE IInv'
  BY <1>1, <1>2, SendKeepsNode DEF IInv, Send
<1>3. ASSUME NEW c \in Connections, HandleConnection(c) PROVE IInv'
  BY <1>3, HandleConnectionKeeps, HandleConnectionKeepsNode DEF IInv
<1>4. ASSUME NEW c \in Connections, ClientStep(c) PROVE IInv'
  BY <1>1, <1>4, ClientStepKeepsNode DEF IInv, ClientStep
<1>5. ASSUME NEW c \in Connections, CloseConnection(c) PROVE IInv'
  BY <1>1, <1>5, CloseKeepsNode DEF IInv, CloseConnection
<1>6. CASE ClientRequest
  BY <1>6, ClientRequestKeeps, ClientRequestKeepsNode DEF IInv
<1>7. ASSUME NEW m \in Messages, HandlerStep(m) PROVE IInv'
  BY <1>7, ThreadStepKeeps, HandlerStepKeepsNode DEF IInv, HandlerStep
<1>8. CASE UNCHANGED vars
  <2>1. NodeInv'
    BY <1>8 DEF vars, IInv, NodeInv, NodeTypeInv, StreamInv, StreamOK, Cut, Request,
                SentInv, Unsent, DueInv, MaySend, Made
  <2> QED BY <1>1, <1>8, <2>1 DEF vars, handlerVars, IInv
<1> QED BY <1>2, <1>3, <1>4, <1>5, <1>6, <1>7, <1>8 DEF Next

THEOREM Invariance == Spec => []IInv
BY InitHolds, NextHolds, PTL DEF Spec

(* No handler sleeps over a message, whatever is sent to it when: the      *)
(* queue of a thread that is blocked is empty, and a push wakes it.        *)
THEOREM NeverSleepsOverAMessage == Spec => []NoLostWakeup
<1>1. IInv => NoLostWakeup
  BY DEF IInv, HandlerInv
<1> QED BY <1>1, Invariance, PTL

(* The tokens on the wire and in the buffer of a connection. *)
LEMMA StreamIsShort ==
  ASSUME NodeInv, NEW c \in Connections
  PROVE  /\ Len(wire[c]) < MaxMessageSize /\ Len(buffer[c]) < MaxMessageSize
         /\ phase[c] \in {"idle", "answered"} => buffer[c] = <<>> /\ wire[c] = <<>>
         /\ buffer[c] # <<>> =>
              /\ pos[c] > 0
              /\ IsStrictPrefix(buffer[c], Frame(Encode(script[c][pos[c]])))
<1>1. CASE buffer[c] = <<>> /\ wire[c] = <<>>
  <2>1. Len(<<>>) = 0
    OBVIOUS
  <2> QED BY <1>1, <2>1, SizeAssumption
<1>2. ASSUME NEW k \in Nat, NEW l \in Nat, Cut(c, k, l)
      PROVE  /\ Len(wire[c]) < MaxMessageSize /\ Len(buffer[c]) < MaxMessageSize
             /\ phase[c] \notin {"idle", "answered"} /\ pos[c] > 0
             /\ IsStrictPrefix(buffer[c], FrameOf(Request(c)))
  <2> PICK F : F = FrameOf(Request(c))
    OBVIOUS
  <2>1. F \in Seq(Tokens) /\ Len(F) \in Nat /\ Len(F) < MaxMessageSize
    BY <1>2, RequestFacts, FrameFacts DEF NodeInv, Cut, Senders, Encodable, FrameOf
  <2>2. /\ k < Len(F) /\ k <= l /\ l <= Len(F) /\ phase[c] \notin {"idle", "answered"}
        /\ buffer[c] = SubSeq(F, 1, k) /\ wire[c] = SubSeq(F, k + 1, l) /\ pos[c] > 0
    BY <1>2, <2>1 DEF Cut
  <2> DEFINE z == l - k
  <2>3. z \in Nat /\ k + z = l
    BY <2>1, <2>2
  <2> HIDE DEF z
  <2>4. Len(wire[c]) = z
    <3>1. wire[c] = SubSeq(F, k + 1, k + z) /\ k + z <= Len(F)
      BY <2>2, <2>3
    <3> QED BY <2>1, <2>3, <3>1, Slice
  <2>5. Len(buffer[c]) = k /\ buffer[c] \in Seq(Tokens)
    <3>1. buffer[c] = SubSeq(F, 0 + 1, 0 + k) /\ 0 + k <= Len(F)
      BY <2>2
    <3> QED BY <2>1, <3>1, Slice
  <2>6. IsStrictPrefix(buffer[c], F)
    <3>1. SubSeq(buffer[c], 1, k) = buffer[c]
      BY <2>5, SubSeqFull
    <3> QED BY <2>1, <2>2, <2>5, <3>1 DEF IsStrictPrefix, IsPrefix
  <2>7. z < MaxMessageSize /\ k < MaxMessageSize
    BY <2>1, <2>2, <2>3, SizeAssumption
  <2> QED BY <2>2, <2>4, <2>5, <2>6, <2>7
<1>3. CASE \E k, l \in Nat : Cut(c, k, l)
  BY <1>2, <1>3 DEF FrameOf, Request
<1> QED BY <1>1, <1>3 DEF NodeInv, StreamInv, StreamOK

(* Types, and two bounds: wire and buffer hold less than a message         *)
(* (tcp.hpp:352, 527), and no handler takes more than it needs.            *)
THEOREM TypeCorrect == Spec => []TypeOK
<1>1. IInv => TypeOK
  <2> SUFFICES ASSUME IInv PROVE TypeOK
    OBVIOUS
  <2>1. HandlerTypeOK
    <3>1. ASSUME NEW h \in Creators
          PROVE  /\ queue[h] \in Seq(Messages)
                 /\ Range(taken[h]) \subseteq Messages \cup {NoMessage}
                 /\ Len(taken[h]) <= Needs(h)
      <4>1. queue[h] \in Seq(Messages) /\ taken[h] \in Seq(Messages \cup {NoMessage})
        BY DEF IInv, HandlerInv, TypeInv
      <4>2. Range(taken[h]) \subseteq Messages \cup {NoMessage}
        BY <4>1, RangeOfSeq
      <4>3. Len(taken[h]) <= Needs(h)
        <5>1. at[h] \in Labels /\ TakenOK(h) /\ Needs(h) \in Nat /\ Len(taken[h]) \in Nat
          BY <4>1, NamesDiffer DEF IInv, HandlerInv, TypeInv, TakenInv
        <5> QED BY <5>1 DEF TakenOK, Labels
      <4> QED BY <4>1, <4>2, <4>3
    <3> QED BY <3>1 DEF IInv, HandlerInv, TypeInv, HandlerTypeOK, Labels, Keys
  <2>2. \A c \in Senders : pos[c] \in 0..Len(script[c])
    BY LengthIsNat DEF IInv, NodeInv, NodeTypeInv
  <2> QED BY <2>1, <2>2, StreamIsShort DEF IInv, NodeInv, NodeTypeInv, TypeOK
<1> QED BY <1>1, Invariance, PTL

(* However recv splits the stream, handle_connection leaves nothing of one *)
(* request to the next, and what it keeps for the next round is a proper   *)
(* part of one frame (tcp.hpp:378-384).                                    *)
THEOREM BuffersDrain == Spec => []BufferDrained
<1>1. IInv => BufferDrained
  BY StreamIsShort DEF IInv, BufferDrained
<1> QED BY <1>1, Invariance, PTL
=============================================================================
