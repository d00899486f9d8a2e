--------------------------- MODULE DbmsLogProofs ----------------------------
(***************************************************************************)
(* Proofs about DbmsLog, for every number of clients.                      *)
(***************************************************************************)
EXTENDS DbmsLog, TLAPS

Looked == {"locking", "assigning", "copy", "copying"}

(* A thread holds logMutex while it searches, and all that have finished   *)
(* have found the same LogPair; no other is ever written.                  *)
FoundInv ==
  /\ \A c \in Clients : pc[c] = "finding" => logMutex = c /\ found[c] = logs
  /\ \A c \in Clients : pc[c] \in Looked => logs \in Clients /\ found[c] = logs
  /\ \A c \in Clients : c # logs => decision[c] = "WORKING"

(* One thread assigns at a time. *)
AssignInv ==
  /\ \A c, d \in Clients : pc[c] = "assigning" /\ pc[d] = "assigning" => c = d
  /\ \A c \in Clients : pc[c] = "assigning" =>
       request[c].data \in Loggable /\ held[c] = {request[c].data}

RequestInv == \A c \in Clients : pc[c] # "idle" => request[c] \in Request

(* What a copy can meet has been held since the request took effect ...    *)
HeldInv == \A c \in Clients : pc[c] \in {"copy", "copying"} =>
  /\ decision[logs] \in held[c]
  /\ \A d \in Clients : pc[d] = "assigning" => request[d].data \in held[c]

(* ... and it is torn only between two such values. *)
CopyInv == \A c \in Clients : pc[c] = "copying" =>
  /\ copy[c] \subseteq held[c] \cup {Torn}
  /\ \E v \in held[c] : v \in copy[c]
  /\ Torn \in copy[c] => \E v, w \in held[c] : v # w

IInv == TypeOK /\ FoundInv /\ AssignInv /\ RequestInv /\ HeldInv /\ CopyInv

-----------------------------------------------------------------------------
(* Requests. *)

LEMMA Shape == \A r \in Request :
  \/ r = Read /\ r.op = "READ"
  \/ r.op \in {"ONCE", "WRITE"} /\ r.data \in Loggable
BY DEF Request, Read, Once, Write

LEMMA Effects ==
  ASSUME NEW l \in LogValue, NEW r \in Request
  PROVE  /\ After(l, r) \in LogValue
         /\ r.op = "WRITE" \/ (r.op = "ONCE" /\ l = "WORKING") =>
              After(l, r) = r.data /\ r.data \in Loggable
         /\ r.op # "WRITE" /\ (r.op # "ONCE" \/ l # "WORKING") => After(l, r) = l
<1>1. CASE r.op = "READ"
  BY <1>1 DEF After, LogRead
<1>2. CASE r.op = "ONCE"
  BY <1>2, Shape DEF After, LogOnce, LogValue
<1>3. CASE r.op = "WRITE"
  BY <1>3, Shape DEF After, LogWrite, LogValue
<1> QED BY <1>1, <1>2, <1>3, Shape

LEMMA FollowingRequests ==
  ASSUME NEW c \in Clients, TypeOK PROVE Following(c) \subseteq Request
<1>1. kind[c] \in Kinds
  BY KindAssumption DEF TypeOK
<1>2. First[kind[c]] \subseteq Request
  BY <1>1 DEF First, Kinds, Request, Loggable
<1>3. \A d \in Decision : Write(d) \in Request
  BY DEF Decision, Request, Loggable
<1>4. Once("ABORT") \in Request /\ Write("ABORT") \in Request /\ Write("COMMIT") \in Request
  BY DEF Request, Loggable
<1> HIDE DEF First, Request
<1> QED BY <1>2, <1>3, <1>4 DEF Following, GivesUpWith

LEMMA AssignsShape ==
  ASSUME NEW c \in Clients, TypeOK, request[c] \in Request, found[c] \in Clients
  PROVE  /\ Assigns(c) => /\ request[c].data \in Loggable
                          /\ After(decision[found[c]], request[c]) = request[c].data
         /\ ~ Assigns(c) => After(decision[found[c]], request[c]) = decision[found[c]]
         /\ decision[found[c]] \in LogValue
<1>1. decision[found[c]] \in LogValue
  BY DEF TypeOK
<1> QED BY <1>1, Effects DEF Assigns

-----------------------------------------------------------------------------
(* The invariant is inductive. *)

LEMMA InitHolds == Init => IInv
<1> SUFFICES ASSUME Init PROVE IInv
  OBVIOUS
<1>1. TypeOK
  BY DEF Init, TypeOK, LogValue, Loggable
<1>2. FoundInv /\ AssignInv /\ RequestInv /\ HeldInv /\ CopyInv
  BY DEF Init, FoundInv, AssignInv, RequestInv, HeldInv, CopyInv, Looked
<1> QED BY <1>1, <1>2 DEF IInv

LEMMA SendRequestKeeps ==
  ASSUME IInv, NEW c \in Clients, SendRequest(c) PROVE IInv'
<1> USE DEF IInv
<1>1. PICK r \in Request : request' = [request EXCEPT ![c] = r]
  BY FollowingRequests DEF SendRequest
<1>2. TypeOK'
  BY <1>1 DEF SendRequest, Goto, TypeOK
<1>3. FoundInv'
  BY DEF SendRequest, Goto, TypeOK, FoundInv, Looked
<1>4. \A d \in Clients : /\ d # c => pc'[d] = pc[d] /\ request'[d] = request[d]
                         /\ d = c => pc'[d] = "asked" /\ request'[d] = r
  BY <1>1 DEF SendRequest, Goto, TypeOK
<1>5. held' = held /\ copy' = copy /\ decision' = decision /\ logs' = logs
  BY DEF SendRequest
<1>6. AssignInv' /\ RequestInv'
  BY <1>4, <1>5 DEF AssignInv, RequestInv
<1>7. HeldInv' /\ CopyInv'
  BY <1>4, <1>5 DEF HeldInv, CopyInv
<1> QED BY <1>2, <1>3, <1>6, <1>7

LEMMA BeginFindKeeps ==
  ASSUME IInv, NEW c \in Clients, BeginFind(c) PROVE IInv'
<1> USE DEF IInv
<1>1. TypeOK'
  BY DEF BeginFind, Goto, TypeOK
<1>2. FoundInv'
  BY NobodyAssumption DEF BeginFind, NobodySearches, Goto, TypeOK, FoundInv, Looked
<1>3. \A d \in Clients : /\ d # c => pc'[d] = pc[d]
                         /\ d = c => pc'[d] = "finding" /\ pc[d] = "asked"
  BY DEF BeginFind, Goto, TypeOK
<1>4. /\ held' = held /\ copy' = copy /\ decision' = decision /\ logs' = logs
      /\ request' = request
  BY DEF BeginFind
<1>5. AssignInv' /\ RequestInv' /\ HeldInv' /\ CopyInv'
  BY <1>3, <1>4 DEF AssignInv, RequestInv, HeldInv, CopyInv
<1> QED BY <1>1, <1>2, <1>5

LEMMA EndFindKeeps ==
  ASSUME IInv, NEW c \in Clients, EndFind(c) PROVE IInv'
<1> USE DEF IInv
<1>1. /\ pc[c] = "finding" /\ found[c] = logs
      /\ logs' \in Clients /\ (logs # Nobody => logs' = logs)
      /\ found' = [found EXCEPT ![c] = logs']
  BY NobodyAssumption DEF EndFind, TypeOK, FoundInv
<1>2. TypeOK'
  BY <1>1 DEF EndFind, Release, Goto, TypeOK
<1>3. \A d \in Clients : /\ d # c => pc'[d] = pc[d]
                         /\ d = c => pc'[d] = "locking"
  BY DEF EndFind, Goto, TypeOK
<1>4. /\ held' = held /\ copy' = copy /\ decision' = decision
      /\ request' = request
  BY DEF EndFind
<1>5. \A d \in Clients \ {c} : found'[d] = found[d] /\ pc[d] # "finding"
  BY <1>1 DEF TypeOK, FoundInv
<1>6. \A d \in Clients : pc[d] \in Looked => logs' = logs
  BY <1>1, NobodyAssumption DEF FoundInv
<1>7. FoundInv'
  <2>1. \A d \in Clients : pc'[d] # "finding"
    BY <1>3, <1>5
  <2>2. \A d \in Clients : pc'[d] \in Looked => logs' \in Clients /\ found'[d] = logs'
    BY <1>1, <1>2, <1>3, <1>5, <1>6 DEF FoundInv, TypeOK
  <2>3. \A d \in Clients : d # logs' => decision'[d] = "WORKING"
    BY <1>1, <1>4, NobodyAssumption DEF FoundInv
  <2> QED BY <2>1, <2>2, <2>3 DEF FoundInv
<1>8. AssignInv' /\ RequestInv' /\ CopyInv'
  BY <1>1, <1>3, <1>4 DEF AssignInv, RequestInv, CopyInv
<1>9. HeldInv'
  BY <1>3, <1>4, <1>6 DEF HeldInv, Looked
<1> QED BY <1>2, <1>7, <1>8, <1>9

(* What the thread that has the lock finds. *)
LEMMA Locked ==
  ASSUME IInv, NEW c \in Clients, pc[c] = "locking", CanLock(c)
  PROVE  /\ found[c] = logs /\ logs \in Clients
         /\ request[c] \in Request
         /\ \A d \in Clients : pc[d] # "assigning"
         /\ \A d \in Clients : d \in At(c, "copy") \cup At(c, "copying") <=>
              pc[d] \in {"copy", "copying"}
         /\ \A d \in Clients : d \in At(c, "copying") <=> pc[d] = "copying"
<1>1. \A d \in Clients : pc[d] \in Looked => found[d] = logs
  BY DEF IInv, FoundInv
<1>2. found[c] = logs /\ logs \in Clients
  BY DEF IInv, FoundInv, Looked
<1>3. request[c] \in Request
  BY DEF IInv, RequestInv
<1> QED BY <1>1, <1>2, <1>3 DEF CanLock, Assigning, At, Looked

LEMMA LookKeeps ==
  ASSUME IInv, NEW c \in Clients, Look(c) PROVE IInv'
<1> USE DEF IInv
<1>1. /\ found[c] = logs /\ logs \in Clients /\ request[c] \in Request
      /\ \A d \in Clients : pc[d] # "assigning"
      /\ \A d \in Clients : d \in At(c, "copy") \cup At(c, "copying") <=>
           pc[d] \in {"copy", "copying"}
  BY Locked DEF Look
<1> DEFINE D == decision[logs]
<1>2. D \in LogValue /\ After(D, request[c]) = D
  BY <1>1, AssignsShape DEF Look
<1>3. \A d \in Clients :
        held'[d] = CASE d = c -> {D}
                     [] pc[d] \in {"copy", "copying"} /\ d # c -> held[d] \cup {D}
                     [] OTHER -> held[d]
  <2>1. pc[c] = "locking"
    BY DEF Look
  <2> QED BY <1>1, <1>2, <2>1 DEF Look, Effect
<1>4. TypeOK'
  <2>1. \A d \in Clients : held'[d] \subseteq LogValue
    BY <1>2, <1>3 DEF TypeOK
  <2>2. held' \in [Clients -> SUBSET LogValue]
    BY <2>1 DEF Look, Effect
  <2> QED BY <2>2 DEF Look, Goto, TypeOK
<1>5. \A d \in Clients : /\ d # c => pc'[d] = pc[d]
                         /\ d = c => pc'[d] = "copy" /\ pc[d] = "locking"
  BY DEF Look, Goto, TypeOK
<1>6. /\ copy' = copy /\ decision' = decision /\ logs' = logs /\ found' = found
      /\ request' = request /\ logMutex' = logMutex
  BY DEF Look
<1>7. FoundInv'
  BY <1>1, <1>5, <1>6 DEF FoundInv, Looked
<1>8. AssignInv' /\ RequestInv'
  BY <1>1, <1>5, <1>6 DEF AssignInv, RequestInv
<1>9. HeldInv'
  BY <1>1, <1>3, <1>5, <1>6 DEF HeldInv
<1>10. CopyInv'
  <2>1. \A d \in Clients : pc'[d] = "copying" => pc[d] = "copying" /\ held[d] \subseteq held'[d]
    BY <1>3, <1>5
  <2> QED BY <2>1, <1>6 DEF CopyInv
<1> QED BY <1>4, <1>7, <1>8, <1>9, <1>10

LEMMA BeginAssignKeeps ==
  ASSUME IInv, NEW c \in Clients, BeginAssign(c) PROVE IInv'
<1> USE DEF IInv
<1>1. /\ found[c] = logs /\ logs \in Clients /\ request[c] \in Request
      /\ \A d \in Clients : pc[d] # "assigning"
      /\ \A d \in Clients : d \in At(c, "copy") \cup At(c, "copying") <=>
           pc[d] \in {"copy", "copying"}
      /\ \A d \in Clients : d \in At(c, "copying") <=> pc[d] = "copying"
  BY Locked DEF BeginAssign
<1> DEFINE v == request[c].data
<1>2. v \in Loggable /\ v \in LogValue /\ After(decision[found[c]], request[c]) = v
  BY <1>1, AssignsShape DEF BeginAssign, LogValue
<1>3. \A d \in Clients :
        held'[d] = CASE d = c -> {v}
                     [] pc[d] \in {"copy", "copying"} /\ d # c -> held[d] \cup {v}
                     [] OTHER -> held[d]
  <2>1. pc[c] = "locking"
    BY DEF BeginAssign
  <2> QED BY <1>1, <1>2, <2>1 DEF BeginAssign, Effect
<1>4. \A d \in Clients :
        copy'[d] = IF pc[d] = "copying" THEN Overlap(copy[d], v) ELSE copy[d]
  BY <1>1 DEF BeginAssign
<1>5. TypeOK'
  <2>1. \A d \in Clients : held'[d] \subseteq LogValue
    BY <1>2, <1>3 DEF TypeOK
  <2>2. held' \in [Clients -> SUBSET LogValue]
    BY <2>1 DEF BeginAssign, Effect
  <2>3. \A d \in Clients : copy'[d] \subseteq LogValue \cup {Torn}
    BY <1>2, <1>4 DEF TypeOK, Overlap
  <2>4. copy' \in [Clients -> SUBSET (LogValue \cup {Torn})]
    BY <2>3 DEF BeginAssign
  <2> QED BY <2>2, <2>4 DEF BeginAssign, Goto, TypeOK
<1>6. \A d \in Clients : /\ d # c => pc'[d] = pc[d]
                         /\ d = c => pc'[d] = "assigning" /\ pc[d] = "locking"
  BY DEF BeginAssign, Goto, TypeOK
<1>7. /\ decision' = decision /\ logs' = logs /\ found' = found
      /\ request' = request /\ logMutex' = logMutex
  BY DEF BeginAssign
<1>8. FoundInv'
  BY <1>1, <1>6, <1>7 DEF FoundInv, Looked
<1>9. AssignInv' /\ RequestInv'
  <2>1. \A d \in Clients : pc'[d] = "assigning" => d = c
    BY <1>1, <1>6
  <2>2. held'[c] = {v}
    BY <1>3
  <2>3. AssignInv'
    BY <1>2, <1>7, <2>1, <2>2 DEF AssignInv
  <2>4. RequestInv'
    BY <1>1, <1>6, <1>7 DEF RequestInv
  <2> QED BY <2>3, <2>4
<1>10. HeldInv'
  BY <1>1, <1>3, <1>6, <1>7 DEF HeldInv
<1>11. CopyInv'
  <2> SUFFICES ASSUME NEW d \in Clients, pc'[d] = "copying"
               PROVE  /\ copy'[d] \subseteq held'[d] \cup {Torn}
                      /\ \E u \in held'[d] : u \in copy'[d]
                      /\ Torn \in copy'[d] => \E u, w \in held'[d] : u # w
    BY DEF CopyInv
  <2>1. /\ pc[d] = "copying" /\ held'[d] = held[d] \cup {v}
        /\ copy'[d] = Overlap(copy[d], v)
    BY <1>3, <1>4, <1>6
  <2>2. PICK u \in held[d] : u \in copy[d]
    BY <2>1 DEF CopyInv
  <2>3. CASE v \in copy[d]
    <3>1. copy'[d] = copy[d]
      BY <2>1, <2>3 DEF Overlap
    <3> HIDE DEF v
    <3> QED BY <2>1, <3>1 DEF CopyInv
  <2>4. CASE v \notin copy[d]
    <3>1. copy'[d] = copy[d] \cup {v, Torn}
      BY <2>1, <2>4 DEF Overlap
    <3>2. u # v /\ u \in held'[d] /\ v \in held'[d] /\ u \in copy'[d]
      BY <2>1, <2>2, <2>4, <3>1
    <3>3. copy[d] \subseteq held[d] \cup {Torn}
      BY <2>1 DEF CopyInv
    <3> HIDE DEF v
    <3> QED BY <2>1, <3>1, <3>2, <3>3
  <2> QED BY <2>3, <2>4
<1> QED BY <1>5, <1>8, <1>9, <1>10, <1>11

LEMMA EndAssignKeeps ==
  ASSUME IInv, NEW c \in Clients, EndAssign(c) PROVE IInv'
<1> USE DEF IInv
<1> DEFINE v == request[c].data
<1>1. /\ pc[c] = "assigning" /\ found[c] = logs /\ logs \in Clients
      /\ v \in Loggable /\ v \in LogValue /\ held[c] = {v}
      /\ \A d \in Clients : pc[d] = "assigning" => d = c
  BY DEF EndAssign, FoundInv, AssignInv, Looked, LogValue
<1>2. TypeOK'
  BY <1>1 DEF EndAssign, Goto, TypeOK
<1>3. /\ decision'[logs] = v
      /\ \A d \in Clients : d # logs => decision'[d] = decision[d]
  BY <1>1 DEF EndAssign, TypeOK
<1>4. \A d \in Clients : /\ d # c => pc'[d] = pc[d]
                         /\ d = c => pc'[d] = "copy"
  BY DEF EndAssign, Goto, TypeOK
<1>5. /\ held' = held /\ copy' = copy /\ logs' = logs /\ found' = found
      /\ request' = request /\ logMutex' = logMutex
  BY DEF EndAssign
<1>6. FoundInv'
  BY <1>1, <1>3, <1>4, <1>5 DEF FoundInv, Looked
<1>7. AssignInv' /\ RequestInv' /\ CopyInv'
  BY <1>1, <1>4, <1>5 DEF AssignInv, RequestInv, CopyInv
<1>8. HeldInv'
  BY <1>1, <1>3, <1>4, <1>5 DEF HeldInv
<1> QED BY <1>2, <1>6, <1>7, <1>8

LEMMA BeginCopyKeeps ==
  ASSUME IInv, NEW c \in Clients, BeginCopy(c) PROVE IInv'
<1> USE DEF IInv
<1> DEFINE D == decision[logs]
           V == {D} \cup {request[d].data : d \in Assigning(c)}
           W == UNION {Overlap({D}, v) : v \in V}
<1>1. pc[c] = "copy" /\ found[c] = logs /\ logs \in Clients /\ D \in held[c]
  BY DEF BeginCopy, FoundInv, HeldInv, Looked
<1>2. V \subseteq held[c] /\ D \in V
  BY <1>1 DEF HeldInv, Assigning, At
<1>3. copy' = [copy EXCEPT ![c] = W]
  BY <1>1 DEF BeginCopy
<1>4. held[c] \subseteq LogValue
  BY DEF TypeOK
<1> HIDE DEF V
<1>5. W \subseteq held[c] \cup {Torn} /\ D \in W
  BY <1>1, <1>2 DEF Overlap
<1>6. Torn \in W => \E v, w \in held[c] : v # w
  <2>1. Torn \notin LogValue
    BY DEF Torn, LogValue, Loggable
  <2>2. SUFFICES ASSUME Torn \in W PROVE \E v \in V : v # D
    BY <1>1, <1>2
  <2>3. PICK v \in V : Torn \in Overlap({D}, v)
    BY <2>2
  <2> QED BY <1>1, <1>4, <2>1, <2>3 DEF Overlap
<1> HIDE DEF W, D
<1>7. TypeOK'
  BY <1>3, <1>4, <1>5 DEF BeginCopy, Goto, TypeOK
<1>8. \A d \in Clients : /\ d # c => pc'[d] = pc[d] /\ copy'[d] = copy[d]
                         /\ d = c => pc'[d] = "copying" /\ copy'[d] = W
  BY <1>3 DEF BeginCopy, Goto, TypeOK
<1>9. /\ held' = held /\ decision' = decision /\ logs' = logs /\ found' = found
      /\ request' = request /\ logMutex' = logMutex
  BY DEF BeginCopy
<1>10. FoundInv'
  BY <1>1, <1>8, <1>9 DEF FoundInv, Looked
<1>11. AssignInv' /\ RequestInv' /\ HeldInv'
  BY <1>1, <1>8, <1>9 DEF AssignInv, RequestInv, HeldInv
<1>12. CopyInv'
  BY <1>1, <1>5, <1>6, <1>8, <1>9 DEF CopyInv, D
<1> QED BY <1>7, <1>10, <1>11, <1>12

LEMMA EndCopyKeeps ==
  ASSUME IInv, NEW c \in Clients, EndCopy(c) PROVE IInv'
<1> USE DEF IInv
<1>1. PICK v \in copy[c] : answer' = [answer EXCEPT ![c] = v]
  BY DEF EndCopy
<1>2. v \in LogValue \cup {Torn}
  BY DEF TypeOK
<1>3. TypeOK'
  BY <1>1, <1>2 DEF EndCopy, Goto, TypeOK
<1>4. \A d \in Clients :
        /\ d # c => pc'[d] = pc[d] /\ copy'[d] = copy[d] /\ held'[d] = held[d]
        /\ d = c => pc'[d] = "idle"
  BY DEF EndCopy, Goto, TypeOK
<1>5. /\ decision' = decision /\ logs' = logs /\ found' = found
      /\ request' = request /\ logMutex' = logMutex
  BY DEF EndCopy
<1>6. FoundInv'
  BY <1>4, <1>5 DEF FoundInv, Looked
<1>7. AssignInv' /\ RequestInv' /\ HeldInv' /\ CopyInv'
  BY <1>4, <1>5 DEF AssignInv, RequestInv, HeldInv, CopyInv
<1> QED BY <1>3, <1>6, <1>7

LEMMA NextHolds == IInv /\ [Next]_vars => IInv'
<1> SUFFICES ASSUME IInv, [Next]_vars PROVE IInv'
  OBVIOUS
<1>1. ASSUME NEW c \in Clients, SendRequest(c) \/ ServerStep(c) PROVE IInv'
  BY <1>1, SendRequestKeeps, BeginFindKeeps, EndFindKeeps, LookKeeps, BeginAssignKeeps,
     EndAssignKeeps, BeginCopyKeeps, EndCopyKeeps DEF ServerStep
<1>2. CASE UNCHANGED vars
  BY <1>2 DEF vars, IInv, TypeOK, FoundInv, AssignInv, RequestInv, HeldInv, CopyInv
<1> QED BY <1>1, <1>2 DEF Next

(* One LogPair, one writer at a time, and nothing in a copy that the log   *)
(* has not held since the request took effect, except between two values.  *)
THEOREM InductiveInvariant == Spec => []IInv
BY InitHolds, NextHolds, PTL DEF Spec

(* The state of the DBMS and of its clients has its types. *)
THEOREM TypeCorrect == Spec => []TypeOK
BY InductiveInvariant, PTL DEF IInv

-----------------------------------------------------------------------------
(* The DBMS implements RegularLog. *)

LEMMA InitImplements == Init => R!RegularInit
BY DEF Init, R!RegularInit, ValueBar, StageBar, R!NoRequest, NoRequest, R!NoAnswer, NoAnswer

(* The three cases of ValueBar. *)
BarFacts ==
  /\ logs = Nobody => ValueBar = "WORKING"
  /\ (\A d \in Clients : pc[d] # "assigning") /\ logs # Nobody =>
       ValueBar = decision[logs]
  /\ \A d \in Clients : pc[d] = "assigning" =>
       logs # Nobody /\ ValueBar = request[d].data

LEMMA Bar == IInv => BarFacts
<1> SUFFICES ASSUME IInv PROVE BarFacts
  OBVIOUS
<1> DEFINE w == {d \in Clients : pc[d] = "assigning" /\ found[d] = logs}
<1>1. logs = Nobody => ValueBar = "WORKING"
  BY DEF ValueBar
<1>2. logs # Nobody /\ w = {} => ValueBar = decision[logs]
  BY DEF ValueBar
<1>3. logs # Nobody /\ w # {} => ValueBar = request[CHOOSE d \in w : TRUE].data
  BY DEF ValueBar
<1>4. ASSUME NEW d \in Clients, pc[d] = "assigning"
      PROVE  logs # Nobody /\ w = {d}
  <2>1. logs \in Clients /\ found[d] = logs /\ \A e \in Clients : pc[e] = "assigning" => e = d
    BY <1>4 DEF IInv, FoundInv, AssignInv, Looked
  <2> QED BY <1>4, <2>1, NobodyAssumption
<1>5. ASSUME NEW d \in Clients, pc[d] = "assigning"
      PROVE  ValueBar = request[d].data
  <2>1. w = {d} /\ (CHOOSE e \in {d} : TRUE) = d
    BY <1>4, <1>5
  <2> HIDE DEF w
  <2> QED BY <1>3, <1>4, <1>5, <2>1
<1> QED BY <1>1, <1>2, <1>4, <1>5 DEF BarFacts

(* What a step that neither assigns nor makes a LogPair leaves as it was.  *)
LEMMA SameValue ==
  ASSUME BarFacts, BarFacts', logs' = logs, decision' = decision,
         \A d \in Clients : pc'[d] = "assigning" <=> pc[d] = "assigning",
         \A d \in Clients : pc[d] = "assigning" => request'[d] = request[d]
  PROVE  ValueBar' = ValueBar
<1>1. CASE \E d \in Clients : pc[d] = "assigning"
  BY <1>1 DEF BarFacts
<1>2. CASE \A d \in Clients : pc[d] # "assigning"
  <2>1. CASE logs = Nobody
    BY <2>1 DEF BarFacts
  <2>2. CASE logs # Nobody
    BY <1>2, <2>2 DEF BarFacts
  <2> QED BY <2>1, <2>2
<1> QED BY <1>1, <1>2

LEMMA SendRequestImplements ==
  ASSUME IInv, BarFacts, BarFacts', NEW c \in Clients, SendRequest(c)
  PROVE  \E r \in Following(c) \cap Request : R!Ask(c, r)
<1> USE DEF IInv
<1>1. PICK r \in Following(c) \cap Request : request' = [request EXCEPT ![c] = r]
  BY FollowingRequests DEF SendRequest
<1>2. ValueBar' = ValueBar
  <2>1. \A d \in Clients : pc'[d] = "assigning" <=> pc[d] = "assigning"
    BY DEF SendRequest, Goto, TypeOK
  <2>2. \A d \in Clients : pc[d] = "assigning" => request'[d] = request[d]
    BY <1>1 DEF SendRequest, TypeOK
  <2> QED BY <2>1, <2>2, SameValue DEF SendRequest
<1>3. StageBar[c] = "idle" /\ StageBar' = [StageBar EXCEPT ![c] = "asked"]
  BY DEF SendRequest, Goto, TypeOK, StageBar
<1>4. R!Ask(c, r)
  BY <1>1, <1>2, <1>3 DEF SendRequest, R!Ask
<1> QED BY <1>4

(* The lookup, the end of an assignment and the beginning of a copy are    *)
(* steps that RegularLog does not see.                                     *)
LEMMA SearchStutters ==
  ASSUME IInv, BarFacts, BarFacts', NEW c \in Clients, BeginFind(c) \/ BeginCopy(c)
  PROVE  UNCHANGED R!regularVars
<1> USE DEF IInv
<1>1. ValueBar' = ValueBar
  <2>1. \A d \in Clients : pc'[d] = "assigning" <=> pc[d] = "assigning"
    BY DEF BeginFind, BeginCopy, Goto, TypeOK
  <2> QED BY <2>1, SameValue DEF BeginFind, BeginCopy
<1>2. StageBar' = StageBar
  BY DEF BeginFind, BeginCopy, Goto, TypeOK, StageBar
<1> QED BY <1>1, <1>2 DEF BeginFind, BeginCopy, R!regularVars

LEMMA EndFindStutters ==
  ASSUME IInv, BarFacts, BarFacts', TypeOK', NEW c \in Clients, EndFind(c)
  PROVE  UNCHANGED R!regularVars
<1> USE DEF IInv
<1>1. ValueBar' = ValueBar
  <2>1. \A d \in Clients : pc'[d] = "assigning" <=> pc[d] = "assigning"
    BY DEF EndFind, Goto, TypeOK
  <2>2. CASE logs # Nobody
    <3>1. logs' = logs
      BY <2>2 DEF EndFind, FoundInv
    <3> QED BY <2>1, <3>1, SameValue DEF EndFind
  <2>3. CASE logs = Nobody
    <3>1. logs' = c /\ logs' # Nobody /\ decision'[c] = "WORKING"
      BY <2>3, NobodyAssumption DEF EndFind, FoundInv
    <3>2. \A d \in Clients : pc'[d] # "assigning"
      BY <2>1, <2>3 DEF BarFacts
    <3> QED BY <2>3, <3>1, <3>2 DEF BarFacts
  <2> QED BY <2>2, <2>3
<1>2. StageBar' = StageBar
  BY DEF EndFind, Goto, TypeOK, StageBar
<1> QED BY <1>1, <1>2 DEF EndFind, R!regularVars

LEMMA EndAssignStutters ==
  ASSUME IInv, BarFacts, BarFacts', NEW c \in Clients, EndAssign(c)
  PROVE  UNCHANGED R!regularVars
<1> USE DEF IInv
<1>1. ValueBar' = ValueBar
  <2>1. /\ pc[c] = "assigning" /\ found[c] = logs /\ logs \in Clients
        /\ \A d \in Clients : pc[d] = "assigning" => d = c
    BY DEF EndAssign, FoundInv, AssignInv, Looked
  <2>2. \A d \in Clients : pc'[d] # "assigning"
    BY <2>1 DEF EndAssign, Goto, TypeOK
  <2>3. logs' = logs /\ decision'[logs'] = request[c].data
    BY <2>1 DEF EndAssign, TypeOK
  <2> QED BY <2>1, <2>2, <2>3, NobodyAssumption DEF BarFacts
<1>2. StageBar' = StageBar
  BY DEF EndAssign, Goto, TypeOK, StageBar
<1> QED BY <1>1, <1>2 DEF EndAssign, R!regularVars

LEMMA SameAfter == \A l, r : R!After(l, r) = After(l, r)
BY DEF R!After, After, R!LogOnce, LogOnce, R!LogWrite, LogWrite, R!LogRead, LogRead

(* The test of a LOG_READ or LOG_ONCE that changes nothing, and the start  *)
(* of an assignment, are the effect of the request.                        *)
LEMMA EffectImplements ==
  ASSUME IInv, BarFacts, BarFacts', NEW c \in Clients, Look(c) \/ BeginAssign(c)
  PROVE  R!TakeEffect(c)
<1> USE DEF IInv
<1>0. pc[c] = "locking" /\ CanLock(c)
  BY DEF Look, BeginAssign
<1>1. /\ found[c] = logs /\ logs \in Clients /\ request[c] \in Request
      /\ \A d \in Clients : pc[d] # "assigning"
      /\ \A d \in Clients : d \in At(c, "copy") \cup At(c, "copying") <=>
           pc[d] \in {"copy", "copying"}
  BY <1>0, Locked
<1>2. ValueBar = decision[logs]
  BY <1>1, NobodyAssumption DEF BarFacts
<1>3. ValueBar' = After(ValueBar, request[c])
  <2>1. CASE Look(c)
    <3>1. \A d \in Clients : pc'[d] # "assigning"
      BY <1>1, <2>1 DEF Look, Goto, TypeOK
    <3>2. ValueBar' = ValueBar
      BY <1>1, <2>1, <3>1, SameValue DEF Look
    <3>3. After(decision[logs], request[c]) = decision[logs]
      BY <1>1, <2>1, AssignsShape DEF Look
    <3> QED BY <1>2, <3>2, <3>3
  <2>2. CASE BeginAssign(c)
    <3>1. pc'[c] = "assigning" /\ request' = request
      BY <2>2 DEF BeginAssign, Goto, TypeOK
    <3>2. ValueBar' = request[c].data
      BY <3>1 DEF BarFacts
    <3>3. After(decision[logs], request[c]) = request[c].data
      BY <1>1, <2>2, AssignsShape DEF BeginAssign
    <3> QED BY <1>2, <3>2, <3>3
  <2> QED BY <2>1, <2>2
<1>4. StageBar[c] = "asked" /\ StageBar' = [StageBar EXCEPT ![c] = "effective"]
  BY DEF Look, BeginAssign, Goto, TypeOK, StageBar
<1>5. \A d \in Clients \ {c} : StageBar[d] = "effective" <=> pc[d] \in {"copy", "copying"}
  BY <1>1 DEF StageBar, TypeOK
<1>6. held' = [d \in Clients |->
                 CASE d = c -> {ValueBar'}
                   [] d # c /\ StageBar[d] = "effective" -> held[d] \cup {ValueBar'}
                   [] OTHER -> held[d]]
  <2> DEFINE a == After(decision[found[c]], request[c])
             f(d) == CASE d = c -> {a}
                       [] d \in At(c, "copy") \cup At(c, "copying") -> held[d] \cup {a}
                       [] OTHER -> held[d]
             g(d) == CASE d = c -> {ValueBar'}
                       [] d # c /\ StageBar[d] = "effective" -> held[d] \cup {ValueBar'}
                       [] OTHER -> held[d]
  <2>1. held' = [d \in Clients |-> f(d)]
    BY DEF Look, BeginAssign, Effect
  <2>2. a = ValueBar' /\ c \notin At(c, "copy") \cup At(c, "copying")
    BY <1>0, <1>1, <1>2, <1>3
  <2>3. \A d \in Clients : f(d) = g(d)
    <3> HIDE DEF a
    <3> QED BY <1>1, <1>5, <2>2
  <2> HIDE DEF f, g
  <2>4. held' = [d \in Clients |-> g(d)]
    BY <2>1, <2>3
  <2> QED BY <2>4 DEF g
<1>7. UNCHANGED <<request, answer>>
  BY DEF Look, BeginAssign
<1> QED BY <1>3, <1>4, <1>6, <1>7, SameAfter DEF R!TakeEffect

LEMMA EndCopyImplements ==
  ASSUME IInv, BarFacts, BarFacts', NEW c \in Clients, EndCopy(c)
  PROVE  R!Reply(c)
<1> USE DEF IInv
<1>1. PICK v \in copy[c] : answer' = [answer EXCEPT ![c] = v]
  BY DEF EndCopy
<1>2. v \in held[c] \cup {Torn} /\ (v = Torn => R!HasChanged(c))
  BY DEF EndCopy, CopyInv, R!HasChanged
<1>3. ValueBar' = ValueBar
  <2>1. \A d \in Clients : pc'[d] = "assigning" <=> pc[d] = "assigning"
    BY DEF EndCopy, Goto, TypeOK
  <2> QED BY <2>1, SameValue DEF EndCopy
<1>4. StageBar[c] = "effective" /\ StageBar' = [StageBar EXCEPT ![c] = "idle"]
  BY DEF EndCopy, Goto, TypeOK, StageBar
<1>5. held' = [held EXCEPT ![c] = {}] /\ request' = request
  BY DEF EndCopy
<1> QED BY <1>1, <1>2, <1>3, <1>4, <1>5 DEF R!Reply, R!Torn, Torn

(* Each step of DbmsLog, as one of RegularLog. *)
LogStep(c) == \/ \E r \in Following(c) \cap Request : R!Ask(c, r)
              \/ R!TakeEffect(c) \/ R!Reply(c)

LEMMA StepImplements ==
  ASSUME IInv, IInv', BarFacts, BarFacts', [Next]_vars
  PROVE  /\ kind' = kind
         /\ (\E c \in Clients : LogStep(c)) \/ UNCHANGED R!regularVars
<1>1. ASSUME NEW c \in Clients, SendRequest(c) PROVE LogStep(c)
  BY <1>1, SendRequestImplements DEF LogStep
<1>2. ASSUME NEW c \in Clients, ServerStep(c)
      PROVE  LogStep(c) \/ UNCHANGED R!regularVars
  <2>1. CASE BeginFind(c) \/ BeginCopy(c)
    BY <2>1, SearchStutters
  <2>2. CASE EndFind(c)
    BY <2>2, EndFindStutters DEF IInv
  <2>3. CASE EndAssign(c)
    BY <2>3, EndAssignStutters
  <2>4. CASE Look(c) \/ BeginAssign(c)
    BY <2>4, EffectImplements DEF LogStep
  <2>5. CASE EndCopy(c)
    BY <2>5, EndCopyImplements DEF LogStep
  <2> QED BY <1>2, <2>1, <2>2, <2>3, <2>4, <2>5 DEF ServerStep
<1>3. ASSUME UNCHANGED vars PROVE UNCHANGED R!regularVars
  BY <1>3 DEF vars, R!regularVars, ValueBar, StageBar
<1>4. kind' = kind
  BY DEF Next, ServerStep, SendRequest, BeginFind, EndFind, Look, BeginAssign,
         EndAssign, BeginCopy, EndCopy, vars
<1> QED BY <1>1, <1>2, <1>3, <1>4 DEF Next

LEMMA LogStepImplements ==
  ASSUME NEW c \in Clients, LogStep(c) PROVE R!RegularNext
BY DEF LogStep, R!RegularNext, R!Request, Request, R!Loggable, Loggable,
       R!Once, Once, R!Write, Write, R!Read, Read

(* Clients may take the DBMS for RegularLog, where a request takes effect  *)
(* at once: its mutexes, its lookup of the log and its copies made without *)
(* a lock add no behavior, except that an answer may be late or torn.      *)
THEOREM Refinement == Spec => ImplementsRegularLog
<1>1. Spec => []BarFacts
  BY InductiveInvariant, Bar, PTL
<1>2. IInv /\ IInv' /\ BarFacts /\ BarFacts' /\ [Next]_vars
        => [R!RegularNext]_(R!regularVars)
  BY StepImplements, LogStepImplements
<1> QED BY <1>1, <1>2, InitImplements, InductiveInvariant, PTL
        DEF Spec, ImplementsRegularLog, R!RegularSpec

-----------------------------------------------------------------------------
(* A log settles the vote of its participant.  The argument is about       *)
(* RegularLog: Seen(X) says what the terminators may have been told or     *)
(* will be, and the four states are those of a participant.                *)

Seen(X) == \A t \in Clients : kind[t] = "terminator" =>
  /\ request[t] \in {NoRequest, Once("ABORT")}
  /\ StageBar[t] # "idle" => request[t] = Once("ABORT")
  /\ answer[t] \in X \cup {NoAnswer}
  /\ StageBar[t] = "effective" => held[t] \subseteq X

Unsettled(v) ==
  /\ \/ request[v] = NoRequest /\ StageBar[v] = "idle"
     \/ request[v] = Once("VOTEYES") /\ StageBar[v] = "asked"
  /\ answer[v] = NoAnswer
  /\ \/ ValueBar = "WORKING" /\ Seen({})
     \/ ValueBar = "ABORT" /\ Seen({"ABORT"})

Settled(v, x) ==
  /\ request[v] = Once("VOTEYES")
  /\ \/ StageBar[v] = "effective" /\ held[v] = {x} /\ answer[v] = NoAnswer
     \/ StageBar[v] = "idle" /\ answer[v] = x
  /\ ValueBar = x /\ Seen({x})

(* The participant knows that its vote counts. *)
Voted(v) ==
  /\ \/ /\ request[v] = Once("ABORT") /\ answer[v] = "VOTEYES"
        /\ StageBar[v] = "effective" => held[v] = {"VOTEYES"}
     \/ /\ \E d \in Decision : request[v] = Write(d)
        /\ StageBar[v] = "asked"
  /\ ValueBar = "VOTEYES" /\ Seen({"VOTEYES"})

Decided(v) == \E d \in Decision :
  /\ request[v] = Write(d) /\ StageBar[v] # "asked"
  /\ ValueBar = d /\ Seen({"VOTEYES", d, Torn})

VoteState(v) == \/ Unsettled(v) \/ Settled(v, "VOTEYES") \/ Settled(v, "ABORT")
                \/ Voted(v) \/ Decided(v)

AbsentInv == \A c \in Clients : kind[c] = "absent" =>
               request[c] = NoRequest /\ StageBar[c] = "idle"

VoteInv == AbsentInv /\ \A v \in Clients : kind[v] = "voter" => VoteState(v)

VoteTypes ==
  /\ kind \in [Clients -> Kinds]
  /\ StageBar \in [Clients -> {"idle", "asked", "effective"}]
  /\ request \in [Clients -> Request \cup {NoRequest}]
  /\ answer \in [Clients -> LogValue \cup {Torn, NoAnswer}]
  /\ held \in [Clients -> SUBSET LogValue]
  /\ \A v, c \in Clients : kind[v] = "voter" /\ c # v => kind[c] \in {"terminator", "absent"}

LEMMA VoteTyped == ASSUME TypeOK PROVE VoteTypes
BY KindAssumption, VoterAssumption DEF TypeOK, VoteTypes, StageBar

LEMMA Distinct ==
  /\ Once("VOTEYES") # NoRequest /\ Once("ABORT") # NoRequest
  /\ Once("VOTEYES") # Once("ABORT")
  /\ \A d \in Decision : /\ Write(d) # NoRequest
                         /\ Write(d) # Once("VOTEYES") /\ Write(d) # Once("ABORT")
  /\ Write("COMMIT") # Write("ABORT")
BY DEF NoRequest, Once, Write, Decision

LEMMA Values ==
  /\ \A l : After(l, Once("ABORT")) = IF l # "WORKING" THEN l ELSE "ABORT"
  /\ \A l : After(l, Once("VOTEYES")) = IF l # "WORKING" THEN l ELSE "VOTEYES"
  /\ \A l : \A d \in Decision : After(l, Write(d)) = d
BY DEF After, Once, Write, LogOnce, LogWrite, Decision

LEMMA TerminatorAsks ==
  ASSUME NEW c \in Clients, kind[c] = "terminator"
  PROVE  /\ request[c] = NoRequest => Following(c) = {Once("ABORT")}
         /\ request[c] # NoRequest => Following(c) = {}
BY DEF Following, First

LEMMA VoterAsks ==
  ASSUME NEW c \in Clients, kind[c] = "voter"
  PROVE  /\ request[c] = NoRequest => Following(c) = {Once("VOTEYES")}
         /\ request[c] = Once("VOTEYES") /\ answer[c] = "VOTEYES" =>
              Following(c) = {Write(d) : d \in Decision} \cup {Once("ABORT")}
         /\ request[c] = Once("VOTEYES") /\ answer[c] # "VOTEYES" => Following(c) = {}
         /\ request[c] = Once("ABORT") => Following(c) \subseteq {Write(d) : d \in Decision}
         /\ \A d \in Decision : request[c] = Write(d) => Following(c) = {}
BY DEF Following, First, NoRequest, Once, Write, Read, Decision

LEMMA SeenAsk ==
  ASSUME VoteTypes, kind' = kind, NEW c \in Clients, NEW r \in Following(c), R!Ask(c, r),
         NEW X, Seen(X)
  PROVE  Seen(X)'
<1> SUFFICES ASSUME NEW t \in Clients, kind[t] = "terminator"
             PROVE  /\ request'[t] \in {NoRequest, Once("ABORT")}
                    /\ StageBar'[t] # "idle" => request'[t] = Once("ABORT")
                    /\ answer'[t] \in X \cup {NoAnswer}
                    /\ StageBar'[t] = "effective" => held'[t] \subseteq X
  BY DEF Seen
<1>1. CASE t = c
  BY <1>1, TerminatorAsks DEF VoteTypes, Seen, R!Ask
<1>2. CASE t # c
  BY <1>2 DEF VoteTypes, Seen, R!Ask
<1> QED BY <1>1, <1>2

LEMMA SeenEffect ==
  ASSUME VoteTypes, kind' = kind, NEW c \in Clients, R!TakeEffect(c),
         NEW X, NEW Y, Seen(X), X \subseteq Y, ValueBar' \in Y
  PROVE  Seen(Y)'
<1> SUFFICES ASSUME NEW t \in Clients, kind[t] = "terminator"
             PROVE  /\ request'[t] \in {NoRequest, Once("ABORT")}
                    /\ StageBar'[t] # "idle" => request'[t] = Once("ABORT")
                    /\ answer'[t] \in Y \cup {NoAnswer}
                    /\ StageBar'[t] = "effective" => held'[t] \subseteq Y
  BY DEF Seen
<1>1. /\ request' = request /\ answer' = answer
      /\ StageBar[t] # "idle" => request[t] = Once("ABORT")
      /\ request[t] \in {NoRequest, Once("ABORT")} /\ answer[t] \in X \cup {NoAnswer}
      /\ StageBar[t] = "effective" => held[t] \subseteq X
  BY DEF Seen, R!TakeEffect
<1>2. CASE t = c
  BY <1>1, <1>2 DEF VoteTypes, R!TakeEffect
<1>3. CASE t # c
  BY <1>1, <1>3 DEF VoteTypes, R!TakeEffect
<1> QED BY <1>2, <1>3

LEMMA SeenReply ==
  ASSUME VoteTypes, kind' = kind, NEW c \in Clients, R!Reply(c),
         NEW X, Seen(X), \/ Torn \in X
                         \/ \A u, w \in X : u = w
  PROVE  Seen(X)'
<1> SUFFICES ASSUME NEW t \in Clients, kind[t] = "terminator"
             PROVE  /\ request'[t] \in {NoRequest, Once("ABORT")}
                    /\ StageBar'[t] # "idle" => request'[t] = Once("ABORT")
                    /\ answer'[t] \in X \cup {NoAnswer}
                    /\ StageBar'[t] = "effective" => held'[t] \subseteq X
  BY DEF Seen
<1>1. PICK u \in held[c] \cup {Torn} :
        /\ u = Torn => \E v, w \in held[c] : v # w
        /\ answer' = [answer EXCEPT ![c] = u]
  BY DEF R!Reply, R!HasChanged, R!Torn, Torn
<1>2. CASE t = c
  <2>1. held[c] \subseteq X
    BY <1>2 DEF Seen, R!Reply
  <2>2. u \in X
    BY <1>1, <2>1
  <2> QED BY <1>1, <1>2, <2>2 DEF VoteTypes, Seen, R!Reply
<1>3. CASE t # c
  BY <1>1, <1>3 DEF VoteTypes, Seen, R!Reply
<1> QED BY <1>2, <1>3

LEMMA AbsentKept ==
  ASSUME VoteTypes, AbsentInv, kind' = kind, NEW c \in Clients, LogStep(c)
  PROVE  AbsentInv'
<1>1. kind[c] = "absent" => Following(c) = {}
  BY DEF AbsentInv, Following, First
<1>2. kind[c] # "absent"
  BY <1>1 DEF LogStep, AbsentInv, R!TakeEffect, R!Reply
<1>3. \A d \in Clients \ {c} : request'[d] = request[d] /\ StageBar'[d] = StageBar[d]
  BY DEF LogStep, R!Ask, R!TakeEffect, R!Reply, VoteTypes
<1> QED BY <1>2, <1>3 DEF AbsentInv

(* Somebody else's step: only a terminator can change the log. *)
LEMMA OthersStep ==
  ASSUME VoteTypes, kind' = kind, AbsentInv, NEW v \in Clients, kind[v] = "voter", VoteState(v),
         NEW c \in Clients \ {v}, LogStep(c)
  PROVE  VoteState(v)'
<1>1. kind[c] = "terminator"
  <2>1. kind[c] # "absent"
    BY DEF AbsentInv, LogStep, R!TakeEffect, R!Reply, Following, First
  <2> QED BY <2>1 DEF VoteTypes
<1>2. /\ request'[v] = request[v] /\ StageBar'[v] = StageBar[v] /\ answer'[v] = answer[v]
  BY DEF LogStep, R!Ask, R!TakeEffect, R!Reply, VoteTypes
<1>3. CASE \E r \in Following(c) \cap Request : R!Ask(c, r)
  <2>1. /\ ValueBar' = ValueBar /\ held'[v] = held[v]
        /\ \A X : Seen(X) => Seen(X)'
    BY <1>3, SeenAsk DEF R!Ask
  <2> QED BY <1>2, <2>1 DEF VoteState, Unsettled, Settled, Voted, Decided
<1>4. CASE R!Reply(c)
  <2>1. /\ ValueBar' = ValueBar /\ held'[v] = held[v]
        /\ Seen({}) => Seen({})'
        /\ \A x : Seen({x}) => Seen({x})'
        /\ \A x, y : Seen({x, y, Torn}) => Seen({x, y, Torn})'
    <3>1. ValueBar' = ValueBar /\ held'[v] = held[v]
      BY <1>4 DEF R!Reply, VoteTypes
    <3> QED BY <1>4, <3>1, SeenReply
  <2> QED BY <1>2, <2>1 DEF VoteState, Unsettled, Settled, Voted, Decided
<1>5. CASE R!TakeEffect(c)
  <2>1. request[c] = Once("ABORT")
    BY <1>1, <1>5 DEF VoteState, Unsettled, Settled, Voted, Decided, Seen, R!TakeEffect
  <2>2. ValueBar' = IF ValueBar # "WORKING" THEN ValueBar ELSE "ABORT"
    BY <1>5, <2>1, SameAfter, Values DEF R!TakeEffect
  <2>3. held'[v] = IF StageBar[v] = "effective" THEN held[v] \cup {ValueBar'} ELSE held[v]
    BY <1>5 DEF R!TakeEffect
  <2>4. \A X, Y : Seen(X) /\ X \subseteq Y /\ ValueBar' \in Y => Seen(Y)'
    BY <1>5, SeenEffect
  <2>5. CASE Unsettled(v)
    <3>1. ValueBar' = "ABORT" /\ Seen({"ABORT"})'
      BY <2>2, <2>4, <2>5 DEF Unsettled
    <3> QED BY <1>2, <2>5, <3>1 DEF VoteState, Unsettled
  <2>6. ASSUME NEW x \in {"VOTEYES", "ABORT"}, Settled(v, x) PROVE Settled(v, x)'
    <3>1. ValueBar' = x /\ Seen({x})'
      BY <2>2, <2>4, <2>6 DEF Settled
    <3>2. StageBar[v] = "effective" => held'[v] = held[v]
      BY <2>3, <2>6, <3>1 DEF Settled
    <3> QED BY <1>2, <2>6, <3>1, <3>2 DEF Settled
  <2>7. CASE Voted(v)
    <3>1. ValueBar' = "VOTEYES" /\ Seen({"VOTEYES"})'
      BY <2>2, <2>4, <2>7 DEF Voted
    <3>2. request[v] = Once("ABORT") /\ StageBar[v] = "effective" => held'[v] = held[v]
      BY <2>3, <2>7, <3>1, Distinct DEF Voted
    <3> QED BY <1>2, <2>7, <3>1, <3>2 DEF VoteState, Voted
  <2>8. CASE Decided(v)
    <3>1. PICK d \in Decision : /\ request[v] = Write(d) /\ StageBar[v] # "asked"
                                /\ ValueBar = d /\ Seen({"VOTEYES", d, Torn})
      BY <2>8 DEF Decided
    <3>2. ValueBar' = d /\ Seen({"VOTEYES", d, Torn})'
      BY <2>2, <2>4, <3>1 DEF Decision
    <3> QED BY <1>2, <3>1, <3>2 DEF VoteState, Decided
  <2> QED BY <2>5, <2>6, <2>7, <2>8 DEF VoteState
<1> QED BY <1>3, <1>4, <1>5 DEF LogStep

LEMMA VoterStep ==
  ASSUME VoteTypes, kind' = kind, NEW v \in Clients, kind[v] = "voter", VoteState(v), LogStep(v)
  PROVE  VoteState(v)'
<1>1. ASSUME NEW r \in Following(v), R!Ask(v, r) PROVE VoteState(v)'
  <2>1. /\ request'[v] = r /\ StageBar'[v] = "asked" /\ StageBar[v] = "idle"
        /\ ValueBar' = ValueBar /\ answer' = answer
    BY <1>1 DEF R!Ask, VoteTypes
  <2>2. \A X : Seen(X) => Seen(X)'
    BY <1>1, SeenAsk
  <2>3. CASE Unsettled(v)
    <3>1. r = Once("VOTEYES")
      BY <1>1, <2>1, <2>3, VoterAsks DEF Unsettled
    <3> QED BY <2>1, <2>2, <2>3, <3>1 DEF VoteState, Unsettled
  <2>4. CASE Settled(v, "VOTEYES")
    <3>1. r \in {Write(d) : d \in Decision} \cup {Once("ABORT")} /\ answer[v] = "VOTEYES"
      BY <1>1, <2>1, <2>4, VoterAsks DEF Settled
    <3> QED BY <2>1, <2>2, <2>4, <3>1 DEF VoteState, Voted, Settled
  <2>5. CASE Settled(v, "ABORT")
    BY <1>1, <2>1, <2>5, VoterAsks DEF Settled
  <2>6. CASE Voted(v)
    <3>1. r \in {Write(d) : d \in Decision}
      BY <1>1, <2>1, <2>6, VoterAsks DEF Voted
    <3> QED BY <2>1, <2>2, <2>6, <3>1 DEF VoteState, Voted
  <2>7. CASE Decided(v)
    BY <1>1, <2>7, VoterAsks DEF Decided
  <2> QED BY <2>3, <2>4, <2>5, <2>6, <2>7 DEF VoteState
<1>2. CASE R!TakeEffect(v)
  <2>1. /\ request' = request /\ answer' = answer
        /\ StageBar[v] = "asked" /\ StageBar'[v] = "effective"
        /\ held'[v] = {ValueBar'} /\ ValueBar' = After(ValueBar, request[v])
    BY <1>2, SameAfter DEF R!TakeEffect, VoteTypes
  <2>2. \A X, Y : Seen(X) /\ X \subseteq Y /\ ValueBar' \in Y => Seen(Y)'
    BY <1>2, SeenEffect
  <2>3. CASE Unsettled(v)
    <3>1. request[v] = Once("VOTEYES")
      BY <2>1, <2>3 DEF Unsettled
    <3>2. CASE ValueBar = "WORKING" /\ Seen({})
      <4>1. ValueBar' = "VOTEYES" /\ Seen({"VOTEYES"})'
        BY <2>1, <2>2, <3>1, <3>2, Values
      <4> QED BY <2>1, <2>3, <3>1, <4>1 DEF VoteState, Settled, Unsettled
    <3>3. CASE ValueBar = "ABORT" /\ Seen({"ABORT"})
      <4>1. ValueBar' = "ABORT" /\ Seen({"ABORT"})'
        BY <2>1, <2>2, <3>1, <3>3, Values
      <4> QED BY <2>1, <2>3, <3>1, <4>1 DEF VoteState, Settled, Unsettled
    <3> QED BY <2>3, <3>2, <3>3 DEF Unsettled
  <2>4. CASE Voted(v)
    <3>1. CASE request[v] = Once("ABORT")
      <4>1. ValueBar' = "VOTEYES" /\ Seen({"VOTEYES"})' /\ answer[v] = "VOTEYES"
        BY <2>1, <2>2, <2>4, <3>1, Values, Distinct DEF Voted
      <4> QED BY <2>1, <3>1, <4>1 DEF VoteState, Voted
    <3>2. ASSUME NEW d \in Decision, request[v] = Write(d) PROVE Decided(v)'
      <4>1. ValueBar' = d /\ Seen({"VOTEYES", d, Torn})'
        BY <2>1, <2>2, <2>4, <3>2, Values DEF Voted
      <4> QED BY <2>1, <3>2, <4>1 DEF Decided
    <3> QED BY <2>4, <3>1, <3>2 DEF Voted, VoteState
  <2>5. ~ Settled(v, "VOTEYES") /\ ~ Settled(v, "ABORT") /\ ~ Decided(v)
    BY <2>1 DEF Settled, Decided
  <2> QED BY <2>3, <2>4, <2>5 DEF VoteState
<1>3. CASE R!Reply(v)
  <2>1. PICK u \in held[v] \cup {Torn} :
          /\ u = Torn => \E x, y \in held[v] : x # y
          /\ answer' = [answer EXCEPT ![v] = u]
    BY <1>3 DEF R!Reply, R!HasChanged, R!Torn, Torn
  <2>2. /\ request' = request /\ ValueBar' = ValueBar /\ answer'[v] = u
        /\ StageBar[v] = "effective" /\ StageBar'[v] = "idle"
    BY <1>3, <2>1 DEF R!Reply, VoteTypes
  <2>3. /\ \A x : Seen({x}) => Seen({x})'
        /\ \A x, y : Seen({x, y, Torn}) => Seen({x, y, Torn})'
    BY <1>3, SeenReply
  <2>4. \A x : held[v] = {x} => answer'[v] = x
    BY <2>1, <2>2
  <2>5. ASSUME NEW x \in {"VOTEYES", "ABORT"}, Settled(v, x) PROVE Settled(v, x)'
    BY <2>2, <2>3, <2>4, <2>5 DEF Settled
  <2>6. CASE Voted(v)
    BY <2>2, <2>3, <2>4, <2>6 DEF Voted, VoteState
  <2>7. CASE Decided(v)
    BY <2>2, <2>3, <2>7 DEF Decided, VoteState
  <2>8. ~ Unsettled(v)
    BY <2>2 DEF Unsettled
  <2> QED BY <2>5, <2>6, <2>7, <2>8 DEF VoteState
<1> QED BY <1>1, <1>2, <1>3 DEF LogStep

LEMMA VoteInit == Init => VoteInv
<1> SUFFICES ASSUME Init PROVE VoteInv
  OBVIOUS
<1>1. /\ ValueBar = "WORKING" /\ StageBar = [c \in Clients |-> "idle"]
      /\ request = [c \in Clients |-> NoRequest] /\ answer = [c \in Clients |-> NoAnswer]
  BY DEF Init, ValueBar, StageBar
<1>2. Seen({})
  BY <1>1 DEF Seen
<1> QED BY <1>1, <1>2 DEF VoteInv, AbsentInv, VoteState, Unsettled

LEMMA VoteNext ==
  IInv /\ IInv' /\ BarFacts /\ BarFacts' /\ VoteInv /\ [Next]_vars => VoteInv'
<1> SUFFICES ASSUME IInv, IInv', BarFacts, BarFacts', VoteInv, [Next]_vars
             PROVE  VoteInv'
  OBVIOUS
<1>1. VoteTypes /\ kind' = kind
  BY StepImplements, VoteTyped DEF IInv
<1>2. ASSUME NEW c \in Clients, LogStep(c) PROVE VoteInv'
  <2>1. AbsentInv'
    BY <1>1, <1>2, AbsentKept DEF VoteInv
  <2>2. ASSUME NEW v \in Clients, kind[v] = "voter" PROVE VoteState(v)'
    BY <1>1, <1>2, <2>2, OthersStep, VoterStep DEF VoteInv
  <2> QED BY <1>1, <2>1, <2>2 DEF VoteInv
<1>3. CASE UNCHANGED R!regularVars
  <2>1. /\ ValueBar' = ValueBar /\ request' = request /\ StageBar' = StageBar
        /\ held' = held /\ answer' = answer
    BY <1>3 DEF R!regularVars
  <2>2. \A X : Seen(X) => Seen(X)'
    BY <1>1, <2>1 DEF Seen
  <2>3. ASSUME NEW v \in Clients, VoteState(v) PROVE VoteState(v)'
    BY <2>1, <2>2, <2>3 DEF VoteState, Unsettled, Settled, Voted, Decided
  <2> QED BY <1>1, <2>1, <2>3 DEF VoteInv, AbsentInv
<1> QED BY <1>2, <1>3, StepImplements

(* A log settles the vote of its participant once, for the participant and *)
(* every termination protocol, however late their answers are copied.      *)
THEOREM VoteIsSettledOnce == Spec => []VoteSettledOnce
<1>1. Spec => []VoteInv
  <2>1. Spec => []BarFacts
    BY InductiveInvariant, Bar, PTL
  <2> QED BY <2>1, VoteInit, VoteNext, InductiveInvariant, PTL DEF Spec
<1>2. VoteInv => VoteSettledOnce
  <2> SUFFICES ASSUME VoteInv, NEW v \in Clients, NEW t \in Clients,
                      kind[v] = "voter", kind[t] = "terminator"
               PROVE  /\ answer[t] = "ABORT" /\ ToldYes(v) => request[v] = Write("ABORT")
                      /\ answer[t] = "COMMIT" => request[v] = Write("COMMIT")
                      /\ ToldNo(v) => answer[v] = "ABORT" /\ answer[t] \in {"ABORT", NoAnswer}
                      /\ request[v] = Once("ABORT") => answer[v] = "VOTEYES"
    BY DEF VoteSettledOnce
  <2> USE Distinct DEF ToldYes, ToldNo, Seen, NoAnswer, Torn
  <2>1. CASE Unsettled(v)
    BY <2>1 DEF Unsettled
  <2>2. CASE Settled(v, "VOTEYES") \/ Settled(v, "ABORT")
    BY <2>2 DEF Settled
  <2>3. CASE Voted(v)
    BY <2>3 DEF Voted
  <2>4. CASE Decided(v)
    BY <2>4 DEF Decided, Decision
  <2> QED BY <2>1, <2>2, <2>3, <2>4 DEF VoteInv, VoteState
<1> QED BY <1>1, <1>2, PTL
=============================================================================
