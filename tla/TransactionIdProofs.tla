------------------------ MODULE TransactionIdProofs -------------------------
(***************************************************************************)
(* Proofs about TransactionId, for all nodes, threads and widths.          *)
(***************************************************************************)
EXTENDS TransactionId, FiniteSetTheorems, TLAPS

S == 2^NodeBits
K == 2^(CounterBits - NodeBits)

LEMMA Widths == /\ S \in Nat \ {0} /\ K \in Nat \ {0}
                /\ 2^CounterBits = K * S
                /\ Nodes \subseteq 0..(S - 1)
BY PowerAssumption, NodesAssumption DEF S, K

-----------------------------------------------------------------------------
(* Arithmetic. *)

LEMMA Order ==
  ASSUME NEW i \in Int, NEW j \in Int, NEW s \in Nat \ {0}, i < j
  PROVE  i * s + s <= j * s
<1>1. (j - i - 1) * s >= 0
  <2>1. \A x, y \in Nat : x * y >= 0
    OBVIOUS
  <2> QED BY <2>1
<1>2. (j - i - 1) * s = j * s - i * s - s
  OBVIOUS
<1> QED BY <1>1, <1>2

LEMMA Remainder ==
  ASSUME NEW i \in Int, NEW j \in Int, NEW s \in Nat \ {0},
         NEW n \in 0..(s - 1), NEW m \in 0..(s - 1), i * s + n = j * s + m
  PROVE  i = j /\ n = m
<1>0. i * s \in Int /\ j * s \in Int
  OBVIOUS
<1>1. CASE i < j
  <2>1. i * s + s <= j * s
    BY <1>1, Order
  <2> QED BY <1>0, <2>1
<1>2. CASE j < i
  <2>1. j * s + s <= i * s
    BY <1>2, Order
  <2> QED BY <1>0, <2>1
<1>3. CASE i = j
  BY <1>0, <1>3
<1> QED BY <1>1, <1>2, <1>3

(* The upper part of an id is a multiple of the shift, also when it wraps. *)
LEMMA Multiple ==
  ASSUME NEW c \in Nat, NEW k \in Nat \ {0}, NEW s \in Nat \ {0}
  PROVE  \E j \in Int : (c * s) % (k * s) = j * s
<1> DEFINE x == c * s
           M == k * s
           q == x \div M
<1>1. x \in Nat /\ M \in Nat
  OBVIOUS
<1>2. M > 0
  <2>1. 0 * s + s <= k * s
    BY Order
  <2> QED BY <2>1
<1>3. q \in Int /\ x % M = x - M * q
  <2> HIDE DEF x, M
  <2> QED BY <1>1, <1>2
<1>4. x - M * q = (c - k * q) * s
  <2> HIDE DEF q
  <2> QED BY <1>3
<1>5. c - k * q \in Int
  <2> HIDE DEF q
  <2> QED BY <1>3
<1> QED BY <1>3, <1>4, <1>5

LEMMA Small ==
  ASSUME NEW x \in Nat, NEW M \in Nat, x < M
  PROVE  x % M = x
OBVIOUS

-----------------------------------------------------------------------------
(* What a node can issue. *)

IdsOf(n) == {Id(n, c) : c \in Nat}

LEMMA Disjoint ==
  ASSUME NEW n \in Nodes, NEW m \in Nodes, NEW c \in Nat, NEW d \in Nat,
         Id(n, c) = Id(m, d)
  PROVE  n = m
<1>1. PICK i \in Int : (c * S) % (K * S) = i * S
  BY Multiple, Widths
<1>2. PICK j \in Int : (d * S) % (K * S) = j * S
  BY Multiple, Widths
<1>3. Id(n, c) = i * S + n /\ Id(m, d) = j * S + m
  BY <1>1, <1>2, Widths DEF Id, S
<1>4. n \in 0..(S - 1) /\ m \in 0..(S - 1)
  BY Widths
<1>5. i * S + n = j * S + m
  BY <1>3
<1> HIDE DEF S
<1> QED BY <1>4, <1>5, Widths, Remainder

(* Before the shift has used up the counter, every value gives an id.      *)
LEMMA Fresh ==
  ASSUME NEW n \in Nodes, NEW c \in 0..(K - 1), NEW d \in 0..(K - 1),
         Id(n, c) = Id(n, d)
  PROVE  c = d
<1>1. ASSUME NEW e \in 0..(K - 1) PROVE (e * S) % (K * S) = e * S
  <2>1. e * S + S <= K * S
    BY <1>1, Order, Widths
  <2>2. e * S \in Nat /\ K * S \in Nat /\ e * S < K * S
    BY <2>1, <1>1, Widths
  <2> QED BY <2>2, Small
<1>2. Id(n, c) = c * S + n /\ Id(n, d) = d * S + n
  BY <1>1, Widths DEF Id, S
<1>3. n \in 0..(S - 1) /\ c \in Int /\ d \in Int
  <2> HIDE DEF S, K
  <2> QED BY Widths
<1>4. c * S + n = d * S + n
  BY <1>2
<1> HIDE DEF S, K
<1> QED BY <1>3, <1>4, Widths, Remainder

-----------------------------------------------------------------------------
(* The inductive invariant. *)

TypeInv ==
  /\ transactionCounter \in [Nodes -> Nat]
  /\ step \in [Threads -> {"called", "increment", "store"}]
  /\ newID \in [Threads -> Int]
  /\ loaded \in [Threads -> Nat]
  /\ issued \in [Nodes -> Seq([id : Int, counter : Nat])]

(* A node issues its own ids, whatever its counter is. *)
OwnIds ==
  /\ \A t \in Threads : step[t] # "called" => newID[t] \in IdsOf(NodeOf(t))
  /\ \A n \in Nodes : \A i \in 1..Len(issued[n]) : issued[n][i].id \in IdsOf(n)

Single(n) == n \in Nodes \ MayRestart /\ Cardinality(Workers[n]) = 1

(* A node with one worker counts the ids it has issued. *)
Counts(n) ==
  /\ Len(issued[n]) < K => transactionCounter[n] = Len(issued[n])
  /\ \A t \in Threads : NodeOf(t) = n /\ Len(issued[n]) < K =>
       /\ step[t] # "called" => newID[t] = Id(n, Len(issued[n]))
       /\ step[t] = "store" => loaded[t] = Len(issued[n])
  /\ \A i \in 1..Len(issued[n]) : i <= K => issued[n][i].id = Id(n, i - 1)

IInv == TypeInv /\ OwnIds /\ \A n \in Nodes : Single(n) => Counts(n)

LEMMA ThreadNode == \A t \in Threads : NodeOf(t) \in Nodes
BY DEF Threads, NodeOf

LEMMA OneThread ==
  ASSUME NEW n \in Nodes, Single(n), NEW t \in Threads, NEW u \in Threads,
         NodeOf(t) = n, NodeOf(u) = n
  PROVE  t = u
<1>1. PICK w : Workers[n] = {w}
  BY WorkersAssumption, FS_Singleton DEF Single
<1>2. ASSUME NEW v \in Threads, NodeOf(v) = n PROVE v = <<n, w>>
  BY <1>1, <1>2 DEF Threads, NodeOf
<1> QED BY <1>2

LEMMA Mods == \A x \in Nat : /\ (x * S) % (K * S) \in Nat
                             /\ x % (K * S) \in Nat
                             /\ x < K => x % (K * S) = x
<1>1. TAKE x \in Nat
<1>2. K * S \in Nat /\ x * S \in Nat /\ K * S >= K /\ K * S > 0
  <2>1. 0 * S + S <= K * S
    <3> HIDE DEF S, K
    <3> QED BY Order, Widths
  <2>2. \A a \in Nat, b \in Nat \ {0} : a * b >= a
    <3>1. SUFFICES ASSUME NEW a \in Nat, NEW b \in Nat \ {0} PROVE a * b >= a
      OBVIOUS
    <3>2. CASE b = 1
      BY <3>2
    <3>3. CASE 1 < b
      BY <3>3, Order
    <3> QED BY <3>2, <3>3
  <2> HIDE DEF S, K
  <2> QED BY <2>1, <2>2, Widths
<1>3. \A y \in Nat, M \in Nat : M > 0 => y % M \in Nat
  OBVIOUS
<1> HIDE DEF S, K
<1> QED BY <1>2, <1>3, Small, Widths

LEMMA IdInt == \A n \in Nodes, c \in Nat : Id(n, c) \in Int /\ Id(n, c) \in IdsOf(n)
<1> SUFFICES ASSUME NEW n \in Nodes, NEW c \in Nat
             PROVE  Id(n, c) \in Int /\ Id(n, c) \in IdsOf(n)
  OBVIOUS
<1>1. Id(n, c) = ((c * S) % (K * S)) + n
  BY Widths DEF Id, S
<1>2. n \in Int /\ (c * S) % (K * S) \in Nat
  <2> HIDE DEF S, K
  <2> QED BY Mods, Widths
<1>3. Id(n, c) \in Int
  <2> HIDE DEF S, K
  <2> QED BY <1>1, <1>2
<1> QED BY <1>3 DEF IdsOf

LEMMA Appended ==
  ASSUME NEW T, NEW s \in Seq(T), NEW x \in T
  PROVE  /\ Append(s, x) \in Seq(T)
         /\ Len(s) \in Nat
         /\ Len(Append(s, x)) = Len(s) + 1
         /\ Append(s, x)[Len(s) + 1] = x
         /\ \A i \in 1..Len(s) : Append(s, x)[i] = s[i]
OBVIOUS

LEMMA InitHolds == Init => IInv
<1>1. ASSUME Init PROVE TypeInv /\ OwnIds
  BY <1>1 DEF Init, TypeInv, OwnIds
<1>2. ASSUME Init, NEW n \in Nodes PROVE Counts(n)
  BY <1>2 DEF Init, Counts
<1> QED BY <1>1, <1>2 DEF IInv

LEMMA NextHolds == IInv /\ [Next]_vars => IInv'
<1> SUFFICES ASSUME IInv, [Next]_vars PROVE IInv'
  OBVIOUS
<1> USE DEF IInv
<1>1. ASSUME NEW t \in Threads, Shift(t) PROVE IInv'
  <2> DEFINE n == NodeOf(t)
  <2>0. n \in Nodes
    BY ThreadNode
  <2>1. /\ Id(n, transactionCounter[n]) \in Int
        /\ Id(n, transactionCounter[n]) \in IdsOf(n)
    BY <2>0, IdInt DEF TypeInv
  <2>2. TypeInv'
    BY <1>1, <2>1 DEF Shift, TypeInv
  <2>3. OwnIds'
    BY <1>1, <2>1 DEF Shift, TypeInv, OwnIds
  <2>4. ASSUME NEW m \in Nodes, Single(m) PROVE Counts(m)'
    BY <1>1, <2>0, <2>4 DEF Shift, TypeInv, Counts
  <2> QED BY <2>2, <2>3, <2>4 DEF Single
<1>2. ASSUME NEW t \in Threads, Load(t) PROVE IInv'
  <2> DEFINE n == NodeOf(t)
  <2>0. n \in Nodes
    BY ThreadNode
  <2>1. TypeInv'
    BY <1>2, <2>0 DEF Load, TypeInv
  <2>2. OwnIds'
    BY <1>2 DEF Load, TypeInv, OwnIds
  <2>3. ASSUME NEW m \in Nodes, Single(m) PROVE Counts(m)'
    BY <1>2, <2>0, <2>3 DEF Load, TypeInv, Counts
  <2> QED BY <2>1, <2>2, <2>3 DEF Single
<1>3. ASSUME NEW t \in Threads, Store(t) PROVE IInv'
  <2> DEFINE n == NodeOf(t)
             e == [id |-> newID[t], counter |-> loaded[t]]
  <2>0. n \in Nodes
    BY ThreadNode
  <2>1. (loaded[t] + 1) % 2^CounterBits \in Nat
    BY Mods, Widths DEF TypeInv
  <2>2. e \in [id : Int, counter : Nat]
    BY DEF TypeInv
  <2>3. /\ issued' = [issued EXCEPT ![n] = Append(@, e)]
        /\ issued[n] \in Seq([id : Int, counter : Nat])
        /\ issued'[n] = Append(issued[n], e)
        /\ \A m \in Nodes \ {n} : issued'[m] = issued[m]
    BY <1>3, <2>0 DEF Store, TypeInv
  <2>4. /\ Len(issued'[n]) = Len(issued[n]) + 1
        /\ Len(issued[n]) \in Nat
        /\ issued'[n][Len(issued[n]) + 1] = e
        /\ \A i \in 1..Len(issued[n]) : issued'[n][i] = issued[n][i]
        /\ issued'[n] \in Seq([id : Int, counter : Nat])
    <3> DEFINE q == issued[n]
               T == [id : Int, counter : Nat]
    <3>1. q \in Seq(T) /\ e \in T /\ issued'[n] = Append(q, e)
      BY <2>2, <2>3
    <3>2. /\ Len(Append(q, e)) = Len(q) + 1
          /\ Len(q) \in Nat
          /\ Append(q, e)[Len(q) + 1] = e
          /\ \A i \in 1..Len(q) : Append(q, e)[i] = q[i]
          /\ Append(q, e) \in Seq(T)
      <4> HIDE DEF q, T, e
      <4> QED BY <3>1, Appended
    <3> HIDE DEF n, e
    <3> QED BY <3>1, <3>2
  <2> HIDE DEF n, e
  <2>5. TypeInv'
    BY <1>3, <2>0, <2>1, <2>3, <2>4 DEF Store, TypeInv, n
  <2>6. OwnIds'
    <3>1. \A u \in Threads : step'[u] # "called" =>
            step[u] # "called" /\ newID'[u] = newID[u]
      BY <1>3 DEF Store, TypeInv
    <3>2. e.id \in IdsOf(n)
      BY <1>3 DEF Store, OwnIds, n, e
    <3>3. \A i \in 1..Len(issued'[n]) : issued'[n][i].id \in IdsOf(n)
      <4>1. \A i \in 1..Len(issued[n]) : issued[n][i].id \in IdsOf(n)
        BY <2>0 DEF OwnIds
      <4> TAKE i \in 1..Len(issued'[n])
      <4>2. CASE i \in 1..Len(issued[n])
        BY <4>1, <4>2, <2>4
      <4>3. CASE i = Len(issued[n]) + 1
        BY <4>3, <2>4, <3>2
      <4> QED BY <4>2, <4>3, <2>4
    <3>4. \A m \in Nodes \ {n} : \A i \in 1..Len(issued'[m]) :
            issued'[m][i].id \in IdsOf(m)
      BY <2>3 DEF OwnIds
    <3> QED BY <3>1, <3>3, <3>4 DEF OwnIds
  <2>7. ASSUME NEW m \in Nodes, Single(m) PROVE Counts(m)'
    <3>1. CASE m # n
      <4>1. /\ issued'[m] = issued[m]
            /\ transactionCounter'[m] = transactionCounter[m]
            /\ newID' = newID /\ loaded' = loaded
            /\ \A u \in Threads : NodeOf(u) = m => step'[u] = step[u]
        BY <1>3, <2>3, <3>1 DEF Store, TypeInv, n
      <4> QED BY <4>1, <2>7 DEF Counts
    <3>2. CASE m = n
      <4>1. \A u \in Threads : NodeOf(u) = n => step'[u] = "called"
        BY <1>3, <2>7, <3>2, OneThread DEF Store, TypeInv, n
      <4>2. Len(issued[n]) < K =>
              loaded[t] = Len(issued[n]) /\ newID[t] = Id(n, Len(issued[n]))
        BY <1>3, <2>7, <3>2 DEF Store, Counts, n
      <4>3. transactionCounter'[n] = (loaded[t] + 1) % 2^CounterBits
        BY <1>3, <2>0 DEF Store, TypeInv, n
      <4>4. Len(issued[n]) + 1 < K => transactionCounter'[n] = Len(issued[n]) + 1
        <5>1. \A x \in Nat : x < K => x % 2^CounterBits = x
          <6> HIDE DEF S, K
          <6> QED BY Mods, Widths
        <5> DEFINE L == Len(issued[n])
        <5>2. L + 1 < K => L < K /\ L + 1 \in Nat
          <6> HIDE DEF L, K
          <6>1. L \in Nat
            BY <2>4 DEF L
          <6> QED BY <6>1, Widths
        <5> HIDE DEF K, S
        <5> QED BY <4>2, <4>3, <5>1, <5>2
      <4>5. \A i \in 1..(Len(issued[n]) + 1) :
              i <= K => issued'[n][i].id = Id(n, i - 1)
        <5> SUFFICES ASSUME NEW i \in 1..(Len(issued[n]) + 1), i <= K
                     PROVE  issued'[n][i].id = Id(n, i - 1)
          OBVIOUS
        <5>1. CASE i \in 1..Len(issued[n])
          BY <5>1, <2>4, <2>7, <3>2 DEF Counts
        <5>2. CASE i = Len(issued[n]) + 1
          <6>1. Len(issued[n]) < K /\ i - 1 = Len(issued[n])
            <7> HIDE DEF K
            <7> QED BY <5>2, <2>4, Widths
          <6> QED BY <6>1, <5>2, <2>4, <4>2 DEF e
        <5> QED BY <5>1, <5>2, <2>4
      <4> QED BY <2>4, <3>2, <4>1, <4>4, <4>5 DEF Counts
    <3> QED BY <3>1, <3>2
  <2> QED BY <2>5, <2>6, <2>7 DEF Single
<1>4. ASSUME NEW n \in Nodes, Restart(n) PROVE IInv'
  <2>1. TypeInv'
    BY <1>4 DEF Restart, TypeInv
  <2>2. OwnIds'
    BY <1>4 DEF Restart, TypeInv, OwnIds
  <2>3. ASSUME NEW m \in Nodes, Single(m) PROVE Counts(m)'
    BY <1>4, <2>3 DEF Restart, TypeInv, Counts, Single
  <2> QED BY <2>1, <2>2, <2>3 DEF Single
<1>5. CASE UNCHANGED vars
  BY <1>5 DEF vars, TypeInv, OwnIds, Counts, Single
<1> QED BY <1>1, <1>2, <1>3, <1>4, <1>5 DEF Next

(* The invariant that the two theorems below rest on: a thread holds an id *)
(* of its own node, and a node with one worker has its counter in step     *)
(* with what it issued.                                                    *)
THEOREM InductiveInvariant == Spec => []IInv
BY InitHolds, NextHolds, PTL DEF Spec

(* No id is issued by two nodes, whatever their counters did: the lower    *)
(* bits of an id are those of its node, also when the counter has wrapped, *)
(* raced with another worker or started again.                             *)
THEOREM NodesNeverCollide == Spec => []NodesDisjoint
<1>1. IInv => NodesDisjoint
  BY Disjoint DEF IInv, OwnIds, IdsOf, NodesDisjoint
<1> QED BY <1>1, InductiveInvariant, PTL

(* A node with one worker and without restarts issues no id twice before   *)
(* the shift has pushed a bit of the counter out of its 32 bits.           *)
THEOREM IdsAreFresh == Spec => []FreshIds
<1>1. IInv => FreshIds
  <2> SUFFICES ASSUME IInv, NEW n \in Nodes \ MayRestart, Cardinality(Workers[n]) = 1,
                      NEW i \in 1..Len(issued[n]), NEW j \in 1..Len(issued[n]),
                      i < j, j <= K, issued[n][i].id = issued[n][j].id
               PROVE  FALSE
    BY DEF FreshIds, K
  <2>1. Counts(n)
    BY DEF IInv, Single
  <2>2. i - 1 \in 0..(K - 1) /\ j - 1 \in 0..(K - 1) /\ i <= K /\ i \in Int /\ j \in Int
    <3> HIDE DEF K
    <3> QED BY Widths
  <2>3. Id(n, i - 1) = Id(n, j - 1)
    BY <2>1, <2>2 DEF Counts
  <2>4. i - 1 = j - 1
    BY <2>2, <2>3, Fresh
  <2> QED BY <2>2, <2>4
<1> QED BY <1>1, InductiveInvariant, PTL
=============================================================================
