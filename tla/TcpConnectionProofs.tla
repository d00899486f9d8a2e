------------------------ MODULE TcpConnectionProofs -------------------------
(***************************************************************************)
(* What handle_connection makes of a framed request, for requests of any   *)
(* length whose endpoint and body contain no delimiter.                    *)
(***************************************************************************)
EXTENDS TcpConnection, SequenceTheorems, TLAPS

(* S: the tokens of an endpoint e and a body q. *)
Req(e, q) == [endpoint |-> e, request |-> q]

(* F is the frame of e and q, of tokens in S. *)
IsFrame(F, S, e, q) ==
  /\ F \in Seq(S \cup {HeaderDelim, MessageEnd})
  /\ Len(F) = Len(e) + Len(q) + 2
  /\ \A i \in 1..Len(e) : F[i] = e[i]
  /\ \A i \in 1..Len(q) : F[Len(e) + 1 + i] = q[i]
  /\ \A i \in 1..Len(F) : F[i] = HeaderDelim <=> i = Len(e) + 1
  /\ \A i \in 1..Len(F) : F[i] = MessageEnd <=> i = Len(F)

LEMMA SnocProperties ==
  ASSUME NEW T, NEW s \in Seq(T), NEW d \in T
  PROVE  /\ s \o <<d>> \in Seq(T) /\ Len(s \o <<d>>) = Len(s) + 1
         /\ \A i \in 1..Len(s) : (s \o <<d>>)[i] = s[i]
         /\ (s \o <<d>>)[Len(s) + 1] = d
<1>1. Append(s, d) = s \o <<d>>
  BY AppendIsConcat
<1> QED BY <1>1, AppendProperties

LEMMA FrameShape ==
  ASSUME NEW S, HeaderDelim \notin S, MessageEnd \notin S,
         NEW e \in Seq(S), NEW q \in Seq(S)
  PROVE  IsFrame(Frame(Req(e, q)), S, e, q)
<1> DEFINE T == S \cup {HeaderDelim, MessageEnd}
           a == e \o <<HeaderDelim>>
           g == a \o q
           F == g \o <<MessageEnd>>
<1>1. /\ e \in Seq(T) /\ q \in Seq(T) /\ HeaderDelim \in T /\ MessageEnd \in T
      /\ Len(e) \in Nat /\ Len(q) \in Nat
      /\ \A i \in 1..Len(e) : e[i] \in S
      /\ \A i \in 1..Len(q) : q[i] \in S
      /\ HeaderDelim # MessageEnd
  BY SeqMonotonic DEF HeaderDelim, MessageEnd
<1>2. Frame(Req(e, q)) = F
  BY DEF Frame, Req
<1> HIDE DEF T
<1>3. /\ a \in Seq(T) /\ Len(a) = Len(e) + 1
      /\ \A i \in 1..Len(e) : a[i] = e[i]
      /\ a[Len(e) + 1] = HeaderDelim
  BY <1>1, SnocProperties
<1> HIDE DEF a
<1>4. /\ g \in Seq(T) /\ Len(g) = Len(a) + Len(q)
      /\ \A i \in 1..Len(a) + Len(q) : g[i] = IF i <= Len(a) THEN a[i] ELSE q[i - Len(a)]
  BY <1>1, <1>3, ConcatProperties
<1> HIDE DEF g
<1>5. /\ F \in Seq(T) /\ Len(F) = Len(g) + 1
      /\ \A i \in 1..Len(g) : F[i] = g[i]
      /\ F[Len(g) + 1] = MessageEnd
  BY <1>1, <1>4, SnocProperties
<1> HIDE DEF F
<1>6. Len(F) = Len(e) + Len(q) + 2
  BY <1>3, <1>4, <1>5
<1>7. ASSUME NEW i \in 1..Len(e) PROVE F[i] = e[i]
  <2>1. Len(e) \in Nat /\ Len(q) \in Nat
    OBVIOUS
  <2>2. i \in 1..Len(a) + Len(q) /\ i \in 1..Len(g) /\ i <= Len(a)
    BY <1>3, <1>4, <2>1
  <2>3. F[i] = g[i] /\ g[i] = a[i] /\ a[i] = e[i]
    BY <1>3, <1>4, <1>5, <2>2
  <2> QED BY <2>3
<1>8. \A i \in 1..Len(q) : F[Len(e) + 1 + i] = q[i]
  <2> SUFFICES ASSUME NEW i \in 1..Len(q) PROVE F[Len(e) + 1 + i] = q[i]
    OBVIOUS
  <2> DEFINE k == Len(e) + 1 + i
  <2>1. k \in 1..Len(g) /\ k > Len(a) /\ k - Len(a) = i
    BY <1>1, <1>3, <1>4
  <2> HIDE DEF k
  <2>2. F[k] = q[i]
    BY <1>1, <1>3, <1>4, <1>5, <2>1
  <2> QED BY <2>2 DEF k
<1>9. F[Len(e) + 1] = HeaderDelim
  <2>1. Len(a) \in 1..Len(g) /\ g[Len(a)] = a[Len(a)]
    BY <1>1, <1>3, <1>4
  <2> QED BY <1>3, <1>5, <2>1
<1>10. F[Len(F)] = MessageEnd
  BY <1>5
<1>11. ASSUME NEW i \in 1..Len(F)
       PROVE  i \in 1..Len(e) \/ i = Len(e) + 1 \/ i = Len(F)
              \/ \E k \in 1..Len(q) : i = Len(e) + 1 + k
  <2>1. Len(e) \in Nat /\ Len(q) \in Nat
    OBVIOUS
  <2>2. CASE i > Len(e) + 1 /\ i < Len(F)
    <3>1. i - (Len(e) + 1) \in 1..Len(q) /\ i = Len(e) + 1 + (i - (Len(e) + 1))
      BY <1>6, <2>1, <2>2
    <3> QED BY <3>1
  <2>3. CASE i <= Len(e) + 1
    BY <2>1, <2>3
  <2>4. CASE i >= Len(F)
    BY <1>6, <2>1, <2>4
  <2> QED BY <1>6, <2>1, <2>2, <2>3, <2>4
<1>12. ASSUME NEW i \in 1..Len(F)
       PROVE  /\ F[i] = HeaderDelim <=> i = Len(e) + 1
              /\ F[i] = MessageEnd <=> i = Len(F)
  <2>1. CASE i \in 1..Len(e)
    BY <1>1, <1>6, <1>7, <2>1
  <2>2. CASE i = Len(e) + 1
    BY <1>1, <1>6, <1>9, <2>2
  <2>3. CASE i = Len(F)
    BY <1>1, <1>6, <1>10, <2>3
  <2>4. CASE \E k \in 1..Len(q) : i = Len(e) + 1 + k
    <3>1. PICK k \in 1..Len(q) : i = Len(e) + 1 + k
      BY <2>4
    <3>2. F[i] \in S
      BY <1>1, <1>8, <3>1
    <3> QED BY <1>1, <1>6, <3>1, <3>2
  <2> QED BY <1>11, <2>1, <2>2, <2>3, <2>4
<1>13. F \in Seq(S \cup {HeaderDelim, MessageEnd})
  BY <1>5 DEF T
<1> QED BY <1>2, <1>6, <1>7, <1>8, <1>12, <1>13 DEF IsFrame

(* Where the last d of a sequence is. *)
LEMMA LastOfIs ==
  ASSUME NEW s, NEW d, Len(s) \in Nat, NEW k \in 1..Len(s), s[k] = d,
         \A i \in 1..Len(s) : s[i] = d => i <= k
  PROVE  LastOf(s, d) = k
<1> DEFINE I == {i \in 1..Len(s) : s[i] = d}
<1>1. k \in I /\ \A i \in I : k >= i
  OBVIOUS
<1>2. \A x \in I : (\A y \in I : x >= y) => x = k
  BY <1>1
<1>3. LastOf(s, d) = Max(I)
  BY <1>1 DEF LastOf, SelectLastInSeq
<1>4. Max(I) = k
  BY <1>1, <1>2 DEF Max
<1> QED BY <1>3, <1>4

(* A part of a stream that began with a frame has a complete request only  *)
(* when it is that frame (getRequest and the loop around it,               *)
(* tcp.hpp:227-267, 352-385).                                              *)
THEOREM FrameComplete ==
  ASSUME NEW S, HeaderDelim \notin S, MessageEnd \notin S,
         NEW e \in Seq(S), NEW q \in Seq(S),
         NEW j \in 0..Len(Frame(Req(e, q)))
  PROVE  Complete(SubSeq(Frame(Req(e, q)), 1, j)) <=> j = Len(Frame(Req(e, q)))
<1> DEFINE F == Frame(Req(e, q))
           b == SubSeq(F, 1, j)
<1>1. /\ F \in Seq(S \cup {HeaderDelim, MessageEnd})
      /\ Len(F) = Len(e) + Len(q) + 2 /\ Len(e) \in Nat /\ Len(q) \in Nat
      /\ \A i \in 1..Len(F) : F[i] = HeaderDelim <=> i = Len(e) + 1
      /\ \A i \in 1..Len(F) : F[i] = MessageEnd <=> i = Len(F)
  <2>1. IsFrame(F, S, e, q)
    BY FrameShape
  <2> HIDE DEF F
  <2> QED BY <2>1 DEF IsFrame
<1> HIDE DEF F
<1>2. /\ b \in Seq(S \cup {HeaderDelim, MessageEnd}) /\ Len(b) = j
      /\ \A i \in 1..j : b[i] = F[i]
  BY <1>1 DEF F
<1> HIDE DEF b
<1>3. Range(b) = {b[i] : i \in 1..j}
  <2>1. DOMAIN b = 1..j
    BY <1>2
  <2> QED BY <2>1 DEF Range
<1>4. ASSUME Complete(b) PROVE j = Len(F)
  <2>1. PICK i \in 1..j : b[i] = MessageEnd
    BY <1>3, <1>4 DEF Complete
  <2> QED BY <1>1, <1>2, <2>1 DEF F
<1>5. ASSUME j = Len(F) PROVE Complete(b)
  <2>1. b[j] = MessageEnd /\ b[Len(e) + 1] = HeaderDelim /\ {j, Len(e) + 1} \subseteq 1..j
    BY <1>1, <1>2, <1>5
  <2> QED BY <1>3, <2>1 DEF Complete
<1> QED BY <1>4, <1>5 DEF F, b

(* The server decodes what the client has encoded, and consumes the whole  *)
(* of it (tcp.hpp:255-260, 378-384, 525-536).                              *)
THEOREM FrameDecodes ==
  ASSUME NEW S, HeaderDelim \notin S, MessageEnd \notin S,
         NEW e \in Seq(S), NEW q \in Seq(S)
  PROVE  /\ Decoded(Frame(Req(e, q))) = Req(e, q)
         /\ Consumed(Req(e, q)) = Len(Frame(Req(e, q)))
<1> DEFINE F == Frame(Req(e, q))
           n == Len(e)
           l == Len(q)
<1>1. /\ F \in Seq(S \cup {HeaderDelim, MessageEnd})
      /\ Len(F) = n + l + 2 /\ n \in Nat /\ l \in Nat
      /\ \A i \in 1..n : F[i] = e[i]
      /\ \A i \in 1..l : F[n + 1 + i] = q[i]
      /\ \A i \in 1..Len(F) : F[i] = HeaderDelim <=> i = n + 1
      /\ \A i \in 1..Len(F) : F[i] = MessageEnd <=> i = Len(F)
  <2>1. IsFrame(F, S, e, q)
    BY FrameShape
  <2> HIDE DEF F
  <2> QED BY <2>1 DEF IsFrame
<1> HIDE DEF F
<1>2. LastOf(F, HeaderDelim) = n + 1 /\ LastOf(F, MessageEnd) = Len(F)
  <2>1. Len(F) \in Nat /\ n + 1 \in 1..Len(F) /\ Len(F) \in 1..Len(F)
    BY <1>1
  <2>2. /\ F[n + 1] = HeaderDelim /\ F[Len(F)] = MessageEnd
        /\ \A i \in 1..Len(F) : F[i] = HeaderDelim => i <= n + 1
        /\ \A i \in 1..Len(F) : F[i] = MessageEnd => i <= Len(F)
    BY <1>1, <2>1
  <2>3. LastOf(F, HeaderDelim) = n + 1
    BY <2>1, <2>2, LastOfIs
  <2>4. LastOf(F, MessageEnd) = Len(F)
    BY <2>1, <2>2, LastOfIs
  <2> QED BY <2>3, <2>4
<1>3. SubSeq(F, 1, n) = e
  <2>1. SubSeq(F, 1, n) \in Seq(S) /\ Len(SubSeq(F, 1, n)) = n
        /\ \A i \in 1..n : SubSeq(F, 1, n)[i] = e[i]
    BY <1>1, SubSeqProperties
  <2> QED BY <1>1, <2>1, SeqEqual
<1>4. SubSeq(F, n + 2, n + l + 1) = q
  <2>1. \A i \in n + 2..n + l + 1 : F[i] \in S
    <3> TAKE i \in n + 2..n + l + 1
    <3>1. i - (n + 1) \in 1..l /\ i = n + 1 + (i - (n + 1))
      BY <1>1
    <3>2. F[n + 1 + (i - (n + 1))] = q[i - (n + 1)]
      BY <1>1, <3>1
    <3> QED BY <3>1, <3>2
  <2>2. SubSeq(F, n + 2, n + l + 1) \in Seq(S)
        /\ Len(SubSeq(F, n + 2, n + l + 1)) = l
        /\ \A i \in 1..l : SubSeq(F, n + 2, n + l + 1)[i] = F[n + 1 + i]
    BY <1>1, <2>1, SubSeqProperties
  <2>3. \A i \in 1..l : SubSeq(F, n + 2, n + l + 1)[i] = q[i]
    BY <1>1, <2>2
  <2> HIDE DEF l
  <2> QED BY <2>2, <2>3, SeqEqual DEF l
<1>5. Decoded(F) = Req(e, q)
  <2>1. /\ LastOf(F, HeaderDelim) - 1 = n
        /\ LastOf(F, HeaderDelim) + 1 = n + 2
        /\ LastOf(F, MessageEnd) - 1 = n + l + 1
    BY <1>1, <1>2
  <2> QED BY <1>3, <1>4, <2>1 DEF Decoded, Req
<1>6. Consumed(Req(e, q)) = Len(F)
  BY <1>1 DEF Consumed, Req
<1> QED BY <1>5, <1>6 DEF F

LEMMA Slice ==
  ASSUME NEW T, NEW F \in Seq(T), NEW a \in Nat, NEW z \in Nat, a + z <= Len(F)
  PROVE  /\ SubSeq(F, a + 1, a + z) \in Seq(T)
         /\ Len(SubSeq(F, a + 1, a + z)) = z
         /\ \A i \in 1..z : SubSeq(F, a + 1, a + z)[i] = F[a + i]
<1> DEFINE g == SubSeq(F, a + 1, a + z)
<1>1. \A i \in a + 1..a + z : F[i] \in T
  OBVIOUS
<1>2. /\ g \in Seq(T)
      /\ Len(g) = IF a + 1 <= a + z THEN a + z - (a + 1) + 1 ELSE 0
      /\ \A i \in 1..(a + z - (a + 1) + 1) : g[i] = F[a + 1 + i - 1]
  BY <1>1, SubSeqProperties
<1> HIDE DEF g
<1>3. Len(g) = z
  BY <1>2
<1>4. ASSUME NEW i \in 1..z PROVE g[i] = F[a + i]
  <2>1. i \in 1..(a + z - (a + 1) + 1) /\ a + 1 + i - 1 = a + i
    OBVIOUS
  <2> QED BY <1>2, <2>1
<1> QED BY <1>2, <1>3, <1>4 DEF g

(* recv moves the first n tokens of the wire to the buffer, when k tokens  *)
(* of F are there and n + r on the wire.                                   *)
LEMMA RecvMoves ==
  ASSUME NEW T, NEW F \in Seq(T), NEW k \in Nat, NEW n \in Nat, NEW r \in Nat,
         k + n + r <= Len(F),
         NEW w, w = SubSeq(F, k + 1, k + n + r)
  PROVE  /\ Len(w) = n + r /\ Len(SubSeq(F, 1, k)) = k
         /\ SubSeq(F, 1, k) \o SubSeq(w, 1, n) = SubSeq(F, 1, k + n)
         /\ SubSeq(w, n + 1, Len(w)) = SubSeq(F, k + n + 1, k + n + r)
         /\ SubSeq(w, 1, n) = SubSeq(F, k + 1, k + n)
<1> DEFINE a == SubSeq(F, 1, k)
           b == SubSeq(w, 1, n)
           c == SubSeq(F, 1, k + n)
<1>1. w \in Seq(T) /\ Len(w) = n + r /\ \A i \in 1..(n + r) : w[i] = F[k + i]
  <2>1. k + (n + r) = k + n + r /\ k + (n + r) <= Len(F) /\ n + r \in Nat
    OBVIOUS
  <2> QED BY <2>1, Slice
<1>2. a \in Seq(T) /\ Len(a) = k /\ \A i \in 1..k : a[i] = F[i]
  <2>1. 0 + k <= Len(F) /\ 0 + 1 = 1 /\ 0 + k = k /\ \A i \in 1..k : 0 + i = i
    OBVIOUS
  <2> QED BY <2>1, Slice
<1>3. c \in Seq(T) /\ Len(c) = k + n /\ \A i \in 1..(k + n) : c[i] = F[i]
  <2>1. /\ 0 + (k + n) <= Len(F) /\ 0 + 1 = 1 /\ 0 + (k + n) = k + n /\ k + n \in Nat
        /\ \A i \in 1..(k + n) : 0 + i = i
    OBVIOUS
  <2> QED BY <2>1, Slice
<1>4. b \in Seq(T) /\ Len(b) = n /\ \A i \in 1..n : b[i] = F[k + i]
  <2>1. 0 + n <= Len(w) /\ 0 + 1 = 1 /\ 0 + n = n /\ \A i \in 1..n : 0 + i = i
    BY <1>1
  <2>2. /\ b \in Seq(T) /\ Len(b) = n /\ \A i \in 1..n : b[i] = w[i]
    BY <1>1, <2>1, Slice
  <2> QED BY <1>1, <2>2
<1> HIDE DEF a, b, c
<1>5. a \o b = c
  <2> DEFINE u == a \o b
  <2>1. /\ u \in Seq(T) /\ Len(u) = Len(a) + Len(b)
        /\ \A i \in 1..Len(a) + Len(b) : u[i] = IF i <= Len(a) THEN a[i] ELSE b[i - Len(a)]
    BY <1>2, <1>4, ConcatProperties
  <2> HIDE DEF u
  <2>2. Len(u) = k + n /\ \A i \in 1..(k + n) : u[i] = IF i <= k THEN a[i] ELSE b[i - k]
    BY <1>2, <1>4, <2>1
  <2>3. ASSUME NEW i \in 1..(k + n) PROVE u[i] = c[i]
    <3>1. CASE i <= k
      BY <1>2, <1>3, <2>2, <3>1
    <3>2. CASE i > k
      <4>1. i - k \in 1..n /\ k + (i - k) = i
        BY <3>2
      <4>2. u[i] = b[i - k]
        BY <2>2, <3>2
      <4>3. b[i - k] = F[k + (i - k)]
        BY <1>4, <4>1
      <4> QED BY <1>3, <4>1, <4>2, <4>3
    <3> QED BY <3>1, <3>2
  <2>4. u = c
    BY <1>3, <2>1, <2>2, <2>3, SeqEqual
  <2> QED BY <2>4 DEF u
<1>6. SubSeq(w, n + 1, Len(w)) = SubSeq(F, k + n + 1, k + n + r)
  <2> DEFINE d == SubSeq(w, n + 1, n + r)
             e == SubSeq(F, k + n + 1, k + n + r)
  <2>1. d \in Seq(T) /\ Len(d) = r /\ \A i \in 1..r : d[i] = w[n + i]
    BY <1>1, Slice
  <2>2. e \in Seq(T) /\ Len(e) = r /\ \A i \in 1..r : e[i] = F[k + n + i]
    <3>1. k + n \in Nat
      OBVIOUS
    <3> QED BY <3>1, Slice
  <2> HIDE DEF d, e
  <2>3. ASSUME NEW i \in 1..r PROVE d[i] = e[i]
    <3>1. n + i \in 1..(n + r) /\ k + (n + i) = k + n + i
      OBVIOUS
    <3>2. w[n + i] = F[k + (n + i)]
      BY <1>1, <3>1
    <3> QED BY <2>1, <2>2, <3>1, <3>2
  <2>4. d = e
    BY <2>1, <2>2, <2>3, SeqEqual
  <2> QED BY <1>1, <2>4 DEF d, e
<1>7. b = SubSeq(F, k + 1, k + n)
  <2> DEFINE d == SubSeq(F, k + 1, k + n)
  <2>1. d \in Seq(T) /\ Len(d) = n /\ \A i \in 1..n : d[i] = F[k + i]
    BY Slice
  <2> HIDE DEF d
  <2>2. b = d
    BY <1>4, <2>1, SeqEqual
  <2> QED BY <2>2 DEF d
<1> QED BY <1>1, <1>2, <1>5, <1>6, <1>7 DEF a, b, c
=============================================================================
