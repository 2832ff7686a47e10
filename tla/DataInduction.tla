--------------------------- MODULE DataInduction ---------------------------
(***************************************************************************)
(* Induction and recursion without operators as parameters: a property is  *)
(* the set of what has it, a recursive definition is made of functions.    *)
(***************************************************************************)
EXTENDS Integers, WellFoundedInduction, SequenceTheorems, TLAPS

\* Every set of naturals with an element has a least one.
LEMMA LeastOfNats ==
  ASSUME NEW S \in SUBSET Nat, S # {}
  PROVE  \E n \in S : \A m \in S : n <= m
<1> DEFINE R == {p \in Nat \X Nat : p[1] < p[2]}
<1>1. IsWellFoundedOn(R, Nat)
  BY NatLessThanWellFounded DEF OpToRel
<1>2. PICK x \in S : \A y \in S : <<y, x>> \notin R
  <2> HIDE DEF R
  <2> QED BY <1>1, WFMin
<1>3. ASSUME NEW y \in S PROVE x <= y
  <2>1. x \in Nat /\ y \in Nat
    OBVIOUS
  <2>2. y < x => <<y, x>> \in R
    BY <2>1
  <2> QED BY <1>2, <2>1, <2>2
<1> QED BY <1>3

\* What holds of n as soon as it holds of every natural below holds of all.
LEMMA InductionOnNats ==
  ASSUME NEW S, \A n \in Nat : (\A m \in Nat : m < n => m \in S) => n \in S
  PROVE  \A n \in Nat : n \in S
<1> DEFINE T == Nat \ S
<1> SUFFICES ASSUME T # {} PROVE FALSE
  OBVIOUS
<1>1. PICK n \in T : \A m \in T : n <= m
  BY LeastOfNats
<1> QED BY <1>1

\* A recursive definition over D with values in B: where it stops its value is
\* base's; else step makes it of the value at next, which is smaller.
Descends(D, B, Stop, measure, next, base, step) ==
  /\ measure \in [D -> Nat] /\ next \in [D -> D]
  /\ base \in [D -> B] /\ step \in [D -> [B -> B]]
  /\ \A d \in D : d \notin Stop => measure[next[d]] < measure[d]

HasSolution(D, B, Stop, next, base, step) ==
  \E f \in [D -> B] : \A d \in D : /\ d \in Stop => f[d] = base[d]
                                   /\ d \notin Stop => f[d] = step[d][f[next[d]]]

\* What a recursive definition asks for exists.
LEMMA RecursionHasSolution ==
  ASSUME NEW D, NEW B, NEW Stop, NEW measure, NEW next, NEW base, NEW step,
         Descends(D, B, Stop, measure, next, base, step)
  PROVE  HasSolution(D, B, Stop, next, base, step)
<1> USE DEF Descends
<1> DEFINE Value(g, d) == IF d \in Stop THEN base[d] ELSE step[d][g[next[d]]]
           Solves(g, n) == \A d \in D : measure[d] < n => g[d] = Value(g, d)
           Solvable == {n \in Nat : \E g \in [D -> B] : Solves(g, n)}
<1>1. ASSUME NEW g \in [D -> B], NEW d \in D
      PROVE  Value(g, d) \in B
  OBVIOUS
<1>2. ASSUME NEW n \in Nat, \A m \in Nat : m < n => m \in Solvable
      PROVE  n \in Solvable
  <2>1. CASE n = 0
    <3>1. Solves(base, 0)
      OBVIOUS
    <3> QED BY <3>1, <2>1
  <2>2. CASE n # 0
    <3>1. n - 1 \in Nat /\ n - 1 < n
      BY <2>2
    <3>2. PICK g \in [D -> B] : Solves(g, n - 1)
      BY <3>1, <1>2
    <3> DEFINE h == [d \in D |-> Value(g, d)]
    <3>3. h \in [D -> B]
      BY <1>1
    <3>4. ASSUME NEW d \in D, measure[d] < n
          PROVE  h[d] = Value(h, d)
      <4>1. CASE d \in Stop
        BY <4>1
      <4>2. CASE d \notin Stop
        <5>1. next[d] \in D /\ measure[next[d]] < n - 1
          <6>1. measure[next[d]] < measure[d] /\ measure[d] \in Nat /\ next[d] \in D
            BY <4>2
          <6>2. measure[next[d]] \in Nat
            BY <6>1
          <6> QED BY <6>1, <6>2, <3>4
        <5>2. g[next[d]] = Value(g, next[d])
          BY <5>1, <3>2
        <5>3. h[next[d]] = g[next[d]]
          BY <5>1, <5>2
        <5> QED BY <5>3, <4>2
      <4> QED BY <4>1, <4>2
    <3>5. Solves(h, n)
      BY <3>4
    <3> QED BY <3>3, <3>5
  <2> QED BY <2>1, <2>2
<1>3. \A n \in Nat : n \in Solvable
  <2> HIDE DEF Solvable
  <2> QED BY <1>2, InductionOnNats
<1>4. ASSUME NEW n \in Nat, NEW g, NEW h, Solves(g, n), Solves(h, n)
      PROVE  \A d \in D : measure[d] < n => g[d] = h[d]
  <2> DEFINE Same == {k \in Nat : \A d \in D : measure[d] = k /\ k < n => g[d] = h[d]}
  <2>1. ASSUME NEW k \in Nat, \A m \in Nat : m < k => m \in Same
        PROVE  k \in Same
    <3> SUFFICES ASSUME NEW d \in D, measure[d] = k, k < n
                 PROVE  g[d] = h[d]
      OBVIOUS
    <3>1. g[d] = Value(g, d) /\ h[d] = Value(h, d)
      BY <1>4
    <3>2. CASE d \in Stop
      BY <3>1, <3>2
    <3>3. CASE d \notin Stop
      <4>1. next[d] \in D /\ measure[next[d]] \in Nat /\ measure[next[d]] < k
        BY <3>3
      <4>2. measure[next[d]] \in Same
        BY <4>1, <2>1
      <4>3. g[next[d]] = h[next[d]]
        BY <4>1, <4>2
      <4> QED BY <3>1, <3>3, <4>3
    <3> QED BY <3>2, <3>3
  <2>2. \A k \in Nat : k \in Same
    <3> HIDE DEF Same
    <3> QED BY <2>1, InductionOnNats
  <2> QED BY <2>2
<1> DEFINE G == [n \in Nat |-> CHOOSE g \in [D -> B] : Solves(g, n)]
           f == [d \in D |-> G[measure[d] + 1][d]]
<1>5. ASSUME NEW n \in Nat
      PROVE  G[n] \in [D -> B] /\ Solves(G[n], n)
  <2>1. \E g \in [D -> B] : Solves(g, n)
    BY <1>3
  <2> HIDE DEF Solves
  <2> QED BY <2>1
<1>6. f \in [D -> B]
  <2>1. ASSUME NEW d \in D PROVE G[measure[d] + 1][d] \in B
    <3>1. measure[d] + 1 \in Nat
      OBVIOUS
    <3> HIDE DEF G
    <3> QED BY <1>5, <3>1
  <2> HIDE DEF G
  <2> QED BY <2>1
<1>7. ASSUME NEW d \in D PROVE f[d] = Value(f, d)
  <2> DEFINE n == measure[d] + 1
  <2>0. n \in Nat /\ measure[d] < n
    OBVIOUS
  <2>1. f[d] = G[n][d]
    BY DEF f
  <2>2. G[n][d] = Value(G[n], d)
    <3> HIDE DEF G, Value
    <3> QED BY <1>5, <2>0
  <2>3. CASE d \in Stop
    <3> HIDE DEF G
    <3> QED BY <2>1, <2>2, <2>3
  <2>4. CASE d \notin Stop
    <3> DEFINE e == next[d]
               k == measure[e] + 1
    <3>1. e \in D /\ k \in Nat /\ measure[e] < k /\ k < n
      BY <2>4
    <3>2. f[e] = G[k][e]
      BY <3>1 DEF f
    <3>3. Solves(G[k], k)
      BY <1>5, <3>1
    <3>4. Solves(G[n], k)
      <4>1. Solves(G[n], n)
        BY <1>5, <2>0
      <4>2. ASSUME NEW a \in D, measure[a] < k PROVE measure[a] < n
        <5>1. measure[a] \in Nat
          OBVIOUS
        <5> HIDE DEF k, n
        <5> QED BY <5>1, <4>2, <3>1, <2>0
      <4> HIDE DEF G, Value, k, n
      <4> QED BY <4>1, <4>2
    <3>5. G[k][e] = G[n][e]
      <4> HIDE DEF G, Solves, k, n
      <4> QED BY <3>1, <3>3, <3>4, <1>4
    <3> HIDE DEF G, f
    <3> QED BY <2>1, <2>2, <2>4, <3>2, <3>5
  <2> QED BY <2>3, <2>4
<1> HIDE DEF f
<1> QED BY <1>6, <1>7 DEF HasSolution

---------------------------------------------------------------------------
(* Sequences, one behind the other.                                        *)

LEMMA ConcatIsSeq ==
  ASSUME NEW S, NEW s \in Seq(S), NEW t \in Seq(S)
  PROVE  /\ s \o t \in Seq(S) /\ Len(s \o t) = Len(s) + Len(t)
         /\ Len(s) \in Nat /\ Len(t) \in Nat
BY ConcatProperties, LenProperties

LEMMA FirstOfSeq ==
  ASSUME NEW S, NEW s \in Seq(S), s # <<>>
  PROVE  /\ Head(s) \in S /\ Head(s) = s[1]
         /\ Tail(s) \in Seq(S) /\ Len(s) \in Nat /\ Len(s) > 0 /\ Len(Tail(s)) = Len(s) - 1
<1>1. Len(s) \in Nat /\ Len(s) > 0
  BY EmptySeq
<1> QED BY <1>1, HeadTailProperties

LEMMA SeqOfOne ==
  ASSUME NEW S, NEW a \in S
  PROVE  <<a>> \in Seq(S) /\ Len(<<a>>) = 1 /\ <<a>>[1] = a
OBVIOUS

LEMMA ConcatFromFirst ==
  ASSUME NEW S, NEW s \in Seq(S), s # <<>>, NEW t \in Seq(S)
  PROVE  s \o t # <<>> /\ Head(s \o t) = Head(s) /\ Tail(s \o t) = Tail(s) \o t
<1>1. s \o t \in Seq(S) /\ Len(s \o t) = Len(s) + Len(t) /\ Len(s) \in Nat /\ Len(t) \in Nat
  BY ConcatIsSeq
<1>2. Len(s) > 0 /\ Tail(s) \in Seq(S) /\ Len(Tail(s)) = Len(s) - 1 /\ Head(s) = s[1]
  BY FirstOfSeq
<1>3. s \o t # <<>>
  BY <1>1, <1>2, EmptySeq
<1>4. (s \o t)[1] = s[1]
  BY <1>1, <1>2, ConcatProperties
<1>5. /\ Head(s \o t) = (s \o t)[1] /\ Tail(s \o t) \in Seq(S)
      /\ Len(Tail(s \o t)) = Len(s \o t) - 1
  BY <1>1, <1>3, FirstOfSeq
<1>6. /\ Tail(s) \o t \in Seq(S)
      /\ Len(Tail(s) \o t) = Len(s) - 1 + Len(t)
  BY <1>2, ConcatIsSeq
<1>7. ASSUME NEW i \in 1..Len(Tail(s) \o t)
      PROVE  Tail(s \o t)[i] = (Tail(s) \o t)[i]
  <2>1. i \in 1..(Len(s) - 1 + Len(t))
    BY <1>6
  <2>2. Tail(s \o t)[i] = (s \o t)[i + 1]
    BY <1>1, <1>3, <1>5, <2>1, HeadTailProperties
  <2>3. (s \o t)[i + 1] = IF i + 1 <= Len(s) THEN s[i + 1] ELSE t[i + 1 - Len(s)]
    BY <1>1, <2>1, ConcatProperties
  <2>4. (Tail(s) \o t)[i] = IF i <= Len(s) - 1 THEN Tail(s)[i] ELSE t[i - (Len(s) - 1)]
    BY <1>1, <1>2, <2>1, ConcatProperties
  <2>5. i <= Len(s) - 1 => Tail(s)[i] = s[i + 1]
    BY <1>1, <1>2, <2>1, HeadTailProperties
  <2>6. i + 1 <= Len(s) <=> i <= Len(s) - 1
    BY <1>1, <2>1
  <2>7. i + 1 - Len(s) = i - (Len(s) - 1)
    BY <1>1, <2>1
  <2> QED BY <2>2, <2>3, <2>4, <2>5, <2>6, <2>7
<1>8. Tail(s \o t) = Tail(s) \o t
  BY <1>1, <1>2, <1>5, <1>6, <1>7, SeqEqual
<1> QED BY <1>3, <1>4, <1>5, <1>2, <1>8

LEMMA FirstAndOthers ==
  ASSUME NEW S, NEW s \in Seq(S), s # <<>>
  PROVE  s = <<Head(s)>> \o Tail(s)
<1>1. /\ Head(s) \in S /\ Head(s) = s[1] /\ Tail(s) \in Seq(S)
      /\ Len(s) \in Nat /\ Len(s) > 0 /\ Len(Tail(s)) = Len(s) - 1
  BY FirstOfSeq
<1> DEFINE a == <<Head(s)>>
           b == Tail(s)
<1>2. a \in Seq(S) /\ Len(a) = 1 /\ a[1] = s[1]
  BY <1>1, SeqOfOne
<1>3. \A i \in 1..Len(b) : b[i] = s[i + 1]
  BY HeadTailProperties
<1> HIDE DEF a, b
<1>4. b \in Seq(S) /\ Len(b) = Len(s) - 1
  BY <1>1 DEF b
<1>5. a \o b \in Seq(S) /\ Len(a \o b) = Len(s)
  <2>1. a \o b \in Seq(S) /\ Len(a \o b) = Len(a) + Len(b)
    BY <1>2, <1>4, ConcatIsSeq
  <2> QED BY <2>1, <1>1, <1>2, <1>4
<1>6. ASSUME NEW i \in 1..Len(s) PROVE (a \o b)[i] = s[i]
  <2>1. (a \o b)[i] = IF i <= 1 THEN a[i] ELSE b[i - 1]
    <3>1. i \in 1..(Len(a) + Len(b))
      BY <1>1, <1>2, <1>4
    <3>2. (a \o b)[i] = IF i <= Len(a) THEN a[i] ELSE b[i - Len(a)]
      BY <3>1, <1>2, <1>4, ConcatProperties
    <3> QED BY <3>2, <1>2
  <2>2. CASE i = 1
    BY <2>1, <2>2, <1>2
  <2>3. CASE i # 1
    <3>1. i - 1 \in 1..Len(b) /\ i - 1 + 1 = i /\ ~(i <= 1)
      BY <2>3, <1>1, <1>4
    <3> QED BY <2>1, <3>1, <1>3
  <2> QED BY <2>2, <2>3
<1>7. s = a \o b
  BY <1>1, <1>5, <1>6, SeqEqual
<1> QED BY <1>7 DEF a, b

LEMMA SplitOfSeq ==
  ASSUME NEW S, NEW s \in Seq(S), NEW k \in 0..Len(s)
  PROVE  /\ SubSeq(s, 1, k) \in Seq(S) /\ Len(SubSeq(s, 1, k)) = k
         /\ SubSeq(s, k + 1, Len(s)) \in Seq(S)
         /\ Len(SubSeq(s, k + 1, Len(s))) = Len(s) - k
         /\ s = SubSeq(s, 1, k) \o SubSeq(s, k + 1, Len(s))
<1>1. Len(s) \in Nat /\ k \in Nat /\ k <= Len(s)
  BY LenProperties
<1>2. \A i \in 1..Len(s) : s[i] \in S
  BY ElementOfSeq
<1>3. SubSeq(s, 1, k) \in Seq(S) /\ Len(SubSeq(s, 1, k)) = IF 1 <= k THEN k - 1 + 1 ELSE 0
  <2>1. 1 \in Int /\ k \in Int /\ \A i \in 1..k : s[i] \in S
    BY <1>1, <1>2
  <2> QED BY <2>1, SubSeqProperties
<1>4. /\ SubSeq(s, k + 1, Len(s)) \in Seq(S)
      /\ Len(SubSeq(s, k + 1, Len(s))) = IF k + 1 <= Len(s) THEN Len(s) - (k + 1) + 1 ELSE 0
  <2>1. k + 1 \in Int /\ Len(s) \in Int /\ \A i \in (k + 1)..Len(s) : s[i] \in S
    BY <1>1, <1>2
  <2> QED BY <2>1, SubSeqProperties
<1>5. SubSeq(s, 1, k) \o SubSeq(s, k + 1, Len(s)) = SubSeq(s, 1, Len(s))
  <2>1. 1 \in 1..(Len(s) + 1) /\ k \in (1 - 1)..Len(s) /\ Len(s) \in k..Len(s)
    BY <1>1
  <2> QED BY <2>1, ConcatAdjacentSubSeq
<1>6. SubSeq(s, 1, Len(s)) = s
  BY SubSeqFull
<1>7. Len(SubSeq(s, 1, k)) = k /\ Len(SubSeq(s, k + 1, Len(s))) = Len(s) - k
  <2>1. (IF 1 <= k THEN k - 1 + 1 ELSE 0) = k
    BY <1>1
  <2>2. (IF k + 1 <= Len(s) THEN Len(s) - (k + 1) + 1 ELSE 0) = Len(s) - k
    BY <1>1
  <2> QED BY <1>3, <1>4, <2>1, <2>2
<1>8. s = SubSeq(s, 1, k) \o SubSeq(s, k + 1, Len(s))
  BY <1>5, <1>6
<1> QED BY <1>3, <1>4, <1>7, <1>8

LEMMA SplitOfConcat ==
  ASSUME NEW S, NEW s \in Seq(S), NEW t \in Seq(S)
  PROVE  /\ SubSeq(s \o t, 1, Len(s)) = s
         /\ SubSeq(s \o t, Len(s) + 1, Len(s \o t)) = t
<1>1. s \o t \in Seq(S) /\ Len(s \o t) = Len(s) + Len(t) /\ Len(s) \in Nat /\ Len(t) \in Nat
  BY ConcatIsSeq
<1>2. SubSeq(s \o t, 1, Len(s)) = s
  <2>1. CASE Len(s) = 0
    <3>1. s = <<>>
      BY <2>1, EmptySeq
    <3>2. SubSeq(s \o t, 1, 0) = <<>>
      BY SubSeqEmpty
    <3> QED BY <2>1, <3>1, <3>2
  <2>2. CASE Len(s) # 0
    <3>1. 1 \in 1..Len(s) /\ Len(s) \in 1..Len(s)
      BY <1>1, <2>2
    <3> QED BY <3>1, SubSeqOfConcat1, SubSeqFull
  <2> QED BY <2>1, <2>2
<1>3. SubSeq(s \o t, Len(s) + 1, Len(s) + Len(t)) = t
  <2>1. CASE Len(t) = 0
    <3>1. t = <<>>
      BY <2>1, EmptySeq
    <3>2. Len(s) + 1 \in Int /\ Len(s) + Len(t) \in Int /\ Len(s) + Len(t) < Len(s) + 1
      BY <1>1, <2>1
    <3> QED BY <3>1, <3>2, SubSeqEmpty
  <2>2. CASE Len(t) # 0
    <3>1. /\ Len(s) + 1 \in (Len(s) + 1)..(Len(s) + Len(t))
          /\ Len(s) + Len(t) \in (Len(s) + 1)..(Len(s) + Len(t))
          /\ Len(s) + 1 - Len(s) = 1 /\ Len(s) + Len(t) - Len(s) = Len(t)
      BY <1>1, <2>2
    <3> QED BY <3>1, SubSeqOfConcat2, SubSeqFull
  <2> QED BY <2>1, <2>2
<1> QED BY <1>1, <1>2, <1>3

\* Two ways to part a sequence at the same place are one.
LEMMA SamePlace ==
  ASSUME NEW S, NEW a \in Seq(S), NEW b \in Seq(S), NEW c \in Seq(S), NEW d \in Seq(S),
         a \o b = c \o d, Len(a) = Len(c)
  PROVE  a = c /\ b = d
<1>1. SubSeq(a \o b, 1, Len(a)) = a /\ SubSeq(a \o b, Len(a) + 1, Len(a \o b)) = b
  BY SplitOfConcat
<1>2. SubSeq(c \o d, 1, Len(c)) = c /\ SubSeq(c \o d, Len(c) + 1, Len(c \o d)) = d
  BY SplitOfConcat
<1> QED BY <1>1, <1>2

LEMMA SameFront ==
  ASSUME NEW S, NEW a \in Seq(S), NEW b \in Seq(S), NEW c \in Seq(S), a \o b = a \o c
  PROVE  b = c
BY SamePlace

\* Four or five sequences, one behind the other, however they are put together.
FourFromFirst(a, b, c, d) ==
  /\ ((a \o b) \o c) \o d = a \o (b \o (c \o d))
  /\ a \o ((b \o c) \o d) = (a \o b) \o (c \o d)
FiveFromFirst(a, b, c, d, e) == (((a \o b) \o c) \o d) \o e = a \o (b \o (c \o (d \o e)))

LEMMA ConcatOfFour ==
  ASSUME NEW S, NEW a \in Seq(S), NEW b \in Seq(S), NEW c \in Seq(S), NEW d \in Seq(S)
  PROVE  FourFromFirst(a, b, c, d)
<1>1. a \o b \in Seq(S) /\ c \o d \in Seq(S)
  BY ConcatIsSeq
<1>2. ((a \o b) \o c) \o d = (a \o b) \o (c \o d)
  BY <1>1, ConcatAssociative, SMTT(60)
<1>3. (a \o b) \o (c \o d) = a \o (b \o (c \o d))
  BY <1>1, ConcatAssociative, SMTT(60)
<1>4. (b \o c) \o d = b \o (c \o d)
  BY ConcatAssociative
<1> QED BY <1>2, <1>3, <1>4 DEF FourFromFirst

LEMMA ConcatOfFive ==
  ASSUME NEW S, NEW a \in Seq(S), NEW b \in Seq(S), NEW c \in Seq(S), NEW d \in Seq(S),
         NEW e \in Seq(S)
  PROVE  FiveFromFirst(a, b, c, d, e)
<1> DEFINE x == (a \o b) \o c
           y == d \o e
<1>1. x \in Seq(S) /\ y \in Seq(S)
  BY ConcatIsSeq
<1>2. (x \o d) \o e = x \o y
  <2> HIDE DEF x
  <2> QED BY <1>1, ConcatAssociative, SMTT(60)
<1> HIDE DEF y
<1>3. FourFromFirst(a, b, c, y)
  BY <1>1, ConcatOfFour
<1> QED BY <1>2, <1>3 DEF y, FourFromFirst, FiveFromFirst

=============================================================================
