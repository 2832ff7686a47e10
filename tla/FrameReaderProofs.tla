------------------------- MODULE FrameReaderProofs -------------------------
(***************************************************************************)
(* Theorems about FrameReader.                                             *)
(***************************************************************************)
EXTENDS FrameReader, DataInduction

---------------------------------------------------------------------------
(* Numbers and the bytes they are written in.                              *)

LEMMA Division ==
  ASSUME NEW n \in Nat, NEW b \in Nat, b > 0
  PROVE  /\ n \div b \in Nat /\ n % b \in 0..(b - 1)
         /\ n = b * (n \div b) + (n % b)
OBVIOUS

LEMMA DivisionFallsShort ==
  ASSUME NEW n \in Nat, NEW b \in Nat, b > 1, n > 0
  PROVE  n \div b < n
OBVIOUS

LEMMA DigitsAreBytes ==
  ASSUME NEW n \in Nat
  PROVE  /\ n % Base \in Byte /\ (n % Base) + Base \in Byte /\ n \div Base \in Nat
         /\ n < Base => n \in Byte
         /\ n >= Base => n \div Base < n
<1>1. Base \in Nat /\ Base > 1
  BY FrameAssumption
<1>2. n % Base \in 0..(Base - 1) /\ n \div Base \in Nat
  BY <1>1, Division
<1>3. n >= Base => n \div Base < n
  BY <1>1, DivisionFallsShort
<1> QED BY <1>1, <1>2, <1>3 DEF Byte

---------------------------------------------------------------------------
(* The functions that are defined by recursion.                            *)

\* A length is written as bytes, lowest first.
LEMMA EncodeLengthDef ==
  EncodeLength = [n \in Nat |->
    IF n < Base THEN <<n>> ELSE <<(n % Base) + Base>> \o EncodeLength[n \div Base]]
<1> DEFINE Stop == {n \in Nat : n < Base}
           measure == [n \in Nat |-> n]
           next == [n \in Nat |-> n \div Base]
           base == [n \in Nat |-> IF n < Base THEN <<n>> ELSE <<>>]
           step == [n \in Nat |-> [t \in Seq(Byte) |-> <<(n % Base) + Base>> \o t]]
<1>1. measure \in [Nat -> Nat] /\ next \in [Nat -> Nat]
  BY DigitsAreBytes
<1>2. base \in [Nat -> Seq(Byte)]
  BY DigitsAreBytes
<1>3. step \in [Nat -> [Seq(Byte) -> Seq(Byte)]]
  <2>1. ASSUME NEW n \in Nat, NEW t \in Seq(Byte)
        PROVE  <<(n % Base) + Base>> \o t \in Seq(Byte)
    BY DigitsAreBytes
  <2> QED BY <2>1
<1>4. \A n \in Nat : n \notin Stop => measure[next[n]] < measure[n]
  <2>1. ASSUME NEW n \in Nat, n \notin Stop
        PROVE  n \div Base < n /\ n \div Base \in Nat
    BY <2>1, DigitsAreBytes, FrameAssumption
  <2> QED BY <2>1
<1>5. Descends(Nat, Seq(Byte), Stop, measure, next, base, step)
  BY <1>1, <1>2, <1>3, <1>4 DEF Descends
<1>6. HasSolution(Nat, Seq(Byte), Stop, next, base, step)
  <2> HIDE DEF Stop, measure, next, base, step
  <2> QED BY <1>5, RecursionHasSolution
<1>7. PICK f \in [Nat -> Seq(Byte)] :
        \A n \in Nat : /\ n \in Stop => f[n] = base[n]
                       /\ n \notin Stop => f[n] = step[n][f[next[n]]]
  BY <1>6 DEF HasSolution
<1>8. ASSUME NEW n \in Nat
      PROVE  f[n] = IF n < Base THEN <<n>> ELSE <<(n % Base) + Base>> \o f[n \div Base]
  BY <1>7, DigitsAreBytes
<1>9. f = [n \in Nat |-> IF n < Base THEN <<n>> ELSE <<(n % Base) + Base>> \o f[n \div Base]]
  BY <1>8
<1> QED BY <1>9 DEF EncodeLength

LEMMA EncodeLengthAt ==
  ASSUME NEW n \in Nat
  PROVE  /\ n < Base => EncodeLength[n] = <<n>>
         /\ n >= Base => EncodeLength[n] = <<(n % Base) + Base>> \o EncodeLength[n \div Base]
<1>1. EncodeLength[n] =
        IF n < Base THEN <<n>> ELSE <<(n % Base) + Base>> \o EncodeLength[n \div Base]
  BY EncodeLengthDef, Zenon
<1>2. n >= Base => ~(n < Base)
  BY FrameAssumption
<1> QED BY <1>1, <1>2, Zenon

LEMMA EncodeLengthIsBytes ==
  \A n \in Nat : EncodeLength[n] \in Seq(Byte) /\ Len(EncodeLength[n]) > 0
<1> DEFINE S == {n \in Nat : EncodeLength[n] \in Seq(Byte) /\ Len(EncodeLength[n]) > 0}
<1>1. ASSUME NEW n \in Nat, \A m \in Nat : m < n => m \in S
      PROVE  n \in S
  <2>1. CASE n < Base
    <3>1. EncodeLength[n] = <<n>> /\ n \in Byte
      BY <2>1, EncodeLengthAt, DigitsAreBytes
    <3>2. <<n>> \in Seq(Byte) /\ Len(<<n>>) = 1
      BY <3>1, SeqOfOne
    <3>3. EncodeLength[n] \in Seq(Byte) /\ Len(EncodeLength[n]) = 1
      BY <3>1, <3>2, Zenon
    <3> QED BY <3>3
  <2>2. CASE n >= Base
    <3>1. n \div Base \in S
      BY <2>2, <1>1, DigitsAreBytes
    <3> DEFINE first == <<(n % Base) + Base>>
               others == EncodeLength[n \div Base]
    <3>2. EncodeLength[n] = first \o others
      BY <2>2, EncodeLengthAt
    <3>3. first \in Seq(Byte) /\ Len(first) = 1
      BY DigitsAreBytes, SeqOfOne
    <3>4. others \in Seq(Byte)
      BY <3>1
    <3> HIDE DEF first, others
    <3>5. /\ first \o others \in Seq(Byte) /\ Len(first \o others) = Len(first) + Len(others)
          /\ Len(others) \in Nat
      BY <3>3, <3>4, ConcatIsSeq
    <3>6. EncodeLength[n] \in Seq(Byte) /\ Len(EncodeLength[n]) = 1 + Len(others)
      BY <3>2, <3>3, <3>5, Zenon
    <3> QED BY <3>5, <3>6
  <2> QED BY <2>1, <2>2, FrameAssumption
<1>2. \A n \in Nat : n \in S
  <2> HIDE DEF S
  <2> QED BY <1>1, InductionOnNats
<1> QED BY <1>2

LEMMA BytesAreNumbers == Byte \subseteq Nat /\ Base \in Nat /\ Base > 1
BY FrameAssumption DEF Byte

LEMMA FirstByte ==
  ASSUME NEW s \in Seq(Byte), s # <<>>
  PROVE  Head(s) \in Byte /\ Head(s) \in Nat /\ Tail(s) \in Seq(Byte) /\ Len(Tail(s)) < Len(s)
<1>1. /\ Head(s) \in Byte /\ Tail(s) \in Seq(Byte)
      /\ Len(s) \in Nat /\ Len(Tail(s)) = Len(s) - 1
  BY FirstOfSeq
<1>2. Head(s) \in Nat
  BY <1>1, BytesAreNumbers
<1>3. Len(Tail(s)) < Len(s)
  BY <1>1
<1> QED BY <1>1, <1>2, <1>3

\* A length is read from the first byte on.
LEMMA RemainingLengthDef ==
  RemainingLength = [s \in Seq(Byte) |->
    IF s = <<>> THEN 0
    ELSE IF Head(s) < Base THEN Head(s)
    ELSE Weighed(Head(s), RemainingLength[Tail(s)])]
<1> DEFINE D == Seq(Byte)
           Stop == {s \in D : s = <<>> \/ Head(s) < Base}
           measure == [s \in D |-> Len(s)]
           next == [s \in D |-> IF s = <<>> THEN s ELSE Tail(s)]
           base == [s \in D |-> IF s = <<>> THEN 0 ELSE Head(s)]
           step == [s \in D |-> [n \in Nat |-> IF s = <<>> THEN 0 ELSE Weighed(Head(s), n)]]
<1>1. measure \in [D -> Nat] /\ next \in [D -> D]
  OBVIOUS
<1>2. base \in [D -> Nat]
  <2>1. ASSUME NEW s \in D PROVE (IF s = <<>> THEN 0 ELSE Head(s)) \in Nat
    BY FirstByte
  <2> HIDE DEF D
  <2> QED BY <2>1
<1>3. step \in [D -> [Nat -> Nat]]
  <2>1. ASSUME NEW s \in D, s # <<>>, NEW n \in Nat
        PROVE  Weighed(Head(s), n) \in Nat
    <3>1. Head(s) \in Nat
      BY <2>1, FirstByte
    <3>2. Head(s) % Base \in Nat /\ Base * n \in Nat
      BY <3>1, BytesAreNumbers, Division
    <3> QED BY <3>2 DEF Weighed
  <2> HIDE DEF D
  <2> QED BY <2>1
<1>4. \A s \in D : s \notin Stop => measure[next[s]] < measure[s]
  OBVIOUS
<1>5. Descends(D, Nat, Stop, measure, next, base, step)
  BY <1>1, <1>2, <1>3, <1>4 DEF Descends
<1>6. HasSolution(D, Nat, Stop, next, base, step)
  <2> HIDE DEF D, Stop, measure, next, base, step
  <2> QED BY <1>5, RecursionHasSolution
<1>7. PICK f \in [D -> Nat] :
        \A s \in D : /\ s \in Stop => f[s] = base[s]
                     /\ s \notin Stop => f[s] = step[s][f[next[s]]]
  BY <1>6 DEF HasSolution
<1>8. ASSUME NEW s \in D
      PROVE  f[s] = IF s = <<>> THEN 0
                    ELSE IF Head(s) < Base THEN Head(s)
                    ELSE Weighed(Head(s), f[Tail(s)])
  <2>1. CASE s \in Stop
    BY <1>7, <2>1
  <2>2. CASE s \notin Stop
    <3>1. next[s] = Tail(s) /\ Tail(s) \in D
      BY <2>2
    <3>2. f[Tail(s)] \in Nat
      BY <3>1, <1>7
    <3>3. f[s] = step[s][f[Tail(s)]]
      BY <1>7, <2>2, <3>1
    <3> QED BY <2>2, <3>2, <3>3
  <2> QED BY <2>1, <2>2
<1>9. f = [s \in D |->
             IF s = <<>> THEN 0
             ELSE IF Head(s) < Base THEN Head(s)
             ELSE Weighed(Head(s), f[Tail(s)])]
  BY <1>7, <1>8
<1> QED BY <1>9 DEF RemainingLength

LEMMA RemainingLengthAt ==
  ASSUME NEW s \in Seq(Byte)
  PROVE  /\ s = <<>> => RemainingLength[s] = 0
         /\ s # <<>> /\ Head(s) < Base => RemainingLength[s] = Head(s)
         /\ s # <<>> /\ Head(s) >= Base =>
              RemainingLength[s] = Weighed(Head(s), RemainingLength[Tail(s)])
<1>1. RemainingLength[s] =
        IF s = <<>> THEN 0
        ELSE IF Head(s) < Base THEN Head(s)
        ELSE Weighed(Head(s), RemainingLength[Tail(s)])
  BY RemainingLengthDef, Zenon
<1>2. s # <<>> /\ Head(s) >= Base => ~(Head(s) < Base)
  BY FirstByte, BytesAreNumbers
<1> QED BY <1>1, <1>2, Zenon

LEMMA RemainingLengthIsNat ==
  \A s \in Seq(Byte) : RemainingLength[s] \in Nat
<1> DEFINE S == {n \in Nat : \A s \in Seq(Byte) : Len(s) = n => RemainingLength[s] \in Nat}
<1>1. ASSUME NEW n \in Nat, \A m \in Nat : m < n => m \in S
      PROVE  n \in S
  <2> SUFFICES ASSUME NEW s \in Seq(Byte), Len(s) = n
               PROVE  RemainingLength[s] \in Nat
    OBVIOUS
  <2>1. CASE s = <<>>
    BY <2>1, RemainingLengthAt
  <2>2. CASE s # <<>> /\ Head(s) < Base
    BY <2>2, RemainingLengthAt, FirstByte
  <2>3. CASE s # <<>> /\ Head(s) >= Base
    <3>1. Tail(s) \in Seq(Byte) /\ Len(Tail(s)) < n /\ Len(Tail(s)) \in Nat
      BY <2>3, FirstByte, LenProperties
    <3>2. RemainingLength[Tail(s)] \in Nat
      BY <3>1, <1>1
    <3>3. Head(s) \in Nat /\ Head(s) % Base \in Nat
      BY <2>3, FirstByte, BytesAreNumbers, Division
    <3>4. Weighed(Head(s), RemainingLength[Tail(s)]) \in Nat
      BY <3>2, <3>3, BytesAreNumbers DEF Weighed
    <3> QED BY <2>3, <3>4, RemainingLengthAt
  <2> QED BY <2>1, <2>2, <2>3, FirstByte, BytesAreNumbers
<1>2. \A n \in Nat : n \in S
  <2> HIDE DEF S
  <2> QED BY <1>1, InductionOnNats
<1> QED BY <1>2, LenProperties

\* A byte of a length, and what follows it, give back the length they were made of.
LEMMA WeighedBack ==
  ASSUME NEW n \in Nat
  PROVE  Weighed((n % Base) + Base, n \div Base) = n
<1> DEFINE q == n \div Base
           r == n % Base
<1>1. q \in Nat /\ r \in 0..(Base - 1) /\ n = Base * q + r
  BY BytesAreNumbers, Division
<1> HIDE DEF q, r
<1>2. (r + Base) % Base = r
  BY <1>1, BytesAreNumbers
<1>3. ((r + Base) % Base) + Base * q = n
  BY <1>1, <1>2, BytesAreNumbers
<1> QED BY <1>3 DEF Weighed, q, r

\* A length is read as it was written, whatever follows.
LEMMA LengthIsRead ==
  \A n \in Nat : \A t \in Seq(Byte) : RemainingLength[EncodeLength[n] \o t] = n
<1> DEFINE S == {n \in Nat : \A t \in Seq(Byte) : RemainingLength[EncodeLength[n] \o t] = n}
<1>1. ASSUME NEW n \in Nat, \A m \in Nat : m < n => m \in S
      PROVE  n \in S
  <2> SUFFICES ASSUME NEW t \in Seq(Byte)
               PROVE  RemainingLength[EncodeLength[n] \o t] = n
    OBVIOUS
  <2>1. CASE n < Base
    <3>1. EncodeLength[n] = <<n>> /\ n \in Byte
      BY <2>1, EncodeLengthAt, DigitsAreBytes
    <3>2. <<n>> \in Seq(Byte) /\ <<n>> # <<>> /\ Head(<<n>>) = n
      BY <3>1
    <3>3. <<n>> \o t \in Seq(Byte) /\ <<n>> \o t # <<>> /\ Head(<<n>> \o t) = n
      BY <3>2, ConcatFromFirst, ConcatIsSeq
    <3>4. RemainingLength[<<n>> \o t] = n
      BY <3>3, <2>1, RemainingLengthAt
    <3> QED BY <3>1, <3>4, Zenon
  <2>2. CASE n >= Base
    <3> DEFINE first == (n % Base) + Base
               others == EncodeLength[n \div Base]
    <3>1. first \in Byte /\ n \div Base \in Nat /\ n \div Base < n
      BY <2>2, DigitsAreBytes
    <3>2. others \in Seq(Byte)
      BY <3>1, EncodeLengthIsBytes
    <3>3. EncodeLength[n] = <<first>> \o others
      BY <2>2, EncodeLengthAt
    <3>4. first >= Base
      BY Division, BytesAreNumbers
    <3>5. RemainingLength[others \o t] = n \div Base
      BY <3>1, <1>1
    <3>6. Weighed(first, n \div Base) = n
      BY WeighedBack
    <3> HIDE DEF first, others
    <3>7. <<first>> \in Seq(Byte) /\ <<first>> # <<>> /\ Head(<<first>>) = first
          /\ Tail(<<first>>) = <<>>
      BY <3>1
    <3>8. others \o t \in Seq(Byte) /\ <<>> \o (others \o t) = others \o t
      BY <3>2, ConcatIsSeq, ConcatEmptySeq
    <3>9. (<<first>> \o others) \o t = <<first>> \o (others \o t)
      BY <3>2, <3>7, ConcatAssociative
    <3> DEFINE s == <<first>> \o (others \o t)
    <3>10. s \in Seq(Byte) /\ s # <<>> /\ Head(s) = first /\ Tail(s) = others \o t
      BY <3>7, <3>8, ConcatFromFirst, ConcatIsSeq
    <3>11. RemainingLength[s] = Weighed(first, RemainingLength[others \o t])
      <4> HIDE DEF s
      <4> QED BY <3>4, <3>10, RemainingLengthAt
    <3> QED BY <3>3, <3>5, <3>6, <3>9, <3>11, Zenon
  <2> QED BY <2>1, <2>2, BytesAreNumbers
<1>2. \A n \in Nat : n \in S
  <2> HIDE DEF S
  <2> QED BY <1>1, InductionOnNats
<1> QED BY <1>2

---------------------------------------------------------------------------
(* Where a length ends.                                                    *)

LEMMA LengthBytesIs ==
  ASSUME NEW s \in Seq(Byte)
  PROVE  /\ LengthBytes(s) \in 0..Len(s)
         /\ LengthEnds(s) # {} =>
              /\ LengthBytes(s) \in 1..Len(s) /\ s[LengthBytes(s)] < Base
              /\ \A i \in 1..(LengthBytes(s) - 1) : ~(s[i] < Base)
<1>1. Len(s) \in Nat /\ DOMAIN s = 1..Len(s)
  BY LenProperties
<1>2. CASE LengthEnds(s) = {}
  BY <1>1, <1>2 DEF LengthBytes
<1>3. CASE LengthEnds(s) # {}
  <2> DEFINE E == LengthEnds(s)
  <2>1. E \subseteq 1..Len(s) /\ E \in SUBSET Nat
    BY <1>1 DEF LengthEnds
  <2>2. \E n \in E : \A m \in E : n <= m
    <3> HIDE DEF E
    <3> QED BY <1>3, <2>1, LeastOfNats DEF E
  <2>3. Min(E) \in E /\ \A m \in E : Min(E) <= m
    BY <2>2 DEF Min
  <2>4. LengthBytes(s) = Min(E)
    BY <1>3 DEF LengthBytes
  <2> DEFINE k == LengthBytes(s)
  <2>5. k \in E /\ \A m \in E : k <= m
    BY <2>3, <2>4
  <2> HIDE DEF k
  <2>6. k \in 1..Len(s) /\ s[k] < Base
    BY <2>5, <1>1 DEF LengthEnds
  <2>7. ASSUME NEW i \in 1..(k - 1) PROVE ~(s[i] < Base)
    <3>1. i \in 1..Len(s) /\ ~(k <= i)
      BY <2>6, <1>1
    <3> QED BY <3>1, <2>5, <1>1 DEF LengthEnds
  <2> QED BY <2>6, <2>7, <1>1 DEF k
<1> QED BY <1>2, <1>3

\* The length of a frame ends with its last byte.
LEMMA EncodeLengthEnds ==
  \A n \in Nat : LET e == EncodeLength[n] IN
    e[Len(e)] < Base /\ \A i \in 1..(Len(e) - 1) : ~(e[i] < Base)
<1> DEFINE Ends(e) == e[Len(e)] < Base /\ \A i \in 1..(Len(e) - 1) : ~(e[i] < Base)
           S == {n \in Nat : Ends(EncodeLength[n])}
<1>1. ASSUME NEW n \in Nat, \A m \in Nat : m < n => m \in S
      PROVE  n \in S
  <2>1. CASE n < Base
    <3>1. Ends(<<n>>)
      BY <2>1
    <3>2. EncodeLength[n] = <<n>>
      BY <2>1, EncodeLengthAt
    <3>3. Ends(EncodeLength[n])
      <4> HIDE DEF Ends
      <4> QED BY <3>1, <3>2, Zenon
    <3> QED BY <3>3
  <2>2. CASE n >= Base
    <3> DEFINE x == (n % Base) + Base
               a == <<x>>
               b == EncodeLength[n \div Base]
    <3>1. x \in Byte /\ n \div Base \in Nat /\ n \div Base < n
      BY <2>2, DigitsAreBytes
    <3>2. b \in Seq(Byte) /\ Len(b) > 0
      BY <3>1, EncodeLengthIsBytes
    <3>3. Ends(b)
      BY <3>1, <1>1
    <3>4. EncodeLength[n] = a \o b
      BY <2>2, EncodeLengthAt
    <3>5. x >= Base /\ x \in Nat
      BY Division, BytesAreNumbers
    <3> HIDE DEF x
    <3>6. a \in Seq(Byte) /\ Len(a) = 1 /\ a[1] = x
      BY <3>1, SeqOfOne
    <3> HIDE DEF a, b
    <3>7. Len(a \o b) = 1 + Len(b) /\ Len(b) \in Nat
      BY <3>2, <3>6, ConcatIsSeq
    <3>8. \A i \in 1..(1 + Len(b)) : (a \o b)[i] = IF i <= 1 THEN a[i] ELSE b[i - 1]
      BY <3>2, <3>6, <3>7, ConcatProperties
    <3>9. (a \o b)[Len(a \o b)] < Base
      <4> DEFINE j == 1 + Len(b)
      <4>1. j \in 1..(1 + Len(b)) /\ ~(j <= 1) /\ j - 1 = Len(b) /\ Len(a \o b) = j
        BY <3>2, <3>7
      <4> HIDE DEF j
      <4>2. (a \o b)[j] = b[j - 1]
        BY <4>1, <3>8
      <4> QED BY <4>1, <4>2, <3>3
    <3>10. ASSUME NEW i \in 1..(Len(a \o b) - 1) PROVE ~((a \o b)[i] < Base)
      <4>1. i \in 1..(1 + Len(b)) /\ i <= Len(b)
        BY <3>7
      <4>2. CASE i = 1
        <5>1. (a \o b)[i] = x
          BY <4>1, <4>2, <3>6, <3>8
        <5> QED BY <5>1, <3>5, BytesAreNumbers
      <4>3. CASE i # 1
        <5>1. i - 1 \in 1..(Len(b) - 1) /\ ~(i <= 1)
          BY <4>1, <4>3, <3>7
        <5>2. (a \o b)[i] = b[i - 1]
          BY <4>1, <5>1, <3>8
        <5> QED BY <5>1, <5>2, <3>3
      <4> QED BY <4>2, <4>3
    <3>11. Ends(a \o b)
      BY <3>9, <3>10
    <3>12. Ends(EncodeLength[n])
      <4> HIDE DEF Ends
      <4> QED BY <3>4, <3>11, Zenon
    <3> QED BY <3>12
  <2> QED BY <2>1, <2>2, BytesAreNumbers
<1>2. \A n \in Nat : n \in S
  <2> HIDE DEF S
  <2> QED BY <1>1, InductionOnNats
<1> QED BY <1>2

\* The length read from s is n, and what follows it, with w behind, is t.
IsLength(n, s, w, t) ==
  /\ RemainingLength[s] = n
  /\ SubSeq(s, LengthBytes(s) + 1, Len(s)) \o w = t

\* If a length ends in s, which is where a frame's length has begun, then it is
\* the frame's that ends there, and what follows is the frame's data.
LEMMA LengthIsWithin ==
  ASSUME NEW n \in Nat, NEW s \in Seq(Byte), NEW w \in Seq(Byte), NEW t \in Seq(Byte),
         s \o w = EncodeLength[n] \o t, LengthEnds(s) # {}
  PROVE  IsLength(n, s, w, t)
<1> DEFINE e == EncodeLength[n]
           k == LengthBytes(s)
<1>1. /\ e \in Seq(Byte) /\ Len(e) > 0 /\ Len(e) \in Nat /\ e[Len(e)] < Base
      /\ \A i \in 1..(Len(e) - 1) : ~(e[i] < Base)
  BY EncodeLengthIsBytes, EncodeLengthEnds, LenProperties
<1>2. k \in 1..Len(s) /\ s[k] < Base /\ \A i \in 1..(k - 1) : ~(s[i] < Base)
  BY LengthBytesIs
<1>3. s \o w = e \o t
  OBVIOUS
<1>4. \A m \in Seq(Byte) : RemainingLength[e \o m] = n
  BY LengthIsRead
<1> HIDE DEF e, k
<1>5. Len(s) \in Nat /\ Len(w) \in Nat /\ Len(t) \in Nat /\ Len(s) + Len(w) = Len(e) + Len(t)
  BY <1>1, <1>3, ConcatIsSeq
<1>6. \A i \in 1..(Len(s) + Len(w)) : (s \o w)[i] = IF i <= Len(s) THEN s[i] ELSE w[i - Len(s)]
  BY ConcatProperties
<1>7. \A i \in 1..(Len(e) + Len(t)) : (e \o t)[i] = IF i <= Len(e) THEN e[i] ELSE t[i - Len(e)]
  BY <1>1, ConcatProperties
<1>8. Len(e) <= k
  <2> SUFFICES ASSUME k < Len(e) PROVE FALSE
    BY <1>1, <1>2, <1>5
  <2>1. k \in 1..(Len(e) - 1) /\ k \in 1..(Len(e) + Len(t)) /\ k <= Len(s) /\ k <= Len(e)
    BY <1>1, <1>2, <1>5
  <2>2. s[k] = e[k]
    BY <2>1, <1>3, <1>5, <1>6, <1>7
  <2> QED BY <2>1, <2>2, <1>1, <1>2
<1>9. k <= Len(e)
  <2> SUFFICES ASSUME Len(e) < k PROVE FALSE
    BY <1>1, <1>2, <1>5
  <2> DEFINE j == Len(e)
  <2>1. j \in 1..(k - 1) /\ j \in 1..(Len(e) + Len(t)) /\ j <= Len(s) /\ j <= Len(e)
    BY <1>1, <1>2, <1>5
  <2> HIDE DEF j
  <2>2. s[j] = e[j]
    BY <2>1, <1>3, <1>5, <1>6, <1>7
  <2>3. e[j] < Base
    BY <1>1 DEF j
  <2> QED BY <2>1, <2>2, <2>3, <1>2
<1>10. k = Len(e) /\ Len(e) <= Len(s)
  BY <1>1, <1>2, <1>5, <1>8, <1>9
<1> DEFINE p == SubSeq(s, 1, k)
           m == SubSeq(s, k + 1, Len(s))
<1>11. p \in Seq(Byte) /\ Len(p) = Len(e) /\ m \in Seq(Byte) /\ s = p \o m
  <2>1. k \in 0..Len(s)
    BY <1>2, <1>5
  <2>2. /\ SubSeq(s, 1, k) \in Seq(Byte) /\ Len(SubSeq(s, 1, k)) = k
        /\ SubSeq(s, k + 1, Len(s)) \in Seq(Byte)
        /\ s = SubSeq(s, 1, k) \o SubSeq(s, k + 1, Len(s))
    BY <2>1, SplitOfSeq, ZenonT(60)
  <2>3. p = SubSeq(s, 1, k) /\ m = SubSeq(s, k + 1, Len(s))
    OBVIOUS
  <2> HIDE DEF p, m
  <2> QED BY <1>10, <2>2, <2>3
<1> HIDE DEF p, m
<1>12. p \o (m \o w) = e \o t /\ m \o w \in Seq(Byte)
  <2>1. (p \o m) \o w = p \o (m \o w) /\ m \o w \in Seq(Byte)
    BY <1>11, ConcatAssociative, ConcatIsSeq, SMTT(60)
  <2> QED BY <1>3, <1>11, <2>1
<1>13. p = e /\ m \o w = t
  BY <1>1, <1>11, <1>12, SamePlace
<1>14. RemainingLength[s] = n
  BY <1>4, <1>11, <1>13
<1> QED BY <1>11, <1>13, <1>14 DEF k, m, IsLength

---------------------------------------------------------------------------
(* Frames as bytes.                                                        *)

LEMMA WriteIsBytes ==
  ASSUME NEW f \in Frame
  PROVE  /\ f.header \in Byte /\ f.data \in Seq(Byte) /\ Len(f.data) \in Nat
         /\ <<f.header>> \in Seq(Byte) /\ Len(<<f.header>>) = 1
         /\ EncodeLength[Len(f.data)] \in Seq(Byte)
         /\ Write(f) \in Seq(Byte) /\ Len(Write(f)) > 0
<1> DEFINE h == <<f.header>>
           e == EncodeLength[Len(f.data)]
           d == f.data
<1>1. f.header \in Byte /\ d \in Seq(Byte)
  BY DEF Frame
<1>2. h \in Seq(Byte) /\ Len(h) = 1
  BY <1>1, SeqOfOne
<1>3. Len(d) \in Nat
  BY <1>1, LenProperties
<1>4. e \in Seq(Byte)
  BY <1>3, EncodeLengthIsBytes
<1>5. Write(f) = (h \o e) \o d
  BY DEF Write
<1> HIDE DEF h, e, d
<1>6. h \o e \in Seq(Byte) /\ Len(h \o e) = 1 + Len(e) /\ Len(e) \in Nat
  BY <1>2, <1>4, ConcatIsSeq
<1>7. (h \o e) \o d \in Seq(Byte) /\ Len((h \o e) \o d) = 1 + Len(e) + Len(d)
  BY <1>1, <1>6, ConcatIsSeq
<1>8. Write(f) \in Seq(Byte) /\ Len(Write(f)) > 0
  BY <1>3, <1>5, <1>6, <1>7
<1> QED BY <1>1, <1>2, <1>3, <1>4, <1>8 DEF h, e, d

LEMMA StreamDef ==
  Stream = [frames \in Seq(Frame) |->
    IF frames = <<>> THEN <<>> ELSE Write(Head(frames)) \o Stream[Tail(frames)]]
<1> DEFINE D == Seq(Frame)
           B == Seq(Byte)
           Stop == {<<>>}
           measure == [s \in D |-> Len(s)]
           next == [s \in D |-> IF s = <<>> THEN s ELSE Tail(s)]
           base == [s \in D |-> <<>>]
           step == [s \in D |-> [t \in B |-> IF s = <<>> THEN t ELSE Write(Head(s)) \o t]]
<1>1. measure \in [D -> Nat] /\ next \in [D -> D]
  OBVIOUS
<1>2. base \in [D -> B]
  OBVIOUS
<1>3. step \in [D -> [B -> B]]
  <2>1. ASSUME NEW s \in D, s # <<>>, NEW t \in B
        PROVE  Write(Head(s)) \o t \in B
    <3>1. Head(s) \in Frame
      BY <2>1, FirstOfSeq
    <3>2. Write(Head(s)) \in B
      BY <3>1, WriteIsBytes
    <3> QED BY <3>2, ConcatIsSeq
  <2> HIDE DEF D, B
  <2> QED BY <2>1
<1>4. \A s \in D : s \notin Stop => measure[next[s]] < measure[s]
  OBVIOUS
<1>5. Descends(D, B, Stop, measure, next, base, step)
  BY <1>1, <1>2, <1>3, <1>4 DEF Descends
<1>6. HasSolution(D, B, Stop, next, base, step)
  <2> HIDE DEF D, B, Stop, measure, next, base, step
  <2> QED BY <1>5, RecursionHasSolution
<1>7. PICK f \in [D -> B] :
        \A s \in D : /\ s \in Stop => f[s] = base[s]
                     /\ s \notin Stop => f[s] = step[s][f[next[s]]]
  BY <1>6 DEF HasSolution
<1>8. ASSUME NEW s \in D
      PROVE  f[s] = IF s = <<>> THEN <<>> ELSE Write(Head(s)) \o f[Tail(s)]
  <2>1. CASE s \in Stop
    BY <1>7, <2>1
  <2>2. CASE s \notin Stop
    <3>1. next[s] = Tail(s) /\ Tail(s) \in D
      BY <2>2
    <3>2. f[Tail(s)] \in B
      BY <3>1, <1>7
    <3>3. f[s] = step[s][f[Tail(s)]]
      BY <1>7, <2>2, <3>1
    <3>4. step[s][f[Tail(s)]] = Write(Head(s)) \o f[Tail(s)]
      <4> HIDE DEF B
      <4> QED BY <2>2, <3>2
    <3> QED BY <2>2, <3>3, <3>4
  <2> QED BY <2>1, <2>2
<1>9. f = [s \in D |-> IF s = <<>> THEN <<>> ELSE Write(Head(s)) \o f[Tail(s)]]
  BY <1>7, <1>8
<1> QED BY <1>9 DEF Stream

LEMMA StreamAt ==
  ASSUME NEW s \in Seq(Frame)
  PROVE  /\ s = <<>> => Stream[s] = <<>>
         /\ s # <<>> => Stream[s] = Write(Head(s)) \o Stream[Tail(s)]
<1>1. Stream[s] = IF s = <<>> THEN <<>> ELSE Write(Head(s)) \o Stream[Tail(s)]
  BY StreamDef, Zenon
<1> QED BY <1>1, Zenon

LEMMA StreamIsBytes ==
  \A s \in Seq(Frame) : Stream[s] \in Seq(Byte)
<1> DEFINE S == {n \in Nat : \A s \in Seq(Frame) : Len(s) = n => Stream[s] \in Seq(Byte)}
<1>1. ASSUME NEW n \in Nat, \A m \in Nat : m < n => m \in S
      PROVE  n \in S
  <2> SUFFICES ASSUME NEW s \in Seq(Frame), Len(s) = n
               PROVE  Stream[s] \in Seq(Byte)
    OBVIOUS
  <2>1. CASE s = <<>>
    BY <2>1, StreamAt, EmptySeq
  <2>2. CASE s # <<>>
    <3>1. Head(s) \in Frame /\ Tail(s) \in Seq(Frame) /\ Len(Tail(s)) < n /\ Len(Tail(s)) \in Nat
      BY <2>2, FirstOfSeq
    <3>2. Stream[Tail(s)] \in Seq(Byte) /\ Write(Head(s)) \in Seq(Byte)
      BY <3>1, <1>1, WriteIsBytes
    <3>3. Write(Head(s)) \o Stream[Tail(s)] \in Seq(Byte)
      BY <3>2, ConcatIsSeq
    <3> QED BY <2>2, <3>3, StreamAt
  <2> QED BY <2>1, <2>2
<1>2. \A n \in Nat : n \in S
  <2> HIDE DEF S
  <2> QED BY <1>1, InductionOnNats
<1> QED BY <1>2, LenProperties

\* One frame more is one frame's bytes more.
LEMMA StreamOfOneMore ==
  ASSUME NEW f \in Frame
  PROVE  \A s \in Seq(Frame) : Stream[Append(s, f)] = Stream[s] \o Write(f)
<1> DEFINE S == {n \in Nat : \A s \in Seq(Frame) :
                   Len(s) = n => Stream[Append(s, f)] = Stream[s] \o Write(f)}
<1>1. ASSUME NEW n \in Nat, \A m \in Nat : m < n => m \in S
      PROVE  n \in S
  <2> SUFFICES ASSUME NEW s \in Seq(Frame), Len(s) = n
               PROVE  Stream[Append(s, f)] = Stream[s] \o Write(f)
    OBVIOUS
  <2> DEFINE a == Append(s, f)
  <2>1. a \in Seq(Frame) /\ a # <<>>
    BY AppendProperties
  <2>2. /\ Head(a) = IF s = <<>> THEN f ELSE Head(s)
        /\ Tail(a) = IF s = <<>> THEN <<>> ELSE Append(Tail(s), f)
    BY HeadTailAppend
  <2> HIDE DEF a
  <2>3. Stream[a] = Write(Head(a)) \o Stream[Tail(a)]
    BY <2>1, StreamAt
  <2>4. Write(f) \in Seq(Byte)
    BY WriteIsBytes
  <2>5. CASE s = <<>>
    <3>1. Stream[s] = <<>> /\ Head(a) = f /\ Tail(a) = s
      BY <2>2, <2>5, StreamAt
    <3>2. Stream[a] = Write(f) \o <<>>
      BY <2>3, <3>1, Zenon
    <3>3. Write(f) \o <<>> = Write(f) /\ <<>> \o Write(f) = Write(f)
      BY <2>4, ConcatEmptySeq
    <3>4. Stream[a] = Stream[s] \o Write(f)
      BY <3>1, <3>2, <3>3, Zenon
    <3> QED BY <3>4 DEF a
  <2>6. CASE s # <<>>
    <3> DEFINE h == Write(Head(s))
               t == Stream[Tail(s)]
    <3>1. Head(s) \in Frame /\ Tail(s) \in Seq(Frame) /\ Len(Tail(s)) < n /\ Len(Tail(s)) \in Nat
      BY <2>6, FirstOfSeq
    <3>2. h \in Seq(Byte) /\ t \in Seq(Byte)
      BY <3>1, WriteIsBytes, StreamIsBytes
    <3>3. Head(a) = Head(s) /\ Tail(a) = Append(Tail(s), f)
      BY <2>2, <2>6
    <3>4. Stream[Append(Tail(s), f)] = t \o Write(f)
      BY <3>1, <1>1
    <3>5. Stream[s] = h \o t
      BY <2>6, StreamAt
    <3>6. Stream[a] = h \o (t \o Write(f))
      BY <2>3, <3>3, <3>4, Zenon
    <3> HIDE DEF h, t
    <3>7. (h \o t) \o Write(f) = h \o (t \o Write(f))
      BY <2>4, <3>2, ConcatAssociative, SMTT(60)
    <3>8. Stream[a] = Stream[s] \o Write(f)
      BY <3>5, <3>6, <3>7, Zenon
    <3> QED BY <3>8 DEF a
  <2> QED BY <2>5, <2>6
<1>2. \A n \in Nat : n \in S
  <2> HIDE DEF S
  <2> QED BY <1>1, InductionOnNats
<1> QED BY <1>2, LenProperties

---------------------------------------------------------------------------
(* The types.                                                              *)

LEMMA Int2IsBytes ==
  ASSUME NEW i \in Nat
  PROVE  Int2(i) \in Seq(Byte) /\ Len(Int2(i)) = 2
<1> DEFINE b == 2 * Base
<1>1. b \in Nat /\ b > 0
  BY BytesAreNumbers
<1>2. i \div b \in Nat /\ i % b \in 0..(b - 1)
  BY <1>1, Division
<1>3. (i \div b) % b \in 0..(b - 1)
  BY <1>1, <1>2, Division
<1>4. (i \div b) % b \in Byte /\ i % b \in Byte
  BY <1>2, <1>3 DEF Byte
<1> QED BY <1>4 DEF Int2

LEMMA PublishFrameIsFrame ==
  ASSUME NEW m \in Messages
  PROVE  PublishFrame(m) \in Frame
<1>1. m.topic \in Seq(Byte) /\ m.id \in Nat /\ m.payload \in Seq(Byte) /\ PUBLISH \in Byte
  BY FrameAssumption DEF Ids
<1>2. Int2(Len(m.topic)) \in Seq(Byte) /\ Int2(m.id) \in Seq(Byte)
  BY <1>1, LenProperties, Int2IsBytes
<1> DEFINE a == Int2(Len(m.topic))
           c == Int2(m.id)
<1> HIDE DEF a, c
<1>3. ((a \o m.topic) \o c) \o m.payload \in Seq(Byte)
  BY <1>1, <1>2, ConcatIsSeq DEF a, c
<1>4. PublishFrame(m) = [header |-> PUBLISH, data |-> ((a \o m.topic) \o c) \o m.payload]
  BY DEF PublishFrame, a, c
<1> QED BY <1>1, <1>3, <1>4 DEF Frame

LEMMA AnswersAreFrames == Answers \subseteq Frame
BY FrameAssumption DEF Frame

LEMMA MinOfTwo ==
  ASSUME NEW a \in Nat, NEW b \in Nat
  PROVE  /\ Min({a, b}) \in Nat /\ Min({a, b}) <= a /\ Min({a, b}) <= b
         /\ Min({a, b}) = a \/ Min({a, b}) = b
<1>1. \E n \in {a, b} : \A m \in {a, b} : n <= m
  OBVIOUS
<1>2. Min({a, b}) \in {a, b} /\ \A m \in {a, b} : Min({a, b}) <= m
  BY <1>1 DEF Min
<1> QED BY <1>2

\* What is read of a chunk before the data.
LEMMA BegunIs ==
  ASSUME TypeOK, chunk # <<>>
  PROVE  /\ Begun.header \in Byte /\ Begun.left \in Nat /\ Begun.rest \in Seq(Byte)
         /\ leftSize = 0 =>
              /\ Begun.header = Head(chunk) /\ Begun.left = RemainingLength[Tail(chunk)]
              /\ Begun.rest = SubSeq(Tail(chunk), LengthBytes(Tail(chunk)) + 1, Len(Tail(chunk)))
         /\ leftSize # 0 =>
              Begun.header = header /\ Begun.left = leftSize /\ Begun.rest = chunk
<1>1. chunk \in Seq(Byte) /\ header \in Byte /\ leftSize \in Nat
  BY DEF TypeOK
<1>2. CASE leftSize = 0
  <2> DEFINE s == Tail(chunk)
  <2>1. Head(chunk) \in Byte /\ s \in Seq(Byte)
    BY <1>1, FirstByte
  <2> HIDE DEF s
  <2>2. RemainingLength[s] \in Nat
    BY <2>1, RemainingLengthIsNat
  <2>3. SubSeq(s, LengthBytes(s) + 1, Len(s)) \in Seq(Byte)
    BY <2>1, LengthBytesIs, SplitOfSeq
  <2>4. Begun = [header |-> Head(chunk), left |-> RemainingLength[s],
                 rest |-> SubSeq(s, LengthBytes(s) + 1, Len(s))]
    BY <1>2 DEF Begun, s
  <2>5. /\ Begun.header = Head(chunk) /\ Begun.left = RemainingLength[s]
        /\ Begun.rest = SubSeq(s, LengthBytes(s) + 1, Len(s))
    BY <2>4
  <2> QED BY <1>2, <2>1, <2>2, <2>3, <2>5 DEF s
<1>3. CASE leftSize # 0
  <2>1. Begun = [header |-> header, left |-> leftSize, rest |-> chunk]
    BY <1>3 DEF Begun
  <2>2. Begun.header = header /\ Begun.left = leftSize /\ Begun.rest = chunk
    BY <2>1
  <2> QED BY <1>1, <1>3, <2>2
<1> QED BY <1>2, <1>3

\* How much of the data is there.
Part == Min({Begun.left, Len(Begun.rest)})
Read == SubSeq(Begun.rest, 1, Part)
NotRead == SubSeq(Begun.rest, Part + 1, Len(Begun.rest))

LEMMA PartIs ==
  ASSUME TypeOK, chunk # <<>>
  PROVE  /\ Part \in Nat /\ Part <= Begun.left /\ Len(Begun.rest) \in Nat
         /\ Part = Begun.left \/ Part = Len(Begun.rest)
         /\ Read \in Seq(Byte) /\ Len(Read) = Part
         /\ NotRead \in Seq(Byte) /\ Len(NotRead) = Len(Begun.rest) - Part
         /\ Begun.rest = Read \o NotRead
<1>1. Begun.left \in Nat /\ Begun.rest \in Seq(Byte) /\ Len(Begun.rest) \in Nat
  BY BegunIs, LenProperties
<1>2. /\ Part \in Nat /\ Part <= Begun.left /\ Part <= Len(Begun.rest)
      /\ Part = Begun.left \/ Part = Len(Begun.rest)
  BY <1>1, MinOfTwo DEF Part
<1>3. Part \in 0..Len(Begun.rest)
  BY <1>1, <1>2
<1> HIDE DEF Part
<1>4. /\ Read \in Seq(Byte) /\ Len(Read) = Part /\ NotRead \in Seq(Byte)
      /\ Len(NotRead) = Len(Begun.rest) - Part /\ Begun.rest = Read \o NotRead
  BY <1>1, <1>3, SplitOfSeq, ZenonT(60) DEF Read, NotRead
<1> QED BY <1>1, <1>2, <1>4

\* What an iteration of the loop does.
LEMMA ReadReadyIs ==
  ASSUME TypeOK, ReadReady
  PROVE  /\ chunk # <<>>
         /\ header' = Begun.header /\ leftSize' = Begun.left - Part /\ chunk' = NotRead
         /\ Part = Begun.left =>
              /\ got' = Append(got, [header |-> Begun.header, data |-> buffer \o Read])
              /\ buffer' = <<>>
         /\ Part # Begun.left => buffer' = buffer \o Read /\ got' = got
         /\ intact' = (intact /\ ~Split)
         /\ UNCHANGED <<up, wire, sent, count>>
<1>1. chunk # <<>>
  BY DEF ReadReady
<1>2. Part \in Nat /\ Begun.left \in Nat
  BY <1>1, PartIs, BegunIs
<1>3. /\ header' = Begun.header /\ leftSize' = Begun.left - Part /\ chunk' = NotRead
      /\ IF leftSize' = 0
         THEN /\ got' = Append(got, [header |-> header', data |-> buffer \o Read])
              /\ buffer' = <<>>
         ELSE buffer' = buffer \o Read /\ got' = got
      /\ intact' = (intact /\ ~Split)
      /\ UNCHANGED <<up, wire, sent, count>>
  BY DEF ReadReady, Part, Read, NotRead, Left, BufferCleared
<1>4. leftSize' = 0 <=> Part = Begun.left
  <2> HIDE DEF Part
  <2> QED BY <1>2, <1>3
<1> QED BY <1>1, <1>3, <1>4

LEMMA TypeKept ==
  ASSUME TypeOK, [Next]_vars
  PROVE  TypeOK'
<1> USE DEF TypeOK
<1>1. CASE Connect
  <2>1. <<>> \in Seq(Frame) /\ intact' \in BOOLEAN
    BY <1>1 DEF Connect
  <2> QED BY <1>1, <2>1 DEF Connect
<1>2. CASE Drop
  BY <1>2 DEF Drop
<1>3. ASSUME NEW f \in Frame, BrokerSends(f) PROVE TypeOK'
  <2>1. wire' = wire \o Write(f) /\ Write(f) \in Seq(Byte)
    BY <1>3, WriteIsBytes DEF BrokerSends
  <2>2. wire' \in Seq(Byte)
    BY <2>1, ConcatIsSeq
  <2>3. count' \in 0..MaxFrames
    BY <1>3, FrameAssumption DEF BrokerSends
  <2> QED BY <1>3, <2>2, <2>3 DEF BrokerSends
<1>4. ASSUME NEW k \in 1..Len(wire), Arrives(k) PROVE TypeOK'
  <2>1. k \in 0..Len(wire)
    BY LenProperties
  <2>2. wire' \in Seq(Byte) /\ chunk' \in Seq(Byte)
    BY <1>4, <2>1, SplitOfSeq DEF Arrives
  <2> QED BY <1>4, <2>2 DEF Arrives
<1>5. CASE ReadReady
  <2>1. chunk # <<>>
    BY <1>5 DEF ReadReady
  <2>2. Begun.header \in Byte /\ Begun.left \in Nat
    BY <2>1, BegunIs
  <2>3. /\ Part \in Nat /\ Part <= Begun.left
        /\ Read \in Seq(Byte) /\ NotRead \in Seq(Byte)
    BY <2>1, PartIs
  <2>4. buffer \o Read \in Seq(Byte)
    BY <2>3, ConcatIsSeq
  <2>5. [header |-> Begun.header, data |-> buffer \o Read] \in Frame
    BY <2>2, <2>4 DEF Frame
  <2>6. /\ header' = Begun.header /\ leftSize' = Begun.left - Part /\ chunk' = NotRead
        /\ Part = Begun.left =>
              /\ got' = Append(got, [header |-> Begun.header, data |-> buffer \o Read])
              /\ buffer' = <<>>
        /\ Part # Begun.left => buffer' = buffer \o Read /\ got' = got
        /\ intact' = (intact /\ ~Split)
        /\ UNCHANGED <<up, wire, sent, count>>
    BY <1>5, ReadReadyIs
  <2> DEFINE b == Begun
             F == [header |-> b.header, data |-> buffer \o Read]
  <2>7. header' \in Byte /\ leftSize' \in Nat /\ chunk' \in Seq(Byte)
    <3> HIDE DEF b
    <3> QED BY <2>2, <2>3, <2>6, SMTT(60) DEF b
  <2>8. got' \in Seq(Frame) /\ buffer' \in Seq(Byte)
    <3>1. CASE Part = b.left
      <4>1. got' = Append(got, F) /\ buffer' = <<>>
        BY <2>6, <3>1
      <4>2. F \in Frame
        BY <2>5
      <4>3. Append(got, F) \in Seq(Frame)
        <5> HIDE DEF F
        <5> QED BY <4>2, AppendProperties
      <4> QED BY <4>1, <4>3, EmptySeq
    <3>2. CASE Part # b.left
      BY <2>4, <2>6, <3>2
    <3> QED BY <3>1, <3>2
  <2>9. leftSize' = 0 => buffer' = <<>>
    <3>1. Part \in Nat /\ b.left \in Nat /\ leftSize' = b.left - Part
      BY <2>2, <2>3, <2>6
    <3> HIDE DEF b
    <3>2. leftSize' = 0 => Part = b.left
      BY <3>1
    <3> QED BY <2>6, <3>2 DEF b
  <2>10. intact' \in BOOLEAN
    BY <2>6
  <2> QED BY <2>6, <2>7, <2>8, <2>9, <2>10
<1>6. CASE UNCHANGED vars
  BY <1>6 DEF vars
<1>7. \A m \in Messages : PublishFrame(m) \in Frame
  BY PublishFrameIsFrame
<1> QED BY <1>1, <1>2, <1>3, <1>4, <1>5, <1>6, <1>7, AnswersAreFrames DEF Next

\* The types, and: what is left of a frame is never less than nothing, and
\* there is nothing in _buffer that no frame is waiting for
\* (qmqtt_network.cpp:153-163).
THEOREM TypeCorrect == Spec => []TypeOK
<1>1. Init => TypeOK
  <2>1. 0 \in Byte
    BY FrameAssumption DEF Byte
  <2>2. <<>> \in Seq(Byte) /\ <<>> \in Seq(Frame)
    BY EmptySeq
  <2>3. 0 \in 0..MaxFrames /\ 0 \in Nat
    BY FrameAssumption
  <2> SUFFICES ASSUME Init PROVE TypeOK
    OBVIOUS
  <2>4. /\ up = FALSE /\ wire = <<>> /\ chunk = <<>> /\ header = 0 /\ leftSize = 0
        /\ buffer = <<>> /\ got = <<>> /\ intact = TRUE /\ count = 0
    BY DEF Init
  <2> QED BY <2>1, <2>2, <2>3, <2>4, Zenon DEF TypeOK
<1>2. TypeOK /\ [Next]_vars => TypeOK'
  BY TypeKept
<1> QED BY <1>1, <1>2, PTL DEF Spec

---------------------------------------------------------------------------
(* The frames received are those sent.                                     *)

\* The frames that have not been received.
Unsent == SubSeq(sent, Len(got) + 1, Len(sent))

\* What has been read of a frame.
Begins ==
  IF leftSize = 0 THEN <<>>
  ELSE <<header>> \o EncodeLength[Len(buffer) + leftSize] \o buffer

\* FramesAsSent, and: while there is no connection nothing is under way.
StreamInv ==
  /\ sent \in Seq(Frame)
  /\ ~up => wire = <<>> /\ chunk = <<>>
  /\ intact /\ up =>
       /\ Len(got) <= Len(sent) /\ got = SubSeq(sent, 1, Len(got))
       /\ Stream[Unsent] = (Begins \o chunk) \o wire

LEMMA PartsOfSent ==
  ASSUME sent \in Seq(Frame), Len(got) \in Nat, Len(got) <= Len(sent)
  PROVE  /\ Unsent \in Seq(Frame) /\ Len(Unsent) = Len(sent) - Len(got)
         /\ sent = SubSeq(sent, 1, Len(got)) \o Unsent
         /\ SubSeq(sent, 1, Len(got)) \in Seq(Frame) /\ Len(SubSeq(sent, 1, Len(got))) = Len(got)
<1>1. Len(got) \in 0..Len(sent)
  BY LenProperties
<1> QED BY <1>1, SplitOfSeq, ZenonT(60) DEF Unsent

LEMMA BeginsIsBytes ==
  ASSUME TypeOK
  PROVE  Begins \in Seq(Byte)
<1>1. CASE leftSize = 0
  BY <1>1, EmptySeq DEF Begins
<1>2. CASE leftSize # 0
  <2>1. <<header>> \in Seq(Byte) /\ buffer \in Seq(Byte)
    BY SeqOfOne DEF TypeOK
  <2>2. Len(buffer) + leftSize \in Nat
    BY LenProperties DEF TypeOK
  <2>3. EncodeLength[Len(buffer) + leftSize] \in Seq(Byte)
    BY <2>2, EncodeLengthIsBytes
  <2>4. (<<header>> \o EncodeLength[Len(buffer) + leftSize]) \o buffer \in Seq(Byte)
    BY <2>1, <2>3, ConcatIsSeq
  <2> QED BY <1>2, <2>4 DEF Begins
<1> QED BY <1>1, <1>2

\* The frame a chunk goes on with is the next of those sent.
LEMMA BegunIsOfFrame ==
  ASSUME TypeOK, StreamInv, intact, up, chunk # <<>>, ~Split,
         NEW f \in Frame, NEW others \in Seq(Byte), Stream[Unsent] = Write(f) \o others
  PROVE  /\ Begun.header = f.header /\ Len(f.data) = Len(buffer) + Begun.left
         /\ f.data \o others = buffer \o (Begun.rest \o wire)
<1> DEFINE h == <<f.header>>
           e == EncodeLength[Len(f.data)]
           d == f.data
<1>1. /\ h \in Seq(Byte) /\ Len(h) = 1 /\ e \in Seq(Byte) /\ d \in Seq(Byte) /\ Len(d) \in Nat
      /\ Head(h) = f.header /\ Tail(h) = <<>> /\ h # <<>>
  BY WriteIsBytes
<1>2. chunk \in Seq(Byte) /\ wire \in Seq(Byte) /\ buffer \in Seq(Byte) /\ leftSize \in Nat
  BY DEF TypeOK
<1>3. Write(f) = (h \o e) \o d
  BY DEF Write
<1>4. Stream[Unsent] = (Begins \o chunk) \o wire
  BY DEF StreamInv
<1> DEFINE X == e \o (d \o others)
<1>5. X \in Seq(Byte) /\ d \o others \in Seq(Byte)
  <2> HIDE DEF h, e, d
  <2> QED BY <1>1, ConcatIsSeq
<1>6. Stream[Unsent] = h \o X
  <2>1. ((h \o e) \o d) \o others = h \o X
    <3>1. h \in Seq(Byte) /\ e \in Seq(Byte) /\ d \in Seq(Byte)
      BY <1>1
    <3> HIDE DEF h, e, d
    <3>2. FourFromFirst(h, e, d, others)
      BY <3>1, ConcatOfFour
    <3> QED BY <3>2 DEF FourFromFirst
  <2>2. Stream[Unsent] = ((h \o e) \o d) \o others
    BY <1>3, Zenon
  <2> QED BY <2>1, <2>2, Zenon
<1>7. Head(h \o X) = f.header /\ Tail(h \o X) = X
  <2>1. Head(h \o X) = Head(h) /\ Tail(h \o X) = Tail(h) \o X
    <3> HIDE DEF h, X
    <3> QED BY <1>1, <1>5, ConcatFromFirst
  <2>2. <<>> \o X = X
    <3> HIDE DEF X
    <3> QED BY <1>5, ConcatEmptySeq
  <2> QED BY <1>1, <2>1, <2>2, Zenon
<1>8. RemainingLength[X] = Len(d)
  BY <1>1, <1>5, LengthIsRead
<1>9. CASE leftSize = 0
  <2> DEFINE s == Tail(chunk)
  <2>1. Begins = <<>> /\ buffer = <<>> /\ LengthEnds(s) # {}
    BY <1>9 DEF Begins, Split, TypeOK
  <2>2. <<>> \o chunk = chunk
    BY <1>2, ConcatEmptySeq
  <2>3. chunk \o wire = h \o X
    BY <1>4, <1>6, <2>1, <2>2, Zenon
  <2>4. Head(chunk \o wire) = Head(chunk) /\ Tail(chunk \o wire) = s \o wire /\ s \in Seq(Byte)
    BY <1>2, ConcatFromFirst, FirstByte
  <2>5. Head(chunk) = f.header /\ s \o wire = e \o (d \o others)
    BY <1>7, <2>3, <2>4, Zenon
  <2>6. /\ RemainingLength[s] = Len(d)
        /\ SubSeq(s, LengthBytes(s) + 1, Len(s)) \o wire = d \o others
    <3> DEFINE n == Len(d)
               t == d \o others
    <3>1. /\ n \in Nat /\ t \in Seq(Byte) /\ s \in Seq(Byte) /\ wire \in Seq(Byte)
          /\ s \o wire = EncodeLength[n] \o t /\ LengthEnds(s) # {}
      BY <1>1, <1>2, <1>5, <2>1, <2>4, <2>5
    <3> HIDE DEF n, t, s
    <3>2. IsLength(n, s, wire, t)
      BY <3>1, LengthIsWithin
    <3> QED BY <3>2 DEF n, t, IsLength
  <2>7. /\ Begun.header = Head(chunk) /\ Begun.left = RemainingLength[s]
        /\ Begun.rest = SubSeq(s, LengthBytes(s) + 1, Len(s))
    BY <1>9, BegunIs
  <2>8. Len(buffer) = 0 /\ Begun.left = Len(d)
    BY <2>1, <2>6, <2>7
  <2>9. Begun.rest \o wire = d \o others
    BY <2>6, <2>7, Zenon
  <2>10. <<>> \o (Begun.rest \o wire) = Begun.rest \o wire
    BY <1>5, <2>9, ConcatEmptySeq, Zenon
  <2>11. d \o others = buffer \o (Begun.rest \o wire)
    BY <2>1, <2>9, <2>10, Zenon
  <2>12. Len(d) = Len(buffer) + Begun.left
    BY <1>1, <2>8
  <2>13. Begun.header = f.header
    BY <2>5, <2>7, Zenon
  <2> QED BY <2>11, <2>12, <2>13
<1>10. CASE leftSize # 0
  <2> DEFINE a == <<header>>
             n == Len(buffer) + leftSize
             g == EncodeLength[n]
             Y == g \o (buffer \o (chunk \o wire))
  <2>1. n \in Nat
    BY <1>2, LenProperties
  <2>2. /\ a \in Seq(Byte) /\ Head(a) = header /\ Tail(a) = <<>> /\ a # <<>>
        /\ g \in Seq(Byte)
    BY <2>1, EncodeLengthIsBytes DEF TypeOK
  <2>3. Begins = (a \o g) \o buffer
    BY <1>10 DEF Begins
  <2>4. /\ buffer \o (chunk \o wire) \in Seq(Byte) /\ Y \in Seq(Byte)
        /\ (((a \o g) \o buffer) \o chunk) \o wire = a \o Y
    <3>1. /\ a \in Seq(Byte) /\ g \in Seq(Byte) /\ buffer \in Seq(Byte)
          /\ chunk \in Seq(Byte) /\ wire \in Seq(Byte)
      BY <1>2, <2>2
    <3> HIDE DEF a, g
    <3>2. FiveFromFirst(a, g, buffer, chunk, wire)
      BY <3>1, ConcatOfFive
    <3>3. buffer \o (chunk \o wire) \in Seq(Byte) /\ g \o (buffer \o (chunk \o wire)) \in Seq(Byte)
      BY <3>1, ConcatIsSeq
    <3> QED BY <3>2, <3>3 DEF FiveFromFirst
  <2>5. h \o X = a \o Y
    BY <1>4, <1>6, <2>3, <2>4, Zenon
  <2>6. Head(a \o Y) = header /\ Tail(a \o Y) = Y
    <3>1. Head(a \o Y) = Head(a) /\ Tail(a \o Y) = Tail(a) \o Y
      <4> HIDE DEF a, Y
      <4> QED BY <2>2, <2>4, ConcatFromFirst
    <3>2. <<>> \o Y = Y
      <4> HIDE DEF Y
      <4> QED BY <2>4, ConcatEmptySeq
    <3> QED BY <2>2, <3>1, <3>2, Zenon
  <2>7. header = f.header /\ X = Y
    BY <1>7, <2>5, <2>6, Zenon
  <2>8. RemainingLength[Y] = n
    BY <2>1, <2>4, LengthIsRead
  <2>9. Len(d) = n
    BY <1>8, <2>7, <2>8, Zenon
  <2>10. d \o others = buffer \o (chunk \o wire)
    <3>1. e = g
      BY <2>9, Zenon
    <3>2. e \o (d \o others) = e \o (buffer \o (chunk \o wire))
      BY <2>7, <3>1, Zenon
    <3> DEFINE x == d \o others
               y == buffer \o (chunk \o wire)
    <3>3. x \in Seq(Byte) /\ y \in Seq(Byte) /\ e \in Seq(Byte) /\ e \o x = e \o y
      BY <1>1, <1>5, <2>4, <3>2
    <3> HIDE DEF e, x, y
    <3>4. x = y
      BY <3>3, SameFront
    <3> QED BY <3>4 DEF x, y
  <2>11. Begun.header = header /\ Begun.left = leftSize /\ Begun.rest = chunk
    BY <1>10, BegunIs
  <2>12. Begun.header = f.header /\ Len(d) = Len(buffer) + Begun.left
    BY <2>7, <2>9, <2>11, Zenon
  <2>13. d \o others = buffer \o (Begun.rest \o wire)
    BY <2>10, <2>11, Zenon
  <2> QED BY <2>12, <2>13
<1> QED BY <1>9, <1>10

\* A frame more is a frame more that has not been received.
LEMMA SendKeepsStream ==
  ASSUME TypeOK, StreamInv, NEW f \in Frame, BrokerSends(f)
  PROVE  StreamInv'
<1>1. sent' = Append(sent, f) /\ up' = up /\ up = TRUE
  BY DEF BrokerSends, TypeOK
<1>2. /\ got' = got /\ header' = header /\ leftSize' = leftSize /\ buffer' = buffer
      /\ chunk' = chunk /\ intact' = intact /\ wire' = wire \o Write(f)
  BY DEF BrokerSends
<1>3. sent \in Seq(Frame) /\ Len(sent) \in Nat /\ Len(got) \in Nat
  BY LenProperties DEF StreamInv, TypeOK
<1>4. sent' \in Seq(Frame) /\ Len(sent') = Len(sent) + 1
  BY <1>1, <1>3, AppendProperties
<1>5. ASSUME intact, up
      PROVE  /\ Len(got) <= Len(sent') /\ got = SubSeq(sent', 1, Len(got))
             /\ SubSeq(sent', Len(got) + 1, Len(sent')) = Append(Unsent, f)
             /\ Stream[Append(Unsent, f)] = (Begins \o chunk) \o (wire \o Write(f))
  <2>1. /\ Len(got) <= Len(sent) /\ got = SubSeq(sent, 1, Len(got))
        /\ Stream[Unsent] = (Begins \o chunk) \o wire
    BY <1>5 DEF StreamInv
  <2>2. /\ Unsent \in Seq(Frame) /\ sent = got \o Unsent /\ got \in Seq(Frame)
    BY <1>3, <2>1, PartsOfSent
  <2>3. <<f>> \in Seq(Frame)
    BY SeqOfOne
  <2>4. sent' = sent \o <<f>> /\ Append(Unsent, f) = Unsent \o <<f>>
    BY <1>1, <1>3, <2>2, AppendIsConcat
  <2>5. (got \o Unsent) \o <<f>> = got \o (Unsent \o <<f>>) /\ Unsent \o <<f>> \in Seq(Frame)
    BY <2>2, <2>3, ConcatAssociative, ConcatIsSeq
  <2>6. sent' = got \o Append(Unsent, f) /\ Append(Unsent, f) \in Seq(Frame)
    BY <2>2, <2>4, <2>5
  <2>7. /\ SubSeq(sent', 1, Len(got)) = got
        /\ SubSeq(sent', Len(got) + 1, Len(sent')) = Append(Unsent, f)
    BY <2>2, <2>6, SplitOfConcat
  <2>8. Stream[Append(Unsent, f)] = ((Begins \o chunk) \o wire) \o Write(f)
    BY <2>1, <2>2, StreamOfOneMore
  <2>9. /\ Begins \o chunk \in Seq(Byte) /\ wire \in Seq(Byte) /\ Write(f) \in Seq(Byte)
    BY BeginsIsBytes, WriteIsBytes, ConcatIsSeq DEF TypeOK
  <2>10. ((Begins \o chunk) \o wire) \o Write(f) = (Begins \o chunk) \o (wire \o Write(f))
    <3> DEFINE x == Begins \o chunk
               y == Write(f)
    <3>1. x \in Seq(Byte) /\ y \in Seq(Byte) /\ wire \in Seq(Byte)
      BY <2>9
    <3> HIDE DEF x, y
    <3>2. (x \o wire) \o y = x \o (wire \o y)
      BY <3>1, ConcatAssociative
    <3> QED BY <3>2 DEF x, y
  <2>11. Len(got) <= Len(sent')
    BY <1>3, <1>4, <2>1
  <2> QED BY <2>7, <2>8, <2>10, <2>11
<1>6. Begins' = Begins
  BY <1>2 DEF Begins
<1>7. Unsent' = SubSeq(sent', Len(got) + 1, Len(sent'))
  BY <1>2 DEF Unsent
<1>8. intact' /\ up' =>
        /\ Len(got') <= Len(sent') /\ got' = SubSeq(sent', 1, Len(got'))
        /\ Stream[Unsent'] = (Begins' \o chunk') \o wire'
  <2> SUFFICES ASSUME intact', up'
               PROVE  /\ Len(got') <= Len(sent') /\ got' = SubSeq(sent', 1, Len(got'))
                      /\ Stream[Unsent'] = (Begins' \o chunk') \o wire'
    OBVIOUS
  <2>1. intact /\ up
    BY <1>1, <1>2
  <2> QED BY <1>2, <1>5, <1>6, <1>7, <2>1
<1>9. ~up' => wire' = <<>> /\ chunk' = <<>>
  BY <1>1
<1> QED BY <1>4, <1>8, <1>9 DEF StreamInv

\* Bytes that arrive are still in their order.
LEMMA ArrivalKeepsStream ==
  ASSUME TypeOK, StreamInv, NEW k \in 1..Len(wire), Arrives(k)
  PROVE  StreamInv'
<1>1. /\ chunk = <<>> /\ chunk' = SubSeq(wire, 1, k) /\ wire' = SubSeq(wire, k + 1, Len(wire))
      /\ UNCHANGED <<up, header, leftSize, buffer, got, sent, intact, count>>
  BY DEF Arrives
<1>2. wire \in Seq(Byte) /\ Len(wire) \in Nat
  BY LenProperties DEF TypeOK
<1>3. /\ chunk' \in Seq(Byte) /\ wire' \in Seq(Byte) /\ wire = chunk' \o wire'
  <2>1. k \in 0..Len(wire)
    BY <1>2
  <2> QED BY <1>1, <1>2, <2>1, SplitOfSeq
<1>4. Begins' = Begins /\ Unsent' = Unsent
  BY <1>1 DEF Begins, Unsent
<1>5. (Begins \o chunk) \o wire = (Begins' \o chunk') \o wire'
  <2>1. Begins \in Seq(Byte)
    BY BeginsIsBytes
  <2>2. Begins \o <<>> = Begins
    BY <2>1, ConcatEmptySeq
  <2>3. Begins \o (chunk' \o wire') = (Begins \o chunk') \o wire'
    BY <1>3, <2>1, ConcatAssociative, SMTT(60)
  <2> QED BY <1>1, <1>3, <1>4, <2>2, <2>3, Zenon
<1>6. up
  <2>1. wire # <<>>
    BY <1>2, EmptySeq
  <2> QED BY <2>1 DEF StreamInv
<1>7. sent' \in Seq(Frame) /\ (~up' => wire' = <<>> /\ chunk' = <<>>)
  BY <1>1, <1>6 DEF StreamInv
<1>8. intact' /\ up' =>
        /\ Len(got') <= Len(sent') /\ got' = SubSeq(sent', 1, Len(got'))
        /\ Stream[Unsent'] = (Begins' \o chunk') \o wire'
  <2>1. intact /\ up =>
          /\ Len(got) <= Len(sent) /\ got = SubSeq(sent, 1, Len(got))
          /\ Stream[Unsent] = (Begins \o chunk) \o wire
    BY DEF StreamInv
  <2> QED BY <1>1, <1>4, <1>5, <2>1
<1> QED BY <1>7, <1>8 DEF StreamInv

\* An iteration of the loop brings the next frame further or to its end.
LEMMA LoopKeepsStream ==
  ASSUME TypeOK, StreamInv, ReadReady
  PROVE  StreamInv'
<1>1. /\ chunk # <<>>
      /\ header' = Begun.header /\ leftSize' = Begun.left - Part /\ chunk' = NotRead
      /\ Part = Begun.left =>
           /\ got' = Append(got, [header |-> Begun.header, data |-> buffer \o Read])
           /\ buffer' = <<>>
      /\ Part # Begun.left => buffer' = buffer \o Read /\ got' = got
      /\ intact' = (intact /\ ~Split)
      /\ UNCHANGED <<up, wire, sent, count>>
  BY ReadReadyIs
<1>2. /\ Part \in Nat /\ Part <= Begun.left /\ Len(Begun.rest) \in Nat
      /\ Part = Begun.left \/ Part = Len(Begun.rest)
      /\ Read \in Seq(Byte) /\ Len(Read) = Part
      /\ NotRead \in Seq(Byte) /\ Len(NotRead) = Len(Begun.rest) - Part
      /\ Begun.rest = Read \o NotRead
  BY <1>1, PartIs
<1>3. Begun.left \in Nat
  BY <1>1, BegunIs
<1>4. /\ chunk \in Seq(Byte) /\ Len(chunk) > 0 /\ wire \in Seq(Byte) /\ buffer \in Seq(Byte)
      /\ Len(buffer) \in Nat /\ got \in Seq(Frame) /\ Len(got) \in Nat /\ Len(chunk) \in Nat
  BY <1>1, EmptySeq, LenProperties DEF TypeOK
<1>5. up
  BY <1>1 DEF StreamInv
<1>6. sent' \in Seq(Frame) /\ (~up' => wire' = <<>> /\ chunk' = <<>>) /\ sent' = sent
  BY <1>1, <1>5 DEF StreamInv
<1> SUFFICES ASSUME intact, ~Split
             PROVE  /\ Len(got') <= Len(sent) /\ got' = SubSeq(sent, 1, Len(got'))
                    /\ Stream[Unsent'] = (Begins' \o chunk') \o wire
  BY <1>1, <1>6 DEF StreamInv
<1>7. /\ Len(got) <= Len(sent) /\ got = SubSeq(sent, 1, Len(got))
      /\ Stream[Unsent] = (Begins \o chunk) \o wire
  BY <1>5 DEF StreamInv
<1>8. sent \in Seq(Frame) /\ Len(sent) \in Nat
  BY LenProperties DEF StreamInv
<1>9. /\ Unsent \in Seq(Frame) /\ Len(Unsent) = Len(sent) - Len(got) /\ sent = got \o Unsent
  BY <1>4, <1>7, <1>8, PartsOfSent
<1>10. Unsent # <<>>
  <2>1. Begins \in Seq(Byte)
    BY BeginsIsBytes
  <2>2. /\ Begins \o chunk \in Seq(Byte) /\ Len(Begins \o chunk) = Len(Begins) + Len(chunk)
        /\ Len(Begins) \in Nat
    BY <1>4, <2>1, ConcatIsSeq
  <2> DEFINE x == Begins \o chunk
  <2> HIDE DEF x
  <2>3. x \in Seq(Byte) /\ Len(x) > 0 /\ Len(x) \in Nat
    BY <1>4, <2>2 DEF x
  <2>4. Len(x \o wire) = Len(x) + Len(wire) /\ Len(wire) \in Nat
    BY <1>4, <2>3, ConcatIsSeq
  <2>5. Len(Stream[Unsent]) = Len(x \o wire)
    BY <1>7, Zenon DEF x
  <2>6. Len(Stream[Unsent]) > 0
    BY <2>3, <2>4, <2>5
  <2> SUFFICES ASSUME Unsent = <<>> PROVE FALSE
    OBVIOUS
  <2>7. Stream[Unsent] = <<>>
    BY <1>9, StreamAt
  <2>8. Len(Stream[Unsent]) = 0
    BY <2>7
  <2> QED BY <2>6, <2>8
<1> DEFINE f == Head(Unsent)
           later == Tail(Unsent)
           others == Stream[later]
<1>11. f \in Frame /\ later \in Seq(Frame) /\ others \in Seq(Byte)
  BY <1>9, <1>10, FirstOfSeq, StreamIsBytes
<1>12. Stream[Unsent] = Write(f) \o others
  BY <1>9, <1>10, StreamAt
<1> DEFINE data == buffer \o Read
<1>13. data \in Seq(Byte) /\ Len(data) = Len(buffer) + Part
  BY <1>2, <1>4, ConcatIsSeq
<1>14. /\ Begun.header = f.header /\ Len(f.data) = Len(buffer) + Begun.left
       /\ f.data \o others = buffer \o (Begun.rest \o wire)
  <2> HIDE DEF f, others
  <2> QED BY <1>1, <1>5, <1>11, <1>12, BegunIsOfFrame
<1>15. f.data \o others = data \o (NotRead \o wire)
  <2>1. Read \in Seq(Byte) /\ NotRead \in Seq(Byte) /\ buffer \in Seq(Byte) /\ wire \in Seq(Byte)
    BY <1>2, <1>4
  <2>2. FourFromFirst(buffer, Read, NotRead, wire)
    BY <2>1, ConcatOfFour
  <2>3. f.data \o others = buffer \o ((Read \o NotRead) \o wire)
    BY <1>2, <1>14, Zenon
  <2> QED BY <2>2, <2>3, Zenon DEF FourFromFirst
<1>16. /\ f.header \in Byte /\ f.data \in Seq(Byte) /\ f = [header |-> f.header, data |-> f.data]
  <2> HIDE DEF f
  <2> QED BY <1>11 DEF Frame
<1>17. NotRead \o wire \in Seq(Byte)
  BY <1>2, <1>4, ConcatIsSeq
<1>18. CASE Part = Begun.left
  <2>1. f.data = data /\ others = NotRead \o wire
    <3> DEFINE d == f.data
               y == NotRead \o wire
    <3>1. /\ d \in Seq(Byte) /\ y \in Seq(Byte) /\ data \in Seq(Byte) /\ others \in Seq(Byte)
          /\ d \o others = data \o y /\ Len(d) = Len(data)
      BY <1>11, <1>13, <1>14, <1>15, <1>16, <1>17, <1>18
    <3> HIDE DEF d, y, data, others
    <3>2. d = data /\ others = y
      BY <3>1, SamePlace
    <3> QED BY <3>2 DEF d, y
  <2>2. got' = Append(got, f) /\ leftSize' = 0 /\ chunk' = NotRead
    <3>1. got' = Append(got, [header |-> Begun.header, data |-> data])
      BY <1>1, <1>18
    <3>2. [header |-> Begun.header, data |-> data] = f
      BY <1>14, <1>16, <2>1, Zenon
    <3>3. leftSize' = 0
      BY <1>1, <1>3, <1>18
    <3> QED BY <1>1, <3>1, <3>2, <3>3, Zenon
  <2>3. Begins' = <<>>
    BY <2>2 DEF Begins
  <2>4. sent = got' \o later /\ got' \in Seq(Frame) /\ Len(got') = Len(got) + 1
    <3>1. Unsent = <<f>> \o later
      BY <1>9, <1>10, FirstAndOthers
    <3> HIDE DEF f, later
    <3>2. got' = got \o <<f>> /\ got' \in Seq(Frame) /\ Len(got') = Len(got) + 1
      BY <1>4, <1>11, <2>2, AppendIsConcat, AppendProperties
    <3>3. <<f>> \in Seq(Frame)
      BY <1>11, SeqOfOne
    <3> DEFINE a == <<f>>
    <3>4. got \o (a \o later) = (got \o a) \o later
      <4>1. got \in Seq(Frame) /\ a \in Seq(Frame) /\ later \in Seq(Frame)
        BY <1>4, <1>11, <3>3
      <4> HIDE DEF a
      <4> QED BY <4>1, ConcatAssociative
    <3> QED BY <1>9, <3>1, <3>2, <3>4
  <2>5. /\ SubSeq(sent, 1, Len(got')) = got'
        /\ SubSeq(sent, Len(got') + 1, Len(sent)) = later
    <3> HIDE DEF later
    <3> QED BY <1>11, <2>4, SplitOfConcat
  <2>6. Unsent' = later
    BY <1>1, <2>5 DEF Unsent
  <2>7. Len(got') <= Len(sent)
    BY <1>4, <1>8, <1>9, <1>10, <2>4, EmptySeq
  <2>8. <<>> \o NotRead = NotRead
    BY <1>2, ConcatEmptySeq
  <2>9. Stream[Unsent'] = (Begins' \o chunk') \o wire
    BY <2>1, <2>2, <2>3, <2>6, <2>8, Zenon
  <2> QED BY <2>5, <2>7, <2>9
<1>19. CASE Part # Begun.left
  <2>1. NotRead = <<>> /\ Len(NotRead) = 0
    <3>1. Len(NotRead) = 0
      BY <1>2, <1>19
    <3> QED BY <1>2, <3>1, EmptySeq
  <2>2. /\ leftSize' = Begun.left - Part /\ leftSize' # 0 /\ header' = f.header
        /\ buffer' = data /\ got' = got /\ chunk' = <<>>
    <3>1. leftSize' # 0
      BY <1>1, <1>2, <1>3, <1>19
    <3>2. header' = f.header
      BY <1>1, <1>14, Zenon
    <3> QED BY <1>1, <1>19, <2>1, <3>1, <3>2
  <2>3. Len(buffer') + leftSize' = Len(f.data)
    BY <1>2, <1>3, <1>4, <1>13, <1>14, <2>2, SMTT(60)
  <2> DEFINE h == <<f.header>>
             e == EncodeLength[Len(f.data)]
             d == f.data
  <2>4. Begins' = (h \o e) \o data
    <3>1. Begins' = (<<header'>> \o EncodeLength[Len(buffer') + leftSize']) \o buffer'
      BY <2>2 DEF Begins
    <3> QED BY <2>2, <2>3, <3>1, Zenon
  <2>5. h \in Seq(Byte) /\ e \in Seq(Byte) /\ d \in Seq(Byte)
    <3> HIDE DEF f
    <3> QED BY <1>11, WriteIsBytes
  <2>6. Stream[Unsent] = ((h \o e) \o d) \o others
    BY <1>12, Zenon DEF Write
  <2>7. ((h \o e) \o d) \o others = (h \o e) \o (d \o others)
    <3> HIDE DEF h, e, d, others
    <3>1. h \o e \in Seq(Byte)
      BY <2>5, ConcatIsSeq
    <3> QED BY <1>11, <2>5, <3>1, ConcatAssociative, SMTT(60)
  <2>8. (h \o e) \o (data \o (NotRead \o wire)) = (((h \o e) \o data) \o <<>>) \o wire
    <3>1. <<>> \o wire = wire
      BY <1>4, ConcatEmptySeq
    <3> HIDE DEF h, e, data
    <3>2. h \o e \in Seq(Byte) /\ data \in Seq(Byte) /\ wire \in Seq(Byte)
      BY <1>4, <1>13, <2>5, ConcatIsSeq
    <3>3. (h \o e) \o (data \o wire) = ((h \o e) \o data) \o wire
      BY <3>2, ConcatAssociative, SMTT(60)
    <3>4. (h \o e) \o data \in Seq(Byte)
      BY <3>2, ConcatIsSeq
    <3>5. ((h \o e) \o data) \o <<>> = (h \o e) \o data
      BY <3>4, ConcatEmptySeq
    <3> QED BY <2>1, <3>1, <3>3, <3>5, Zenon
  <2>9. d \o others = data \o (NotRead \o wire)
    BY <1>15
  <2>10. Stream[Unsent] = (Begins' \o chunk') \o wire
    <3> HIDE DEF h, e, d, data, others
    <3> QED BY <2>2, <2>4, <2>6, <2>7, <2>8, <2>9, Zenon
  <2>11. Unsent' = Unsent
    BY <1>1, <2>2 DEF Unsent
  <2> QED BY <1>7, <2>2, <2>10, <2>11
<1> QED BY <1>18, <1>19

LEMMA ConnectKeepsStream ==
  ASSUME TypeOK, StreamInv, Connect
  PROVE  StreamInv'
<1>1. /\ ~up /\ got' = <<>> /\ sent' = <<>> /\ intact' = (leftSize = 0)
      /\ UNCHANGED <<wire, chunk, header, leftSize, buffer, count>> /\ up' = TRUE
  BY DEF Connect
<1>2. wire' = <<>> /\ chunk' = <<>>
  BY <1>1 DEF StreamInv
<1>3. sent' \in Seq(Frame) /\ Len(sent') = 0 /\ Len(got') = 0
  BY <1>1, EmptySeq
<1>4. SubSeq(sent', 1, Len(got')) = <<>> /\ Unsent' = <<>>
  <2>1. SubSeq(sent', 1, 0) = <<>> /\ SubSeq(sent', 0 + 1, 0) = <<>>
    BY SubSeqEmpty
  <2> QED BY <1>3, <2>1 DEF Unsent
<1>5. Stream[Unsent'] = <<>>
  BY <1>4, StreamAt, EmptySeq
<1>6. intact' => Begins' = <<>>
  BY <1>1 DEF Begins
<1>7. (<<>> \o <<>>) \o <<>> = <<>>
  BY ConcatEmptySeq, EmptySeq
<1>8. intact' => Stream[Unsent'] = (Begins' \o chunk') \o wire'
  BY <1>2, <1>5, <1>6, <1>7, Zenon
<1>9. Len(got') <= Len(sent') /\ got' = SubSeq(sent', 1, Len(got'))
  BY <1>1, <1>3, <1>4
<1> QED BY <1>2, <1>3, <1>8, <1>9 DEF StreamInv

LEMMA StreamKept ==
  ASSUME TypeOK, StreamInv, [Next]_vars
  PROVE  StreamInv'
<1>1. CASE Connect
  BY <1>1, ConnectKeepsStream
<1>2. CASE Drop
  BY <1>2 DEF Drop, StreamInv
<1>3. ASSUME NEW f \in Frame, BrokerSends(f) PROVE StreamInv'
  BY <1>3, SendKeepsStream
<1>4. ASSUME NEW k \in 1..Len(wire), Arrives(k) PROVE StreamInv'
  BY <1>4, ArrivalKeepsStream
<1>5. CASE ReadReady
  BY <1>5, LoopKeepsStream
<1>6. CASE UNCHANGED vars
  BY <1>6 DEF vars, StreamInv, Unsent, Begins
<1>7. \A m \in Messages : PublishFrame(m) \in Frame
  BY PublishFrameIsFrame
<1> QED BY <1>1, <1>2, <1>3, <1>4, <1>5, <1>6, <1>7, AnswersAreFrames DEF Next

LEMMA StreamBegins == Init => StreamInv
<1> SUFFICES ASSUME Init PROVE StreamInv
  OBVIOUS
<1>1. sent = <<>> /\ wire = <<>> /\ chunk = <<>> /\ up = FALSE
  BY DEF Init
<1>2. sent \in Seq(Frame)
  BY <1>1, EmptySeq
<1> QED BY <1>1, <1>2 DEF StreamInv

LEMMA StreamHolds == Spec => [](TypeOK /\ StreamInv)
<1>1. TypeOK /\ StreamInv /\ [Next]_vars => StreamInv'
  BY StreamKept
<1> QED BY <1>1, StreamBegins, TypeCorrect, PTL DEF Spec

\* As long as no chunk ends within a header or a length, the frames received
\* are the ones sent, whatever the size of a byte, a frame and a chunk
\* (qmqtt_network.cpp:141-181, qmqtt_frame.cpp:114-139).
THEOREM FramesAreSent == Spec => []FramesAsSent
<1>1. TypeOK /\ StreamInv => FramesAsSent
  <2> SUFFICES ASSUME TypeOK, StreamInv, intact, up
               PROVE  /\ got = SubSeq(sent, 1, Len(got))
                      /\ Stream[Unsent] = (Begins \o chunk) \o wire
    BY DEF FramesAsSent, Unsent, Begins
  <2> QED BY DEF StreamInv
<1> QED BY <1>1, StreamHolds, PTL

---------------------------------------------------------------------------
(* The numbers in a publication.                                           *)

LEMMA MaxOfTwo ==
  ASSUME NEW a \in Nat
  PROVE  Max({a, 0}) = a
<1>1. \E n \in {a, 0} : \A m \in {a, 0} : n >= m
  OBVIOUS
<1>2. Max({a, 0}) \in {a, 0} /\ \A m \in {a, 0} : Max({a, 0}) >= m
  BY <1>1 DEF Max
<1> QED BY <1>2

\* A number of two bytes, and how much of it is read back.
LEMMA Int2Is ==
  ASSUME NEW i \in 0..(4 * Base * Base - 1)
  PROVE  \E hi, lo \in Byte :
           /\ Int2(i) = <<hi, lo>> /\ i = 2 * Base * hi + lo /\ lo = i % (2 * Base)
           /\ i < Base => hi = 0
<1> DEFINE b == 2 * Base
<1>1. b \in Nat /\ b > 1 /\ Base \in Nat /\ 4 * Base * Base = b * b /\ i \in Nat
  BY BytesAreNumbers
<1> DEFINE q == i \div b
           r == i % b
<1>2. q \in Nat /\ r \in 0..(b - 1) /\ i = b * q + r
  BY <1>1, Division
<1>3. i < b * b
  BY <1>1
<1> HIDE DEF b, q, r
<1>4. q < b
  <2> SUFFICES ASSUME q >= b PROVE FALSE
    BY <1>1, <1>2
  <2>1. b * q >= b * b
    BY <1>1, <1>2
  <2> QED BY <1>1, <1>2, <1>3, <2>1
<1>5. q % b = q
  BY <1>1, <1>2, <1>4
<1>6. Int2(i) = <<q, r>>
  BY <1>5 DEF Int2, b, q, r
<1>7. q \in Byte /\ r \in Byte
  BY <1>1, <1>2, <1>4 DEF Byte, b
<1>8. i < Base => q = 0
  <2> SUFFICES ASSUME i < Base, q >= 1 PROVE FALSE
    BY <1>1, <1>2
  <2>1. b * q >= b
    BY <1>1, <1>2
  <2>2. b > Base
    BY <1>1, BytesAreNumbers DEF b
  <2> QED BY <1>1, <1>2, <2>1, <2>2
<1> QED BY <1>2, <1>6, <1>7, <1>8 DEF b, r

LEMMA RemainderOf ==
  ASSUME NEW b \in Nat, NEW n \in 0..(b - 1)
  PROVE  n % b = n /\ (n - b) % b = n
<1>1. n % b = n
  OBVIOUS
<1>2. (n - b) % b = n
  <2> DEFINE r == (n - b) % b
             q == (n - b) \div b
  <2>1. r \in 0..(b - 1) /\ q \in Int /\ n - b = b * q + r
    OBVIOUS
  <2> HIDE DEF r, q
  <2>2. q >= 0 => b * q >= 0
    BY <2>1
  <2>3. q <= -2 => b * q <= -(2 * b)
    BY <2>1
  <2>4. q = -1
    BY <2>1, <2>2, <2>3
  <2>5. b * q = -b
    BY <2>4
  <2>6. r = n
    BY <2>1, <2>5
  <2> QED BY <2>6 DEF r
<1> QED BY <1>1, <1>2

\* What is read of two bytes as an id, against what was written.
LEMMA IdIsReadBack ==
  ASSUME NEW id \in Ids, NEW hi \in Byte, NEW lo \in Byte, id = 2 * Base * hi + lo
  PROVE  (2 * Base * Signed(hi) + Signed(lo)) % (4 * Base * Base) = id <=> lo < Base
<1> DEFINE b == 2 * Base
           bb == b * b
           v == b * Signed(hi) + Signed(lo)
<1>1. b \in Nat /\ b > 1 /\ Base \in Nat /\ 4 * Base * Base = bb
  BY BytesAreNumbers
<1>2. hi \in 0..(b - 1) /\ lo \in 0..(b - 1) /\ id \in 1..(bb - 1) /\ id = b * hi + lo
  BY <1>1 DEF Byte, Ids
<1>3. Signed(hi) = (IF hi < Base THEN hi ELSE hi - b) /\ Signed(lo) = (IF lo < Base THEN lo ELSE lo - b)
  BY DEF Signed
<1>4. b * (hi - b) = b * hi - bb
  BY <1>1, <1>2
<1>5. bb \in Nat /\ bb > b
  BY <1>1
<1>6. CASE lo < Base
  <2>1. v = id \/ v = id - bb
    <3> HIDE DEF b, bb
    <3> QED BY <1>1, <1>2, <1>3, <1>4, <1>6
  <2>2. v % bb = id
    <3> HIDE DEF v, bb
    <3> QED BY <2>1, <1>2, <1>5, RemainderOf
  <2> QED BY <1>1, <1>6, <2>2
<1>7. CASE ~(lo < Base)
  <2>1. CASE hi = 0
    <3>1. v = (id - b + bb) - bb
      BY <1>1, <1>2, <1>3, <1>7, <2>1, BytesAreNumbers
    <3>2. id - b + bb \in 0..(bb - 1)
      <4>1. b * hi = 0
        BY <1>1, <2>1
      <4> HIDE DEF b, bb
      <4> QED BY <1>1, <1>2, <1>5, <4>1
    <3>3. v % bb = id - b + bb
      <4> HIDE DEF v, bb
      <4> QED BY <3>1, <3>2, <1>5, RemainderOf
    <3>4. v % bb # id
      <4> HIDE DEF v, b, bb
      <4> QED BY <3>3, <1>1, <1>2, <1>5
    <3> QED BY <1>1, <1>7, <3>4
  <2>2. CASE hi # 0
    <3>1. v = id - b \/ v = (id - b) - bb
      <4> HIDE DEF b, bb
      <4> QED BY <1>1, <1>2, <1>3, <1>4, <1>7
    <3>2. id - b \in 0..(bb - 1)
      <4>1. b * hi >= b
        BY <1>1, <1>2, <2>2
      <4> HIDE DEF b, bb
      <4> QED BY <1>1, <1>2, <1>5, <4>1
    <3>3. v % bb = id - b
      <4> HIDE DEF v, bb
      <4> QED BY <3>1, <3>2, <1>5, RemainderOf
    <3>4. v % bb # id
      <4> HIDE DEF v, b, bb
      <4> QED BY <3>3, <1>1, <1>2, <1>5
    <3> QED BY <1>1, <1>7, <3>4
  <2> QED BY <2>1, <2>2
<1> QED BY <1>6, <1>7

LEMMA ReadsOfConcat ==
  ASSUME NEW s \in Seq(Byte), NEW t \in Seq(Byte), Len(s) = 2
  PROVE  /\ ReadInt(s \o t) = ReadInt(s)
         /\ SubSeq(s \o t, 3, Len(s \o t)) = t
<1>1. (s \o t)[1] = s[1] /\ (s \o t)[2] = s[2]
  <2>1. Len(t) \in Nat
    BY LenProperties
  <2>2. 1 \in 1..(Len(s) + Len(t)) /\ 2 \in 1..(Len(s) + Len(t)) /\ 1 <= Len(s) /\ 2 <= Len(s)
    BY <2>1
  <2> QED BY <2>2, ConcatProperties
<1>2. SubSeq(s \o t, Len(s) + 1, Len(s \o t)) = t
  BY SplitOfConcat
<1>3. Len(s) + 1 = 3
  OBVIOUS
<1> QED BY <1>1, <1>2, <1>3 DEF ReadInt

\* A publication with a short topic, read back.
LEMMA PublicationIsReadBack ==
  ASSUME NEW m \in Messages, Len(m.topic) < Base,
         NEW f, f = PublishFrame(m)
  PROVE  /\ Received(f).topic = m.topic /\ Received(f).payload = m.payload
         /\ (Received(f).id = m.id) <=> (m.id % (2 * Base) < Base)
<1>1. m.topic \in Seq(Byte) /\ m.id \in Ids /\ m.payload \in Seq(Byte)
  BY FrameAssumption
<1>2. Base \in Nat /\ Base > 1 /\ 0 \in Byte
  BY BytesAreNumbers DEF Byte
<1> DEFINE topic == m.topic
           n == Len(topic)
           a == Int2(n)
           c == Int2(m.id)
           p == m.payload
           d == ((a \o topic) \o c) \o p
<1>3. n \in Nat /\ n < Base /\ m.id \in 0..(4 * Base * Base - 1)
  BY <1>1, LenProperties DEF Ids
<1>4. n \in 0..(4 * Base * Base - 1)
  <2>1. 4 * Base * Base > Base
    BY <1>2
  <2> QED BY <1>2, <1>3, <2>1
<1>5. a \in Seq(Byte) /\ Len(a) = 2 /\ c \in Seq(Byte) /\ Len(c) = 2
  BY <1>3, Int2IsBytes
<1>6. ReadInt(a) = n
  <2>1. PICK hi \in Byte, lo \in Byte : /\ Int2(n) = <<hi, lo>> /\ n = 2 * Base * hi + lo
                                        /\ n < Base => hi = 0
    BY <1>4, Int2Is
  <2>2. hi = 0 /\ lo = n
    BY <2>1, <1>2, <1>3, BytesAreNumbers
  <2>3. ReadInt(a) = 2 * Base * Signed(hi) + Signed(lo)
    BY <2>1 DEF ReadInt
  <2>4. Signed(hi) = 0 /\ Signed(lo) = n
    BY <2>2, <1>2, <1>3 DEF Signed
  <2>5. 2 * Base * Signed(hi) + Signed(lo) = n
    <3> DEFINE x == Signed(hi)
               y == Signed(lo)
    <3>1. x = 0 /\ y = n /\ n \in Nat
      BY <2>4, <1>3
    <3> HIDE DEF x, y, n
    <3>2. 2 * Base * x = 0
      BY <3>1, <1>2
    <3>3. 2 * Base * x + y = n
      BY <3>1, <3>2
    <3> QED BY <3>3 DEF x, y
  <2> QED BY <2>3, <2>5
<1>7. ReadInt(c) % (4 * Base * Base) = m.id <=> m.id % (2 * Base) < Base
  <2>1. PICK hi \in Byte, lo \in Byte : /\ Int2(m.id) = <<hi, lo>> /\ m.id = 2 * Base * hi + lo
                                        /\ lo = m.id % (2 * Base)
    BY <1>3, Int2Is
  <2>2. ReadInt(c) = 2 * Base * Signed(hi) + Signed(lo)
    BY <2>1 DEF ReadInt
  <2>3. (2 * Base * Signed(hi) + Signed(lo)) % (4 * Base * Base) = m.id <=> lo < Base
    BY <1>1, <2>1, IdIsReadBack
  <2> QED BY <2>1, <2>2, <2>3, Zenon
<1>8. f.data = d
  BY DEF PublishFrame
<1> HIDE DEF topic, n, a, c, p, d
<1>9. topic \in Seq(Byte) /\ p \in Seq(Byte) /\ Len(topic) = n
  BY <1>1 DEF topic, p, n
<1>10. a \o topic \in Seq(Byte) /\ Len(a \o topic) = n + 2
  <2>1. Len(a \o topic) = Len(a) + Len(topic) /\ a \o topic \in Seq(Byte)
    BY <1>5, <1>9, ConcatIsSeq
  <2> QED BY <2>1, <1>3, <1>5, <1>9
<1>11. c \o p \in Seq(Byte)
  BY <1>5, <1>9, ConcatIsSeq
<1>12. d = a \o (topic \o (c \o p)) /\ d = (a \o topic) \o (c \o p)
  <2>1. FourFromFirst(a, topic, c, p)
    BY <1>5, <1>9, ConcatOfFour
  <2>2. d = (a \o topic) \o (c \o p)
    <3> DEFINE s == a \o topic
    <3>1. s \in Seq(Byte) /\ c \in Seq(Byte) /\ p \in Seq(Byte)
      BY <1>5, <1>9, <1>10
    <3>2. (s \o c) \o p = s \o (c \o p)
      <4> HIDE DEF s
      <4> QED BY <3>1, ConcatAssociative, SMTT(60)
    <3> QED BY <3>2 DEF d
  <2> QED BY <2>1, <2>2 DEF FourFromFirst, d
<1>13. topic \o (c \o p) \in Seq(Byte)
  BY <1>9, <1>11, ConcatIsSeq
<1>14. ReadInt(d) = n /\ SubSeq(d, 3, Len(d)) = topic \o (c \o p)
  BY <1>5, <1>6, <1>12, <1>13, ReadsOfConcat
<1>15. d \in Seq(Byte) /\ Len(d) \in Nat /\ Len(d) >= n + 2
  <2>1. /\ (a \o topic) \o (c \o p) \in Seq(Byte)
        /\ Len((a \o topic) \o (c \o p)) = Len(a \o topic) + Len(c \o p)
        /\ Len(c \o p) \in Nat
    BY <1>10, <1>11, ConcatIsSeq
  <2> QED BY <2>1, <1>3, <1>10, <1>12
<1>16. StringLength(d) = n
  <2>1. Max({n, 0}) = n
    BY <1>3, MaxOfTwo
  <2>2. Len(d) - 2 \in Nat /\ Len(d) - 2 >= n
    BY <1>3, <1>15
  <2>3. Min({n, Len(d) - 2}) = n
    <3>1. /\ Min({n, Len(d) - 2}) <= n
          /\ Min({n, Len(d) - 2}) = n \/ Min({n, Len(d) - 2}) = Len(d) - 2
      BY <2>2, <1>3, MinOfTwo
    <3> QED BY <3>1, <2>2, <1>3
  <2> QED BY <2>1, <2>3, <1>14 DEF StringLength
<1>17. SubSeq(d, 3, n + 2) = topic
  <2>1. SubSeq(d, 1, n + 2) = a \o topic
    BY <1>10, <1>11, <1>12, SplitOfConcat, ZenonT(60)
  <2> DEFINE s == a \o topic
             t == c \o p
  <2>2. SubSeq(s, 3, Len(s)) = topic
    BY <1>5, <1>9, ReadsOfConcat
  <2>3. SubSeq(s \o t, 3, n + 2) = SubSeq(s, 3, n + 2)
    <3>1. Len(s) = n + 2 /\ s \in Seq(Byte) /\ t \in Seq(Byte)
      BY <1>10, <1>11
    <3> HIDE DEF s, t
    <3>2. CASE n = 0
      <4>1. 3 \in Int /\ n + 2 \in Int /\ n + 2 < 3
        BY <3>2
      <4> QED BY <4>1, SubSeqEmpty
    <3>3. CASE n # 0
      <4>1. 3 \in 1..Len(s) /\ n + 2 \in 1..Len(s)
        BY <3>1, <3>3, <1>3
      <4> QED BY <4>1, <3>1, SubSeqOfConcat1
    <3> QED BY <3>2, <3>3
  <2> QED BY <2>2, <2>3, <1>10, <1>12
<1>18. SubSeq(d, n + 3, Len(d)) = c \o p
  <2>1. SubSeq((a \o topic) \o (c \o p), n + 2 + 1, Len((a \o topic) \o (c \o p))) = c \o p
    BY <1>10, <1>11, SplitOfConcat
  <2>2. n + 2 + 1 = n + 3
    BY <1>3
  <2> QED BY <2>1, <2>2, <1>12
<1>19. ReadInt(c \o p) = ReadInt(c) /\ SubSeq(c \o p, 3, Len(c \o p)) = p
  BY <1>5, <1>9, ReadsOfConcat
<1>20. Received(f) = [topic |-> topic, id |-> ReadInt(c) % (4 * Base * Base), payload |-> p]
  BY <1>8, <1>16, <1>17, <1>18, <1>19 DEF Received
<1> QED BY <1>7, <1>20 DEF topic, p

\* Whatever a byte's size, a received publication with a short topic has its
\* topic, its payload and, but for a low byte with its high bit set, its id
\* (qmqtt_frame.cpp:76-90).
THEOREM AcksAreNamed == Spec => []AcksNameTheirMessage
<1>1. AcksNameTheirMessage
  BY PublicationIsReadBack DEF AcksNameTheirMessage
<1> QED BY <1>1, PTL
=============================================================================
