-------------------------- MODULE LineReaderProofs --------------------------
(***************************************************************************)
(* Theorems about LineReader, and about the packets it is given.           *)
(***************************************************************************)
EXTENDS LineReader, DataInduction

---------------------------------------------------------------------------
(* Digits.                                                                 *)

\* What a line of text is made of.
Text == Byte \ {CR, LF}

LEMMA TextIsBytes == Text \subseteq Byte /\ Seq(Text) \subseteq Seq(Byte) /\ Byte \subseteq Nat
<1>1. Text \subseteq Byte /\ Byte \subseteq Nat
  BY DEF Text, Byte
<1>2. ASSUME NEW s \in Seq(Text) PROVE s \in Seq(Byte)
  <2>1. Len(s) \in Nat /\ s \in [1..Len(s) -> Text]
    BY LenProperties
  <2>2. s \in [1..Len(s) -> Byte]
    BY <1>1, <2>1
  <2> QED BY <2>1, <2>2, SeqDef
<1> QED BY <1>1, <1>2

LEMMA HexIsText ==
  ASSUME NEW d \in 0..15
  PROVE  Hex(d) \in Text
BY DEF Hex, Text, Byte, CR, LF

LEMMA DigitsOfNat ==
  ASSUME NEW n \in Nat
  PROVE  /\ n % 16 \in 0..15 /\ n \div 16 \in Nat
         /\ n < 16 => n \in 0..15 /\ n % 16 = n
         /\ n >= 16 => n \div 16 < n /\ n \div 16 > 0
         /\ n % 256 \in 0..255
         /\ (n % 256) \div 16 = (n \div 16) % 16 /\ (n % 256) % 16 = n % 16
OBVIOUS

LEMMA HexDigitsDef ==
  HexDigits = [n \in Nat |->
    IF n < 16 THEN <<Hex(n)>> ELSE Append(HexDigits[n \div 16], Hex(n % 16))]
<1> DEFINE B == Seq(Text)
           Stop == {n \in Nat : n < 16}
           measure == [n \in Nat |-> n]
           next == [n \in Nat |-> n \div 16]
           base == [n \in Nat |-> IF n < 16 THEN <<Hex(n)>> ELSE <<>>]
           step == [n \in Nat |-> [t \in B |-> Append(t, Hex(n % 16))]]
<1>1. measure \in [Nat -> Nat] /\ next \in [Nat -> Nat]
  BY DigitsOfNat
<1>2. base \in [Nat -> B]
  <2>1. ASSUME NEW n \in Nat, n < 16 PROVE <<Hex(n)>> \in B
    <3>1. Hex(n) \in Text
      BY <2>1, DigitsOfNat, HexIsText
    <3> QED BY <3>1
  <2>2. <<>> \in B
    OBVIOUS
  <2> HIDE DEF B
  <2> QED BY <2>1, <2>2
<1>3. step \in [Nat -> [B -> B]]
  <2>1. ASSUME NEW n \in Nat, NEW t \in B PROVE Append(t, Hex(n % 16)) \in B
    <3>1. Hex(n % 16) \in Text
      BY DigitsOfNat, HexIsText
    <3> QED BY <3>1
  <2> HIDE DEF B
  <2> QED BY <2>1
<1>4. \A n \in Nat : n \notin Stop => measure[next[n]] < measure[n]
  <2>1. ASSUME NEW n \in Nat, n \notin Stop
        PROVE  n \div 16 < n /\ n \div 16 \in Nat
    BY <2>1, DigitsOfNat
  <2> QED BY <2>1
<1>5. Descends(Nat, B, Stop, measure, next, base, step)
  BY <1>1, <1>2, <1>3, <1>4 DEF Descends
<1>6. HasSolution(Nat, B, Stop, next, base, step)
  <2> HIDE DEF B, Stop, measure, next, base, step
  <2> QED BY <1>5, RecursionHasSolution
<1>7. PICK f \in [Nat -> B] :
        \A n \in Nat : /\ n \in Stop => f[n] = base[n]
                       /\ n \notin Stop => f[n] = step[n][f[next[n]]]
  BY <1>6 DEF HasSolution
<1>8. ASSUME NEW n \in Nat
      PROVE  f[n] = IF n < 16 THEN <<Hex(n)>> ELSE Append(f[n \div 16], Hex(n % 16))
  <2>1. CASE n < 16
    BY <1>7, <2>1
  <2>2. CASE ~(n < 16)
    <3>1. n \notin Stop /\ next[n] = n \div 16 /\ n \div 16 \in Nat
      BY <2>2, DigitsOfNat
    <3>2. f[n \div 16] \in B
      BY <3>1, <1>7
    <3>3. f[n] = step[n][f[n \div 16]]
      BY <1>7, <3>1
    <3>4. step[n][f[n \div 16]] = Append(f[n \div 16], Hex(n % 16))
      <4> HIDE DEF B
      <4> QED BY <3>2
    <3> QED BY <2>2, <3>3, <3>4
  <2> QED BY <2>1, <2>2
<1>9. f = [n \in Nat |-> IF n < 16 THEN <<Hex(n)>> ELSE Append(f[n \div 16], Hex(n % 16))]
  BY <1>7, <1>8
<1> QED BY <1>9 DEF HexDigits

LEMMA HexDigitsAt ==
  ASSUME NEW n \in Nat
  PROVE  /\ n < 16 => HexDigits[n] = <<Hex(n)>>
         /\ n >= 16 => HexDigits[n] = Append(HexDigits[n \div 16], Hex(n % 16))
<1>1. HexDigits[n] = IF n < 16 THEN <<Hex(n)>> ELSE Append(HexDigits[n \div 16], Hex(n % 16))
  BY HexDigitsDef, Zenon
<1>2. n >= 16 => ~(n < 16)
  OBVIOUS
<1> QED BY <1>1, <1>2, Zenon

\* The digits of a number, the last of which is its remainder.
LEMMA HexDigitsEnd ==
  \A n \in Nat : /\ HexDigits[n] \in Seq(Text) /\ Len(HexDigits[n]) > 0
                 /\ HexDigits[n][Len(HexDigits[n])] = Hex(n % 16)
<1> DEFINE Good(s, n) == s \in Seq(Text) /\ Len(s) > 0 /\ s[Len(s)] = Hex(n % 16)
           S == {n \in Nat : Good(HexDigits[n], n)}
<1>1. ASSUME NEW n \in Nat, \A m \in Nat : m < n => m \in S
      PROVE  n \in S
  <2>1. CASE n < 16
    <3>1. HexDigits[n] = <<Hex(n)>> /\ Hex(n) \in Text /\ n % 16 = n
      BY <2>1, HexDigitsAt, DigitsOfNat, HexIsText
    <3>2. Good(<<Hex(n)>>, n)
      BY <3>1
    <3> QED BY <3>1, <3>2, Zenon
  <2>2. CASE n >= 16
    <3>1. n \div 16 \in S
      BY <2>2, <1>1, DigitsOfNat
    <3> DEFINE others == HexDigits[n \div 16]
    <3>2. HexDigits[n] = Append(others, Hex(n % 16)) /\ Hex(n % 16) \in Text
      BY <2>2, HexDigitsAt, DigitsOfNat, HexIsText, ZenonT(60)
    <3>3. others \in Seq(Text)
      BY <3>1
    <3>4. Good(Append(others, Hex(n % 16)), n)
      <4> HIDE DEF others
      <4> QED BY <3>2, <3>3
    <3> HIDE DEF Good
    <3> QED BY <3>2, <3>4
  <2> QED BY <2>1, <2>2
<1>2. \A n \in Nat : n \in S
  <2> HIDE DEF S
  <2> QED BY <1>1, InductionOnNats
<1> QED BY <1>2

---------------------------------------------------------------------------
(* The sum of bytes, and its last two digits.                              *)

LEMMA CountDef ==
  Count = [s \in Seq(Byte) |-> IF s = <<>> THEN 0 ELSE Head(s) + Count[Tail(s)]]
<1> DEFINE D == Seq(Byte)
           Stop == {<<>>}
           measure == [s \in D |-> Len(s)]
           next == [s \in D |-> IF s = <<>> THEN s ELSE Tail(s)]
           base == [s \in D |-> 0]
           step == [s \in D |-> [n \in Nat |-> IF s = <<>> THEN n ELSE Head(s) + n]]
<1>1. measure \in [D -> Nat] /\ next \in [D -> D]
  OBVIOUS
<1>2. base \in [D -> Nat]
  OBVIOUS
<1>3. step \in [D -> [Nat -> Nat]]
  <2>1. ASSUME NEW s \in D, s # <<>>, NEW n \in Nat
        PROVE  Head(s) + n \in Nat
    <3>1. Head(s) \in Nat
      BY <2>1, FirstOfSeq, TextIsBytes
    <3> QED BY <3>1
  <2> HIDE DEF D
  <2> QED BY <2>1
<1>4. \A s \in D : s \notin Stop => measure[next[s]] < measure[s]
  OBVIOUS
<1>5. Descends(D, Nat, Stop, measure, next, base, step)
  BY <1>1, <1>2, <1>3, <1>4 DEF Descends
<1>6. HasSolution(D, Nat, Stop, next, base, step)
  <2> HIDE DEF D, Stop, measure, next, base, step
  <2> QED BY <1>5, RecursionHasSolution
<1>7. PICK f \in [D -> Nat] :
        \A s \in D : /\ s \in Stop => f[s] = base[s]
                     /\ s \notin Stop => f[s] = step[s][f[next[s]]]
  BY <1>6 DEF HasSolution
<1>8. ASSUME NEW s \in D
      PROVE  f[s] = IF s = <<>> THEN 0 ELSE Head(s) + f[Tail(s)]
  <2>1. CASE s \in Stop
    BY <1>7, <2>1
  <2>2. CASE s \notin Stop
    <3>1. next[s] = Tail(s) /\ Tail(s) \in D
      BY <2>2
    <3>2. f[Tail(s)] \in Nat
      BY <3>1, <1>7
    <3>3. f[s] = step[s][f[Tail(s)]]
      BY <1>7, <2>2, <3>1
    <3> QED BY <2>2, <3>2, <3>3
  <2> QED BY <2>1, <2>2
<1>9. f = [s \in D |-> IF s = <<>> THEN 0 ELSE Head(s) + f[Tail(s)]]
  BY <1>7, <1>8
<1> QED BY <1>9 DEF Count

LEMMA CountAt ==
  ASSUME NEW s \in Seq(Byte)
  PROVE  /\ s = <<>> => Count[s] = 0
         /\ s # <<>> => Count[s] = Head(s) + Count[Tail(s)]
<1>1. Count[s] = IF s = <<>> THEN 0 ELSE Head(s) + Count[Tail(s)]
  BY CountDef, Zenon
<1> QED BY <1>1, Zenon

LEMMA CountIsNat ==
  \A s \in Seq(Byte) : Count[s] \in Nat
<1> DEFINE S == {n \in Nat : \A s \in Seq(Byte) : Len(s) = n => Count[s] \in Nat}
<1>1. ASSUME NEW n \in Nat, \A m \in Nat : m < n => m \in S
      PROVE  n \in S
  <2> SUFFICES ASSUME NEW s \in Seq(Byte), Len(s) = n
               PROVE  Count[s] \in Nat
    OBVIOUS
  <2>1. CASE s = <<>>
    BY <2>1, CountAt
  <2>2. CASE s # <<>>
    <3>1. /\ Head(s) \in Byte /\ Tail(s) \in Seq(Byte)
          /\ Len(Tail(s)) < n /\ Len(Tail(s)) \in Nat
      BY <2>2, FirstOfSeq
    <3>2. Count[Tail(s)] \in Nat
      BY <3>1, <1>1
    <3>3. Count[s] = Head(s) + Count[Tail(s)]
      BY <2>2, CountAt
    <3>4. Head(s) \in Nat
      BY <3>1, TextIsBytes
    <3> QED BY <3>2, <3>3, <3>4
  <2> QED BY <2>1, <2>2
<1>2. \A n \in Nat : n \in S
  <2> HIDE DEF S
  <2> QED BY <1>1, InductionOnNats
<1> QED BY <1>2, LenProperties

LEMMA MessageIsText ==
  ASSUME NEW m \in Messages
  PROVE  m \in Seq(Text) /\ Len(m) \in Nat /\ Len(m) > 0 /\ m # <<>> /\ Head(m) >= 16
<1>1. m \in Seq(32..126) /\ Len(m) >= 3
  BY ReaderAssumption
<1>2. Len(m) \in Nat /\ m \in [1..Len(m) -> 32..126]
  BY <1>1, LenProperties
<1>3. 32..126 \subseteq Text
  BY DEF Text, Byte, CR, LF
<1>4. m \in [1..Len(m) -> Text]
  BY <1>2, <1>3
<1>5. m \in Seq(Text)
  BY <1>2, <1>4, SeqDef
<1>6. m # <<>>
  BY <1>1
<1>7. Head(m) \in 32..126
  BY <1>1, <1>6, FirstOfSeq
<1>8. Head(m) >= 16
  BY <1>7
<1> QED BY <1>1, <1>2, <1>5, <1>6, <1>8

LEMMA LastTwo ==
  ASSUME NEW S, NEW s \in Seq(S), Len(s) > 0, NEW a \in S
  PROVE  LET t == Append(s, a)
         IN  SubSeq(t, Len(t) - 1, Len(t)) = <<s[Len(s)], a>>
<1> DEFINE t == Append(s, a)
           u == SubSeq(t, Len(t) - 1, Len(t))
<1>1. t \in Seq(S) /\ Len(t) = Len(s) + 1 /\ Len(s) \in Nat /\ t[Len(s)] = s[Len(s)] /\ t[Len(s) + 1] = a
  OBVIOUS
<1> HIDE DEF t
<1>2. u = SubSeq(t, Len(s), Len(s) + 1)
  BY <1>1
<1>3. Len(u) = 2 /\ u[1] = t[Len(s)] /\ u[2] = t[Len(s) + 1] /\ u \in Seq(S)
  BY <1>1, <1>2
<1>4. s[Len(s)] \in S
  OBVIOUS
<1> DEFINE v == <<s[Len(s)], a>>
<1>5. v \in Seq(S) /\ Len(v) = 2 /\ v[1] = s[Len(s)] /\ v[2] = a
  BY <1>4
<1> HIDE DEF u, v
<1>6. u = v
  BY <1>1, <1>3, <1>5, SeqEqual
<1> QED BY <1>6 DEF t, u, v

\* The checksum of a message is its sum, as a byte, in two digits.
LEMMA ChecksumIs ==
  ASSUME NEW m \in Messages
  PROVE  Checksum(m) = <<Hex((Count[m] % 256) \div 16), Hex((Count[m] % 256) % 16)>>
<1> DEFINE n == Count[m]
           q == n \div 16
<1>1. m \in Seq(Byte) /\ m # <<>> /\ Head(m) >= 16 /\ Head(m) \in Nat /\ Tail(m) \in Seq(Byte)
  BY MessageIsText, TextIsBytes, FirstOfSeq
<1>2. n \in Nat /\ n >= 16
  <2>1. n = Head(m) + Count[Tail(m)] /\ Count[Tail(m)] \in Nat
    BY <1>1, CountAt, CountIsNat
  <2> HIDE DEF n
  <2> QED BY <1>1, <2>1
<1> HIDE DEF n
<1>3. HexDigits[n] = Append(HexDigits[q], Hex(n % 16))
  BY <1>2, HexDigitsAt
<1>4. q \in Nat /\ n % 16 \in 0..15 /\ (n % 256) \div 16 = q % 16 /\ (n % 256) % 16 = n % 16
  BY <1>2, DigitsOfNat
<1> DEFINE s == HexDigits[q]
           a == Hex(n % 16)
<1>5. s \in Seq(Text) /\ Len(s) > 0 /\ s[Len(s)] = Hex(q % 16) /\ a \in Text
  BY <1>4, HexDigitsEnd, HexIsText, ZenonT(60)
<1> DEFINE t == HexDigits[n]
<1>6. Checksum(m) = SubSeq(t, Len(t) - 1, Len(t))
  BY DEF Checksum, n, t
<1>7. t = Append(s, a)
  BY <1>3
<1> HIDE DEF s, a, t
<1>8. SubSeq(t, Len(t) - 1, Len(t)) = <<s[Len(s)], a>>
  BY <1>5, <1>7, LastTwo, Zenon
<1> QED BY <1>4, <1>5, <1>6, <1>8, Zenon DEF n, a

---------------------------------------------------------------------------
(* Packets.                                                                *)

LEMMA HexOfByteIsText ==
  ASSUME NEW n \in Nat
  PROVE  Hex((n % 256) \div 16) \in Text /\ Hex((n % 256) % 16) \in Text
<1>1. (n % 256) \div 16 \in 0..15 /\ (n % 256) % 16 \in 0..15
  OBVIOUS
<1> QED BY <1>1, HexIsText

LEMMA SealedIsText ==
  ASSUME NEW m \in Messages
  PROVE  Sealed(m) \in Seq(Text)
<1>1. Count[m] \in Nat /\ m \in Seq(Text)
  BY MessageIsText, TextIsBytes, CountIsNat
<1>2. Checksum(m) \in Seq(Text)
  <2> DEFINE a == Hex((Count[m] % 256) \div 16)
             b == Hex((Count[m] % 256) % 16)
  <2>1. a \in Text /\ b \in Text
    BY <1>1, HexOfByteIsText
  <2>2. Checksum(m) = <<a, b>>
    BY ChecksumIs
  <2> HIDE DEF a, b
  <2>3. <<a, b>> \in Seq(Text)
    BY <2>1
  <2> QED BY <2>2, <2>3, Zenon
<1> QED BY <1>1, <1>2, ConcatIsSeq DEF Sealed

\* The check a receiver makes is passed (it100message.cpp:37-60).
LEMMA SealedVerifies ==
  ASSUME NEW m \in Messages
  PROVE  Verifies(Sealed(m))
<1> DEFINE byte == Count[m] % 256
           a == Hex(byte \div 16)
           b == Hex(byte % 16)
           c == <<a, b>>
           line == m \o c
           n == Len(line)
<1>1. Count[m] \in Nat /\ m \in Seq(Text) /\ Len(m) \in Nat /\ Len(m) > 0
  BY MessageIsText, TextIsBytes, CountIsNat
<1>2. a \in Text /\ b \in Text
  BY <1>1, HexOfByteIsText
<1>3. Sealed(m) = line
  BY ChecksumIs, ZenonT(60) DEF Sealed
<1> HIDE DEF a, b
<1>4. c \in Seq(Text) /\ Len(c) = 2 /\ c[1] = a /\ c[2] = b
  BY <1>2
<1> HIDE DEF c
<1>5. line \in Seq(Text) /\ n = Len(m) + 2
  <2>1. line \in Seq(Text) /\ n = Len(m) + Len(c)
    BY <1>1, <1>4, ConcatIsSeq
  <2> QED BY <2>1, <1>4
<1>6. line[n - 1] = a /\ line[n] = b
  <2>1. /\ n - 1 \in 1..(Len(m) + Len(c)) /\ ~(n - 1 <= Len(m)) /\ n - 1 - Len(m) = 1
        /\ n \in 1..(Len(m) + Len(c)) /\ ~(n <= Len(m)) /\ n - Len(m) = 2
    <3> HIDE DEF n
    <3> QED BY <1>1, <1>4, <1>5
  <2> HIDE DEF n
  <2>2. line[n - 1] = c[n - 1 - Len(m)]
    BY <1>1, <1>4, <2>1, ConcatProperties
  <2>3. line[n] = c[n - Len(m)]
    BY <1>1, <1>4, <2>1, ConcatProperties
  <2> QED BY <1>4, <2>1, <2>2, <2>3
<1>7. SubSeq(line, 1, n - 2) = m
  <2>1. SubSeq(line, 1, Len(m)) = m
    BY <1>1, <1>4, SplitOfConcat
  <2>2. n - 2 = Len(m)
    <3> HIDE DEF n
    <3> QED BY <1>1, <1>5
  <2> QED BY <2>1, <2>2
<1>8. n > 2
  <2> HIDE DEF n
  <2> QED BY <1>1, <1>5
<1> HIDE DEF line
<1>9. Verifies(line)
  BY <1>6, <1>7, <1>8 DEF Verifies, a, b
<1> QED BY <1>3, <1>9

---------------------------------------------------------------------------
(* Where a line ends.                                                      *)

\* What is in a line, and what follows it.
Inner == Byte \ {LF}
Parts(s, a, b) == a \in Seq(Inner) /\ b \in Seq(Byte) /\ s = (a \o <<LF>>) \o b

LEMMA InnerIsBytes ==
  /\ Inner \subseteq Byte /\ Text \subseteq Inner
  /\ Seq(Inner) \subseteq Seq(Byte) /\ Seq(Text) \subseteq Seq(Inner)
  /\ LF \in Byte /\ CR \in Inner /\ <<LF>> \in Seq(Byte) /\ <<CR>> \in Seq(Inner)
<1>1. Inner \subseteq Byte /\ Text \subseteq Inner /\ LF \in Byte /\ CR \in Inner
  BY DEF Inner, Text, Byte, LF, CR
<1>2. ASSUME NEW s \in Seq(Inner) PROVE s \in Seq(Byte)
  <2>1. Len(s) \in Nat /\ s \in [1..Len(s) -> Inner]
    BY LenProperties
  <2>2. s \in [1..Len(s) -> Byte]
    BY <1>1, <2>1
  <2> QED BY <2>1, <2>2, SeqDef
<1>3. ASSUME NEW s \in Seq(Text) PROVE s \in Seq(Inner)
  <2>1. Len(s) \in Nat /\ s \in [1..Len(s) -> Text]
    BY LenProperties
  <2>2. s \in [1..Len(s) -> Inner]
    BY <1>1, <2>1
  <2> QED BY <2>1, <2>2, SeqDef
<1>4. <<LF>> \in Seq(Byte) /\ <<CR>> \in Seq(Inner)
  BY <1>1, SeqOfOne
<1> QED BY <1>1, <1>2, <1>3, <1>4

LEMMA LineEndIs ==
  ASSUME NEW s \in Seq(Byte), LineEnds(s) # {}
  PROVE  /\ Min(LineEnds(s)) \in 1..Len(s) /\ s[Min(LineEnds(s))] = LF
         /\ \A j \in 1..Len(s) : s[j] = LF => Min(LineEnds(s)) <= j
<1> DEFINE E == LineEnds(s)
<1>1. E = {i \in 1..Len(s) : s[i] = LF} /\ Len(s) \in Nat
  BY LenProperties DEF LineEnds
<1>2. E \in SUBSET Nat /\ E # {}
  BY <1>1
<1>3. \E n \in E : \A m \in E : n <= m
  <2> HIDE DEF E
  <2> QED BY <1>2, LeastOfNats
<1>4. Min(E) \in E /\ \A m \in E : Min(E) <= m
  BY <1>3 DEF Min
<1> QED BY <1>1, <1>4

LEMMA NoLineEnd ==
  ASSUME NEW s \in Seq(Byte)
  PROVE  LineEnds(s) = {} <=> s \in Seq(Inner)
<1>1. Len(s) \in Nat /\ s \in [1..Len(s) -> Byte] /\ LineEnds(s) = {i \in 1..Len(s) : s[i] = LF}
  BY LenProperties DEF LineEnds
<1>2. ASSUME LineEnds(s) = {} PROVE s \in Seq(Inner)
  <2>1. s \in [1..Len(s) -> Inner]
    BY <1>1, <1>2 DEF Inner
  <2> QED BY <1>1, <2>1, SeqDef
<1>3. ASSUME s \in Seq(Inner) PROVE LineEnds(s) = {}
  <2>1. \A i \in 1..Len(s) : s[i] \in Inner
    BY <1>3, ElementOfSeq
  <2> QED BY <1>1, <2>1 DEF Inner
<1> QED BY <1>2, <1>3

LEMMA LineEndParts ==
  ASSUME NEW s \in Seq(Byte), LineEnds(s) # {}
  PROVE  /\ Parts(s, SubSeq(s, 1, Min(LineEnds(s)) - 1), Behind(s))
         /\ Len(Behind(s)) < Len(s) /\ Len(Behind(s)) \in Nat
<1> DEFINE e == Min(LineEnds(s))
           a == SubSeq(s, 1, e - 1)
           c == SubSeq(s, 1, e)
           b == SubSeq(s, e + 1, Len(s))
<1>1. /\ e \in 1..Len(s) /\ s[e] = LF /\ Len(s) \in Nat
      /\ \A j \in 1..Len(s) : s[j] = LF => e <= j
  BY LineEndIs, LenProperties
<1> HIDE DEF e
<1>2. e \in 0..Len(s) /\ e - 1 \in 0..Len(s)
  BY <1>1
<1>3. c \in Seq(Byte) /\ Len(c) = e /\ b \in Seq(Byte) /\ Len(b) = Len(s) - e /\ s = c \o b
  BY <1>2, SplitOfSeq
<1>4. a \in Seq(Byte) /\ Len(a) = e - 1
  BY <1>2, SplitOfSeq
<1>5. \A i \in 1..(e - 1) : a[i] = s[i] /\ c[i] = s[i] /\ c[e] = s[e]
  BY <1>1
<1>6. a \in Seq(Inner)
  <2>1. \A i \in 1..Len(a) : a[i] # LF
    BY <1>1, <1>4, <1>5
  <2>2. LineEnds(a) = {}
    <3> HIDE DEF a
    <3>1. DOMAIN a = 1..Len(a)
      BY <1>4, LenProperties
    <3> QED BY <2>1, <3>1 DEF LineEnds
  <2> QED BY <1>4, <2>2, NoLineEnd
<1>7. c = a \o <<LF>>
  <2>1. <<LF>> \in Seq(Byte) /\ Len(<<LF>>) = 1 /\ <<LF>>[1] = LF
    BY InnerIsBytes
  <2> DEFINE l == <<LF>>
  <2> HIDE DEF l, a, c
  <2>2. a \o l \in Seq(Byte) /\ Len(a \o l) = Len(a) + Len(l)
    BY <1>4, <2>1, ConcatIsSeq DEF l
  <2>3. Len(a \o l) = e /\ Len(c) = e /\ c \in Seq(Byte)
    BY <1>1, <1>3, <1>4, <2>1, <2>2 DEF l
  <2>4. c[e] = LF
    <3>1. c[e] = s[e]
      BY <1>1 DEF c
    <3> QED BY <3>1, <1>1
  <2>5. ASSUME NEW i \in 1..e PROVE c[i] = (a \o l)[i]
    <3>1. i \in 1..(Len(a) + Len(l)) /\ l[1] = LF
      BY <1>1, <1>4, <2>1 DEF l
    <3>2. (a \o l)[i] = IF i <= Len(a) THEN a[i] ELSE l[i - Len(a)]
      BY <3>1, <1>4, <2>1, ConcatProperties DEF l
    <3>3. CASE i = e
      <4>1. ~(i <= Len(a)) /\ i - Len(a) = 1
        BY <3>3, <1>1, <1>4
      <4> QED BY <3>1, <3>2, <3>3, <4>1, <2>4
    <3>4. CASE i # e
      <4>1. i <= Len(a) /\ i \in 1..(e - 1)
        BY <3>4, <1>1, <1>4
      <4> QED BY <3>2, <4>1, <1>5
    <3> QED BY <3>3, <3>4
  <2>6. c = a \o l
    BY <2>2, <2>3, <2>5, SeqEqual
  <2> QED BY <2>6 DEF l
<1>8. Behind(s) = b
  BY DEF Behind, e, b
<1>9. Len(b) < Len(s) /\ Len(b) \in Nat
  BY <1>1, <1>3
<1> HIDE DEF a, b, c
<1>10. Parts(s, a, b)
  BY <1>3, <1>6, <1>7, Zenon DEF Parts
<1> QED BY <1>8, <1>9, <1>10 DEF a, e

\* There is one way to part a sequence at its first line's end.
LEMMA PartsAreAt ==
  ASSUME NEW s, NEW a, NEW b, Parts(s, a, b)
  PROVE  /\ s \in Seq(Byte) /\ LineEnds(s) # {}
         /\ Min(LineEnds(s)) = Len(a) + 1
         /\ SubSeq(s, 1, Min(LineEnds(s)) - 1) = a /\ Behind(s) = b
<1> DEFINE l == <<LF>>
           c == a \o l
           e == Min(LineEnds(s))
<1>1. a \in Seq(Inner) /\ a \in Seq(Byte) /\ b \in Seq(Byte) /\ s = c \o b
  BY InnerIsBytes DEF Parts
<1>2. l \in Seq(Byte) /\ Len(l) = 1 /\ l[1] = LF
  BY InnerIsBytes
<1> HIDE DEF l
<1>3. c \in Seq(Byte) /\ Len(c) = Len(a) + 1 /\ Len(a) \in Nat
  <2>1. c \in Seq(Byte) /\ Len(c) = Len(a) + Len(l) /\ Len(a) \in Nat
    BY <1>1, <1>2, ConcatIsSeq
  <2> QED BY <2>1, <1>2
<1>4. ASSUME NEW i \in 1..(Len(a) + 1)
      PROVE  c[i] = IF i <= Len(a) THEN a[i] ELSE LF
  <2>1. i \in 1..(Len(a) + Len(l))
    BY <1>2
  <2>2. c[i] = IF i <= Len(a) THEN a[i] ELSE l[i - Len(a)]
    BY <2>1, <1>1, <1>2, ConcatProperties
  <2>3. ~(i <= Len(a)) => i - Len(a) = 1
    BY <1>3
  <2> QED BY <2>2, <2>3, <1>2
<1> HIDE DEF c
<1>5. s \in Seq(Byte) /\ Len(s) = Len(c) + Len(b) /\ Len(b) \in Nat
  BY <1>1, <1>3, ConcatIsSeq
<1>6. ASSUME NEW i \in 1..(Len(a) + 1)
      PROVE  s[i] = IF i <= Len(a) THEN a[i] ELSE LF
  <2>1. i \in 1..(Len(c) + Len(b)) /\ i <= Len(c)
    BY <1>3, <1>5
  <2>2. s[i] = c[i]
    BY <2>1, <1>1, <1>3, ConcatProperties
  <2> QED BY <2>2, <1>4
<1>7. \A i \in 1..Len(a) : a[i] # LF
  <2>1. \A i \in 1..Len(a) : a[i] \in Inner
    BY <1>1, ElementOfSeq
  <2> QED BY <2>1 DEF Inner
<1>8. DOMAIN s = 1..Len(s) /\ Len(a) + 1 \in 1..Len(s)
  BY <1>3, <1>5, LenProperties
<1>9. s[Len(a) + 1] = LF
  BY <1>3, <1>6
<1>10. Len(a) + 1 \in LineEnds(s)
  BY <1>8, <1>9 DEF LineEnds
<1>11. /\ e \in 1..Len(s) /\ s[e] = LF
       /\ \A j \in 1..Len(s) : s[j] = LF => e <= j
  BY <1>5, <1>10, LineEndIs
<1>12. e = Len(a) + 1
  <2> HIDE DEF e
  <2>1. e <= Len(a) + 1
    BY <1>8, <1>9, <1>11
  <2>2. e <= Len(a) => s[e] # LF
    BY <1>3, <1>6, <1>7, <1>11
  <2> QED BY <1>3, <1>11, <2>1, <2>2
<1>13. Behind(s) = b
  <2>1. SubSeq(c \o b, Len(c) + 1, Len(c \o b)) = b
    BY <1>1, <1>3, SplitOfConcat
  <2> QED BY <2>1, <1>1, <1>3, <1>12 DEF Behind
<1>14. SubSeq(s, 1, e - 1) = a
  <2> DEFINE t == l \o b
  <2>1. t \in Seq(Byte)
    BY <1>1, <1>2, ConcatIsSeq
  <2>2. s = a \o t
    BY <1>1, <1>2, ConcatAssociative, SMTT(60) DEF c
  <2>3. SubSeq(a \o t, 1, Len(a)) = a
    <3> HIDE DEF t
    <3> QED BY <1>1, <2>1, SplitOfConcat
  <2>4. e - 1 = Len(a)
    BY <1>3, <1>12
  <2> QED BY <2>2, <2>3, <2>4
<1> QED BY <1>5, <1>10, <1>12, <1>13, <1>14

LEMMA SameParts ==
  ASSUME NEW s, NEW a, NEW b, NEW c, NEW d, Parts(s, a, b), Parts(s, c, d)
  PROVE  a = c /\ b = d
<1>1. SubSeq(s, 1, Min(LineEnds(s)) - 1) = a /\ Behind(s) = b
  BY PartsAreAt
<1>2. SubSeq(s, 1, Min(LineEnds(s)) - 1) = c /\ Behind(s) = d
  BY PartsAreAt
<1> QED BY <1>1, <1>2, Zenon

---------------------------------------------------------------------------
(* The lines of what has been read.                                        *)

LEMMA ChompedIsBytes ==
  ASSUME NEW s \in Seq(Byte)
  PROVE  Chomped(s) \in Seq(Byte)
<1>1. CASE s # <<>> /\ s[Len(s)] = CR
  <2>1. Len(s) \in Nat /\ Len(s) > 0
    BY <1>1, FirstOfSeq
  <2>2. Len(s) - 1 \in 0..Len(s)
    BY <2>1
  <2>3. SubSeq(s, 1, Len(s) - 1) \in Seq(Byte)
    BY <2>2, SplitOfSeq
  <2> QED BY <1>1, <2>3 DEF Chomped
<1>2. CASE ~(s # <<>> /\ s[Len(s)] = CR)
  BY <1>2 DEF Chomped
<1> QED BY <1>1, <1>2

LEMMA ChompedIs ==
  ASSUME NEW s \in Seq(Byte)
  PROVE  Chomped(s \o <<CR>>) = s
<1> DEFINE r == <<CR>>
           t == s \o r
<1>1. r \in Seq(Byte) /\ Len(r) = 1 /\ r[1] = CR
  BY InnerIsBytes
<1> HIDE DEF r
<1>2. t \in Seq(Byte) /\ Len(t) = Len(s) + 1 /\ Len(s) \in Nat
  <2>1. t \in Seq(Byte) /\ Len(t) = Len(s) + Len(r) /\ Len(s) \in Nat
    BY <1>1, ConcatIsSeq
  <2> QED BY <2>1, <1>1
<1>3. t[Len(t)] = CR
  <2>1. /\ Len(t) \in 1..(Len(s) + Len(r)) /\ ~(Len(t) <= Len(s)) /\ Len(t) - Len(s) = 1
    <3> HIDE DEF t
    <3> QED BY <1>1, <1>2
  <2>2. t[Len(t)] = r[Len(t) - Len(s)]
    BY <1>1, <2>1, ConcatProperties
  <2> QED BY <1>1, <2>1, <2>2
<1>4. t # <<>>
  <2> HIDE DEF t
  <2> QED BY <1>2
<1>5. SubSeq(t, 1, Len(t) - 1) = s
  <2>1. SubSeq(t, 1, Len(s)) = s
    BY <1>1, SplitOfConcat
  <2>2. Len(t) - 1 = Len(s)
    <3> HIDE DEF t
    <3> QED BY <1>2
  <2> QED BY <2>1, <2>2
<1> HIDE DEF t
<1>6. Chomped(t) = s
  BY <1>3, <1>4, <1>5 DEF Chomped
<1> QED BY <1>6 DEF t, r

LEMMA FirstLineIs ==
  ASSUME NEW s \in Seq(Byte), LineEnds(s) # {}
  PROVE  /\ FirstLine(s) \in Seq(Byte) /\ Behind(s) \in Seq(Byte)
         /\ Len(Behind(s)) < Len(s) /\ Len(Behind(s)) \in Nat
<1> DEFINE a == SubSeq(s, 1, Min(LineEnds(s)) - 1)
<1>1. Parts(s, a, Behind(s)) /\ Len(Behind(s)) < Len(s) /\ Len(Behind(s)) \in Nat
  BY LineEndParts
<1>2. a \in Seq(Byte) /\ Behind(s) \in Seq(Byte)
  BY <1>1, InnerIsBytes DEF Parts
<1>3. FirstLine(s) = Chomped(a)
  BY DEF FirstLine
<1> HIDE DEF a
<1> QED BY <1>1, <1>2, <1>3, ChompedIsBytes

LEMMA SplitDef ==
  Split = [s \in Seq(Byte) |->
    IF LineEnds(s) = {} THEN <<s>> ELSE <<FirstLine(s)>> \o Split[Behind(s)]]
<1> DEFINE D == Seq(Byte)
           B == Seq(Seq(Byte))
           Stop == {s \in D : LineEnds(s) = {}}
           measure == [s \in D |-> Len(s)]
           next == [s \in D |-> IF LineEnds(s) = {} THEN s ELSE Behind(s)]
           base == [s \in D |-> <<s>>]
           step == [s \in D |-> [t \in B |->
                      IF LineEnds(s) = {} THEN t ELSE <<FirstLine(s)>> \o t]]
<1>1. measure \in [D -> Nat] /\ next \in [D -> D]
  <2>1. \A s \in D : (IF LineEnds(s) = {} THEN s ELSE Behind(s)) \in D
    BY FirstLineIs
  <2>2. \A s \in D : Len(s) \in Nat
    OBVIOUS
  <2> HIDE DEF D
  <2> QED BY <2>1, <2>2
<1>2. base \in [D -> B]
  <2>1. \A s \in D : <<s>> \in B
    BY SeqOfOne
  <2> HIDE DEF D, B
  <2> QED BY <2>1
<1>3. step \in [D -> [B -> B]]
  <2>1. ASSUME NEW s \in D, LineEnds(s) # {}, NEW t \in B
        PROVE  <<FirstLine(s)>> \o t \in B
    <3>1. FirstLine(s) \in Seq(Byte)
      BY <2>1, FirstLineIs
    <3>2. <<FirstLine(s)>> \in B
      BY <3>1, SeqOfOne
    <3> QED BY <3>2, ConcatIsSeq
  <2> HIDE DEF D, B
  <2> QED BY <2>1
<1>4. \A s \in D : s \notin Stop => measure[next[s]] < measure[s]
  <2>1. ASSUME NEW s \in D, s \notin Stop
        PROVE  next[s] = Behind(s) /\ Behind(s) \in D /\ Len(Behind(s)) < Len(s)
    BY <2>1, FirstLineIs
  <2> HIDE DEF D, Stop, next
  <2> QED BY <2>1
<1>5. Descends(D, B, Stop, measure, next, base, step)
  <2> HIDE DEF D, B, Stop, measure, next, base, step
  <2> QED BY <1>1, <1>2, <1>3, <1>4 DEF Descends
<1>6. HasSolution(D, B, Stop, next, base, step)
  <2> HIDE DEF D, B, Stop, measure, next, base, step
  <2> QED BY <1>5, RecursionHasSolution
<1>7. PICK f \in [D -> B] :
        \A s \in D : /\ s \in Stop => f[s] = base[s]
                     /\ s \notin Stop => f[s] = step[s][f[next[s]]]
  BY <1>6 DEF HasSolution
<1>8. ASSUME NEW s \in D
      PROVE  f[s] = IF LineEnds(s) = {} THEN <<s>> ELSE <<FirstLine(s)>> \o f[Behind(s)]
  <2>1. CASE s \in Stop
    <3>1. f[s] = base[s] /\ base[s] = <<s>>
      <4>1. base[s] = <<s>>
        <5> HIDE DEF D
        <5> QED OBVIOUS
      <4> HIDE DEF D, B, Stop, base
      <4> QED BY <1>7, <2>1, <4>1
    <3> QED BY <2>1, <3>1
  <2>2. CASE s \notin Stop
    <3>1. LineEnds(s) # {} /\ next[s] = Behind(s) /\ Behind(s) \in D
      BY <2>2, FirstLineIs
    <3>2. f[Behind(s)] \in B
      <4> HIDE DEF D, B
      <4> QED BY <3>1, <1>7
    <3>3. f[s] = step[s][f[Behind(s)]]
      <4> HIDE DEF D, B, Stop, step, next
      <4> QED BY <1>7, <2>2, <3>1
    <3>4. step[s][f[Behind(s)]] = <<FirstLine(s)>> \o f[Behind(s)]
      <4> HIDE DEF D, B
      <4> QED BY <3>1, <3>2
    <3> QED BY <3>1, <3>3, <3>4
  <2> QED BY <2>1, <2>2
<1>9. f = [s \in D |-> IF LineEnds(s) = {} THEN <<s>> ELSE <<FirstLine(s)>> \o f[Behind(s)]]
  <2> HIDE DEF D, B
  <2> QED BY <1>7, <1>8
<1> QED BY <1>9 DEF Split

LEMMA SplitAt ==
  ASSUME NEW s \in Seq(Byte)
  PROVE  /\ LineEnds(s) = {} => Split[s] = <<s>>
         /\ LineEnds(s) # {} => Split[s] = <<FirstLine(s)>> \o Split[Behind(s)]
<1>1. Split[s] = IF LineEnds(s) = {} THEN <<s>> ELSE <<FirstLine(s)>> \o Split[Behind(s)]
  BY SplitDef, Zenon
<1> QED BY <1>1, Zenon

LEMMA SplitIsLines ==
  \A s \in Seq(Byte) : Split[s] \in Seq(Seq(Byte)) /\ Len(Split[s]) > 0
<1> DEFINE B == Seq(Seq(Byte))
           S == {n \in Nat : \A s \in Seq(Byte) : Len(s) = n =>
                                Split[s] \in B /\ Len(Split[s]) > 0}
<1>1. ASSUME NEW n \in Nat, \A m \in Nat : m < n => m \in S
      PROVE  n \in S
  <2> SUFFICES ASSUME NEW s \in Seq(Byte), Len(s) = n
               PROVE  Split[s] \in B /\ Len(Split[s]) > 0
    OBVIOUS
  <2>1. CASE LineEnds(s) = {}
    <3>1. <<s>> \in B /\ Len(<<s>>) = 1
      BY SeqOfOne
    <3>2. Split[s] = <<s>>
      BY <2>1, SplitAt
    <3>3. Split[s] \in B /\ Len(Split[s]) = 1
      BY <3>1, <3>2, Zenon
    <3> HIDE DEF B
    <3> QED BY <3>3
  <2>2. CASE LineEnds(s) # {}
    <3> DEFINE first == <<FirstLine(s)>>
               others == Split[Behind(s)]
    <3>1. /\ FirstLine(s) \in Seq(Byte) /\ Behind(s) \in Seq(Byte)
          /\ Len(Behind(s)) < n /\ Len(Behind(s)) \in Nat
      BY <2>2, FirstLineIs
    <3>2. others \in B
      <4> HIDE DEF B
      <4> QED BY <3>1, <1>1
    <3>3. first \in B /\ Len(first) = 1
      BY <3>1, SeqOfOne
    <3>4. Split[s] = first \o others
      BY <2>2, SplitAt
    <3> HIDE DEF first, others
    <3>5. first \o others \in B /\ Len(first \o others) = Len(first) + Len(others) /\ Len(others) \in Nat
      BY <3>2, <3>3, ConcatIsSeq
    <3> HIDE DEF B
    <3> QED BY <3>3, <3>4, <3>5
  <2> QED BY <2>1, <2>2
<1>2. \A n \in Nat : n \in S
  <2> HIDE DEF S
  <2> QED BY <1>1, InductionOnNats
<1> QED BY <1>2, LenProperties

LEMMA LinesAt ==
  ASSUME NEW s \in Seq(Byte)
  PROVE  /\ LinesIn(s) \in Seq(Seq(Byte)) /\ Len(LinesIn(s)) \in Nat
         /\ LineEnds(s) = {} => LinesIn(s) = <<>> /\ Rest(s) = s
         /\ LineEnds(s) # {} => /\ LinesIn(s) = <<FirstLine(s)>> \o LinesIn(Behind(s))
                                /\ Rest(s) = Rest(Behind(s))
<1> DEFINE B == Seq(Seq(Byte))
           t == Split[s]
           n == Len(t)
<1>1. t \in B /\ n \in Nat /\ n > 0
  BY SplitIsLines, LenProperties
<1> HIDE DEF B, t
<1>2. n - 1 \in 0..n
  BY <1>1
<1>3. SubSeq(t, 1, n - 1) \in B /\ Len(SubSeq(t, 1, n - 1)) = n - 1
  BY <1>1, <1>2, SplitOfSeq DEF B
<1>4. LinesIn(s) \in B /\ Len(LinesIn(s)) = n - 1
  BY <1>3 DEF LinesIn, t
<1>5. ASSUME LineEnds(s) = {} PROVE LinesIn(s) = <<>> /\ Rest(s) = s
  <2>1. t = <<s>>
    BY <1>5, SplitAt DEF t
  <2>2. Len(<<s>>) = 1 /\ <<s>>[1] = s
    OBVIOUS
  <2>3. n = 1 /\ t[n] = s
    BY <2>1, <2>2, Zenon
  <2>4. Len(LinesIn(s)) = 0
    BY <1>4, <2>3
  <2>5. Rest(s) = t[n]
    BY DEF Rest, t
  <2> QED BY <1>4, <2>3, <2>4, <2>5, EmptySeq DEF B
<1>6. ASSUME LineEnds(s) # {}
      PROVE  LinesIn(s) = <<FirstLine(s)>> \o LinesIn(Behind(s)) /\ Rest(s) = Rest(Behind(s))
  <2> DEFINE u == Split[Behind(s)]
             k == Len(u)
             f == <<FirstLine(s)>>
             ls == LinesIn(Behind(s))
             r == u[k]
  <2>1. Behind(s) \in Seq(Byte) /\ FirstLine(s) \in Seq(Byte)
    BY <1>6, FirstLineIs
  <2>2. u \in B /\ k \in Nat /\ k > 0 /\ f \in B /\ Len(f) = 1
    BY <2>1, SplitIsLines, LenProperties, SeqOfOne DEF B
  <2>3. t = f \o u
    BY <1>6, SplitAt DEF t
  <2>4. ls = SubSeq(u, 1, k - 1) /\ Rest(Behind(s)) = r
    BY DEF LinesIn, Rest
  <2> HIDE DEF u, f, ls
  <2>5. n = k + 1
    <3>1. Len(f \o u) = Len(f) + Len(u)
      BY <2>2, ConcatIsSeq DEF B
    <3> QED BY <2>2, <2>3, <3>1
  <2>6. t[n] = u[k]
    <3>1. n \in 1..(Len(f) + Len(u)) /\ ~(n <= Len(f)) /\ n - Len(f) = k
      BY <2>2, <2>5
    <3>2. t[n] = u[n - Len(f)]
      BY <2>2, <2>3, <3>1, ConcatProperties DEF B
    <3> QED BY <3>1, <3>2
  <2>7. Rest(s) = t[n] /\ LinesIn(s) = SubSeq(t, 1, n - 1)
    BY DEF Rest, LinesIn, t
  <2>8. ls \in B /\ Len(ls) = k - 1
    <3>1. k - 1 \in 0..k
      BY <2>2
    <3> QED BY <2>2, <2>4, <3>1, SplitOfSeq DEF B
  <2> DEFINE v == SubSeq(u, k, k)
  <2>9. u = ls \o v /\ v \in B
    <3>1. k - 1 \in 0..k /\ k - 1 + 1 = k
      BY <2>2
    <3>2. u = SubSeq(u, 1, k - 1) \o SubSeq(u, k - 1 + 1, k) /\ SubSeq(u, k - 1 + 1, k) \in B
      BY <2>2, <3>1, SplitOfSeq DEF B
    <3> QED BY <2>4, <3>1, <3>2
  <2> HIDE DEF v
  <2>10. t = (f \o ls) \o v
    <3>1. (f \o ls) \o v = f \o (ls \o v)
      <4>1. f \in Seq(Seq(Byte)) /\ ls \in Seq(Seq(Byte)) /\ v \in Seq(Seq(Byte))
        BY <2>2, <2>8, <2>9 DEF B
      <4> QED BY <4>1, ConcatAssociative, SMTT(60)
    <3> QED BY <2>3, <2>9, <3>1, Zenon
  <2>11. f \o ls \in B /\ Len(f \o ls) = n - 1
    <3>1. f \o ls \in B /\ Len(f \o ls) = Len(f) + Len(ls)
      BY <2>2, <2>8, ConcatIsSeq DEF B
    <3> QED BY <3>1, <2>2, <2>5, <2>8
  <2>12. SubSeq((f \o ls) \o v, 1, Len(f \o ls)) = f \o ls
    BY <2>9, <2>11, SplitOfConcat, SMTT(60) DEF B
  <2>13. LinesIn(s) = f \o ls
    BY <2>7, <2>10, <2>11, <2>12, Zenon
  <2> QED BY <2>4, <2>6, <2>7, <2>13 DEF f, ls
<1>7. Len(LinesIn(s)) \in Nat
  BY <1>1, <1>4
<1> QED BY <1>4, <1>5, <1>6, <1>7 DEF B

LEMMA RestIsInner ==
  \A s \in Seq(Byte) : Rest(s) \in Seq(Inner)
<1> DEFINE S == {n \in Nat : \A s \in Seq(Byte) : Len(s) = n => Rest(s) \in Seq(Inner)}
<1>1. ASSUME NEW n \in Nat, \A m \in Nat : m < n => m \in S
      PROVE  n \in S
  <2> SUFFICES ASSUME NEW s \in Seq(Byte), Len(s) = n
               PROVE  Rest(s) \in Seq(Inner)
    OBVIOUS
  <2>1. CASE LineEnds(s) = {}
    BY <2>1, LinesAt, NoLineEnd
  <2>2. CASE LineEnds(s) # {}
    <3>1. Behind(s) \in Seq(Byte) /\ Len(Behind(s)) < n /\ Len(Behind(s)) \in Nat
      BY <2>2, FirstLineIs
    <3>2. Rest(Behind(s)) \in Seq(Inner)
      BY <3>1, <1>1
    <3>3. Rest(s) = Rest(Behind(s))
      BY <2>2, LinesAt
    <3> QED BY <3>2, <3>3
  <2> QED BY <2>1, <2>2
<1>2. \A n \in Nat : n \in S
  <2> HIDE DEF S
  <2> QED BY <1>1, InductionOnNats
<1> QED BY <1>2, LenProperties

---------------------------------------------------------------------------
(* Packets, one behind the other.                                          *)

\* The packet of a message, as what is in a line and its end.
LEMMA PacketIs ==
  ASSUME NEW m \in Messages
  PROVE  /\ Packet(m) = (Sealed(m) \o <<CR>>) \o <<LF>>
         /\ Sealed(m) \in Seq(Inner) /\ Sealed(m) \o <<CR>> \in Seq(Inner)
         /\ Packet(m) \in Seq(Byte)
<1> DEFINE s == Sealed(m)
           r == <<CR>>
           l == <<LF>>
<1>1. s \in Seq(Inner) /\ r \in Seq(Inner) /\ l \in Seq(Byte) /\ r \in Seq(Byte) /\ s \in Seq(Byte)
  BY SealedIsText, InnerIsBytes
<1>2. <<CR, LF>> = r \o l
  <2> DEFINE t == <<CR, LF>>
  <2>1. t \in Seq(Byte) /\ t # <<>> /\ Head(t) = CR /\ Tail(t) = <<LF>>
    BY InnerIsBytes
  <2> HIDE DEF t
  <2>2. t = <<Head(t)>> \o Tail(t)
    BY <2>1, FirstAndOthers
  <2> QED BY <2>1, <2>2, Zenon DEF t
<1> HIDE DEF s, r, l
<1>3. (s \o r) \o l = s \o (r \o l)
  BY <1>1, ConcatAssociative
<1>4. s \o r \in Seq(Inner) /\ s \o r \in Seq(Byte)
  BY <1>1, ConcatIsSeq
<1>5. Packet(m) = (s \o r) \o l
  BY <1>2, <1>3, Zenon DEF Packet, s
<1>6. (s \o r) \o l \in Seq(Byte)
  BY <1>1, <1>4, ConcatIsSeq
<1>7. Packet(m) \in Seq(Byte)
  BY <1>5, <1>6, Zenon
<1> QED BY <1>1, <1>4, <1>5, <1>7 DEF s, r, l

LEMMA StreamDef ==
  Stream = [ms \in Seq(Messages) |->
    IF ms = <<>> THEN <<>> ELSE Packet(Head(ms)) \o Stream[Tail(ms)]]
<1> DEFINE D == Seq(Messages)
           B == Seq(Byte)
           Stop == {<<>>}
           measure == [s \in D |-> Len(s)]
           next == [s \in D |-> IF s = <<>> THEN s ELSE Tail(s)]
           base == [s \in D |-> <<>>]
           step == [s \in D |-> [t \in B |-> IF s = <<>> THEN t ELSE Packet(Head(s)) \o t]]
<1>1. measure \in [D -> Nat] /\ next \in [D -> D]
  OBVIOUS
<1>2. base \in [D -> B]
  OBVIOUS
<1>3. step \in [D -> [B -> B]]
  <2>1. ASSUME NEW s \in D, s # <<>>, NEW t \in B
        PROVE  Packet(Head(s)) \o t \in B
    <3>1. Head(s) \in Messages
      BY <2>1, FirstOfSeq
    <3>2. Packet(Head(s)) \in B
      BY <3>1, PacketIs
    <3> QED BY <3>2, ConcatIsSeq
  <2> HIDE DEF D, B
  <2> QED BY <2>1
<1>4. \A s \in D : s \notin Stop => measure[next[s]] < measure[s]
  OBVIOUS
<1>5. Descends(D, B, Stop, measure, next, base, step)
  BY <1>1, <1>2, <1>3, <1>4 DEF Descends
<1>6. HasSolution(D, B, Stop, next, base, step)
  <2> HIDE DEF D, B, Stop, measure, next, base, step
  <2> QED BY <1>5, RecursionHasSolution
<1>7. PICK f \in [D -> B] :
        \A s \in D : /\ s \in Stop => f[s] = base[s]
                     /\ s \notin Stop => f[s] = step[s][f[next[s]]]
  BY <1>6 DEF HasSolution
<1>8. ASSUME NEW s \in D
      PROVE  f[s] = IF s = <<>> THEN <<>> ELSE Packet(Head(s)) \o f[Tail(s)]
  <2>1. CASE s \in Stop
    BY <1>7, <2>1
  <2>2. CASE s \notin Stop
    <3>1. next[s] = Tail(s) /\ Tail(s) \in D
      BY <2>2
    <3>2. f[Tail(s)] \in B
      BY <3>1, <1>7
    <3>3. f[s] = step[s][f[Tail(s)]]
      BY <1>7, <2>2, <3>1
    <3>4. step[s][f[Tail(s)]] = Packet(Head(s)) \o f[Tail(s)]
      <4> HIDE DEF B
      <4> QED BY <2>2, <3>2
    <3> QED BY <2>2, <3>3, <3>4
  <2> QED BY <2>1, <2>2
<1>9. f = [s \in D |-> IF s = <<>> THEN <<>> ELSE Packet(Head(s)) \o f[Tail(s)]]
  BY <1>7, <1>8
<1> QED BY <1>9 DEF Stream

LEMMA StreamAt ==
  ASSUME NEW s \in Seq(Messages)
  PROVE  /\ s = <<>> => Stream[s] = <<>>
         /\ s # <<>> => Stream[s] = Packet(Head(s)) \o Stream[Tail(s)]
<1>1. Stream[s] = IF s = <<>> THEN <<>> ELSE Packet(Head(s)) \o Stream[Tail(s)]
  BY StreamDef, Zenon
<1> QED BY <1>1, Zenon

LEMMA StreamIsBytes ==
  \A s \in Seq(Messages) : Stream[s] \in Seq(Byte)
<1> DEFINE S == {n \in Nat : \A s \in Seq(Messages) : Len(s) = n => Stream[s] \in Seq(Byte)}
<1>1. ASSUME NEW n \in Nat, \A m \in Nat : m < n => m \in S
      PROVE  n \in S
  <2> SUFFICES ASSUME NEW s \in Seq(Messages), Len(s) = n
               PROVE  Stream[s] \in Seq(Byte)
    OBVIOUS
  <2>1. CASE s = <<>>
    BY <2>1, StreamAt, EmptySeq
  <2>2. CASE s # <<>>
    <3>1. /\ Head(s) \in Messages /\ Tail(s) \in Seq(Messages)
          /\ Len(Tail(s)) < n /\ Len(Tail(s)) \in Nat
      BY <2>2, FirstOfSeq
    <3>2. Stream[Tail(s)] \in Seq(Byte) /\ Packet(Head(s)) \in Seq(Byte)
      BY <3>1, <1>1, PacketIs
    <3>3. Stream[s] = Packet(Head(s)) \o Stream[Tail(s)]
      BY <2>2, StreamAt
    <3> QED BY <3>2, <3>3, ConcatIsSeq
  <2> QED BY <2>1, <2>2
<1>2. \A n \in Nat : n \in S
  <2> HIDE DEF S
  <2> QED BY <1>1, InductionOnNats
<1> QED BY <1>2, LenProperties

LEMMA StreamOfOneMore ==
  ASSUME NEW f \in Messages
  PROVE  \A s \in Seq(Messages) : Stream[Append(s, f)] = Stream[s] \o Packet(f)
<1> DEFINE S == {n \in Nat : \A s \in Seq(Messages) :
                   Len(s) = n => Stream[Append(s, f)] = Stream[s] \o Packet(f)}
<1>1. ASSUME NEW n \in Nat, \A m \in Nat : m < n => m \in S
      PROVE  n \in S
  <2> SUFFICES ASSUME NEW s \in Seq(Messages), Len(s) = n
               PROVE  Stream[Append(s, f)] = Stream[s] \o Packet(f)
    OBVIOUS
  <2> DEFINE a == Append(s, f)
  <2>1. a \in Seq(Messages) /\ a # <<>>
    BY AppendProperties
  <2>2. /\ Head(a) = IF s = <<>> THEN f ELSE Head(s)
        /\ Tail(a) = IF s = <<>> THEN <<>> ELSE Append(Tail(s), f)
    BY HeadTailAppend
  <2> HIDE DEF a
  <2>3. Stream[a] = Packet(Head(a)) \o Stream[Tail(a)]
    BY <2>1, StreamAt
  <2>4. Packet(f) \in Seq(Byte)
    BY PacketIs
  <2>5. CASE s = <<>>
    <3>1. Stream[s] = <<>> /\ Head(a) = f /\ Tail(a) = s
      BY <2>2, <2>5, StreamAt
    <3>2. Stream[a] = Packet(f) \o <<>>
      BY <2>3, <3>1, Zenon
    <3>3. Packet(f) \o <<>> = Packet(f) /\ <<>> \o Packet(f) = Packet(f)
      BY <2>4, ConcatEmptySeq
    <3>4. Stream[a] = Stream[s] \o Packet(f)
      BY <3>1, <3>2, <3>3, Zenon
    <3> QED BY <3>4 DEF a
  <2>6. CASE s # <<>>
    <3> DEFINE h == Packet(Head(s))
               t == Stream[Tail(s)]
    <3>1. Head(s) \in Messages /\ Tail(s) \in Seq(Messages) /\ Len(Tail(s)) < n /\ Len(Tail(s)) \in Nat
      BY <2>6, FirstOfSeq
    <3>2. h \in Seq(Byte) /\ t \in Seq(Byte)
      BY <3>1, PacketIs, StreamIsBytes
    <3>3. Head(a) = Head(s) /\ Tail(a) = Append(Tail(s), f)
      BY <2>2, <2>6
    <3>4. Stream[Append(Tail(s), f)] = t \o Packet(f)
      BY <3>1, <1>1
    <3>5. Stream[s] = h \o t
      BY <2>6, StreamAt
    <3>6. Stream[a] = h \o (t \o Packet(f))
      BY <2>3, <3>3, <3>4, Zenon
    <3> HIDE DEF h, t
    <3>7. (h \o t) \o Packet(f) = h \o (t \o Packet(f))
      BY <2>4, <3>2, ConcatAssociative, SMTT(60)
    <3>8. Stream[a] = Stream[s] \o Packet(f)
      BY <3>5, <3>6, <3>7, Zenon
    <3> QED BY <3>8 DEF a
  <2> QED BY <2>5, <2>6
<1>2. \A n \in Nat : n \in S
  <2> HIDE DEF S
  <2> QED BY <1>1, InductionOnNats
<1> QED BY <1>2, LenProperties

---------------------------------------------------------------------------
(* The types.                                                              *)

LEMMA TypeKept ==
  ASSUME TypeOK, [Next]_vars
  PROVE  TypeOK'
<1> USE DEF TypeOK
<1>0. Byte \ {LF} = Inner
  BY DEF Inner
<1>1. CASE Connect
  <2>1. <<>> \in Seq(Seq(Byte)) /\ <<>> \in Seq(Messages)
    BY EmptySeq
  <2>2. receivedData \in Seq(Byte)
    BY <1>0, InnerIsBytes
  <2> QED BY <1>1, <2>1, <2>2 DEF Connect
<1>2. CASE Drop
  <2>1. <<>> \in Seq(Byte)
    BY EmptySeq
  <2> QED BY <1>2, <2>1 DEF Drop
<1>3. ASSUME NEW m \in Messages, ModuleSends(m) PROVE TypeOK'
  <2>1. Packet(m) \in Seq(Byte)
    BY PacketIs
  <2>2. wire' \in Seq(Byte)
    BY <1>3, <2>1, ConcatIsSeq DEF ModuleSends
  <2>3. sent' \in Seq(Messages)
    BY <1>3, AppendProperties DEF ModuleSends
  <2>4. count' \in 0..MaxPackets
    BY <1>3, ReaderAssumption DEF ModuleSends
  <2> QED BY <1>3, <2>2, <2>3, <2>4 DEF ModuleSends
<1>4. ASSUME NEW k \in 1..Len(wire), Arrives(k) PROVE TypeOK'
  <2>1. k \in 0..Len(wire)
    BY LenProperties
  <2>2. SubSeq(wire, 1, k) \in Seq(Byte) /\ SubSeq(wire, k + 1, Len(wire)) \in Seq(Byte)
    BY <2>1, SplitOfSeq
  <2>3. avail' \in Seq(Byte) /\ wire' \in Seq(Byte)
    BY <1>4, <2>2, ConcatIsSeq DEF Arrives
  <2> QED BY <1>4, <2>3 DEF Arrives
<1>5. CASE ReadyRead
  <2> DEFINE data == receivedData \o avail
  <2>1. data \in Seq(Byte)
    BY <1>0, InnerIsBytes, ConcatIsSeq
  <2>2. got' = got \o LinesIn(data) /\ receivedData' = Rest(data) /\ avail' = <<>>
    BY <1>5 DEF ReadyRead
  <2> HIDE DEF data
  <2>3. LinesIn(data) \in Seq(Seq(Byte)) /\ Rest(data) \in Seq(Inner)
    BY <2>1, LinesAt, RestIsInner
  <2>4. got' \in Seq(Seq(Byte))
    <3>1. got \in Seq(Seq(Byte))
      OBVIOUS
    <3> HIDE DEF TypeOK
    <3> QED BY <2>2, <2>3, <3>1, ConcatIsSeq
  <2>5. receivedData' \in Seq(Byte \ {LF}) /\ avail' \in Seq(Byte)
    BY <2>2, <2>3, <1>0, EmptySeq
  <2> QED BY <1>5, <2>4, <2>5 DEF ReadyRead
<1>6. CASE UNCHANGED vars
  BY <1>6 DEF vars
<1> QED BY <1>1, <1>2, <1>3, <1>4, <1>5, <1>6 DEF Next

\* The types, and: what is kept for the next chunk has no line's end in it
\* (it100.cpp:95-103).
THEOREM TypeCorrect == Spec => []TypeOK
<1>1. Init => TypeOK
  <2> SUFFICES ASSUME Init PROVE TypeOK
    OBVIOUS
  <2>1. 0 \in 0..MaxPackets
    BY ReaderAssumption
  <2> QED BY <2>1, EmptySeq DEF Init, TypeOK
<1>2. TypeOK /\ [Next]_vars => TypeOK'
  BY TypeKept
<1> QED BY <1>1, <1>2, PTL DEF Spec

---------------------------------------------------------------------------
(* The lines of a beginning of the stream are the packets'.                *)

\* The lines ls, and the rest behind them, are those of messages with c before
\* the first; the bytes w follow.
Told(ls, rest, c, ms, w) ==
  /\ Len(ls) <= Len(ms)
  /\ \A i \in 1..Len(ls) : ls[i] = (IF i = 1 THEN c ELSE <<>>) \o Sealed(ms[i])
  /\ (IF Len(ls) = 0 THEN c ELSE <<>>) \o Stream[SubSeq(ms, Len(ls) + 1, Len(ms))] = rest \o w

Together(a, b, c) == (a \o b) \o c = a \o (b \o c)

LEMMA BytesTogether ==
  ASSUME NEW a \in Seq(Byte), NEW b \in Seq(Byte), NEW c \in Seq(Byte)
  PROVE  Together(a, b, c)
BY ConcatAssociative DEF Together

LEMMA OthersFrom ==
  ASSUME NEW S, NEW p \in Seq(S), NEW t \in Seq(S), Len(p) = 1, NEW k \in 0..Len(t)
  PROVE  SubSeq(p \o t, k + 2, Len(t) + 1) = SubSeq(t, k + 1, Len(t))
<1>1. Len(t) \in Nat /\ k \in Nat
  BY LenProperties
<1>2. CASE k = Len(t)
  <2>1. /\ k + 1 \in Int /\ k + 2 \in Int /\ Len(t) \in Int /\ Len(t) + 1 \in Int
        /\ Len(t) < k + 1 /\ Len(t) + 1 < k + 2
    BY <1>1, <1>2
  <2> QED BY <2>1, SubSeqEmpty
<1>3. CASE k # Len(t)
  <2>1. /\ k + 2 \in (Len(p) + 1)..(Len(p) + Len(t))
        /\ Len(t) + 1 \in (Len(p) + 1)..(Len(p) + Len(t))
        /\ k + 2 - Len(p) = k + 1 /\ Len(t) + 1 - Len(p) = Len(t)
    BY <1>1, <1>3
  <2> DEFINE m == k + 2
             n == Len(t) + 1
  <2>2. m \in (Len(p) + 1)..(Len(p) + Len(t)) /\ n \in (Len(p) + 1)..(Len(p) + Len(t))
    BY <2>1
  <2> HIDE DEF m, n
  <2>3. SubSeq(p \o t, m, n) = SubSeq(t, m - Len(p), n - Len(p))
    BY <2>2, SubSeqOfConcat2
  <2>4. m - Len(p) = k + 1 /\ n - Len(p) = Len(t)
    BY <2>1 DEF m, n
  <2>5. SubSeq(p \o t, m, n) = SubSeq(t, k + 1, Len(t))
    BY <2>3, <2>4, Zenon
  <2> QED BY <2>5, Zenon DEF m, n
<1> QED BY <1>2, <1>3

\* The first line of the stream, when it has been read.
LEMMA FirstLineTold ==
  ASSUME NEW s \in Seq(Byte), NEW w \in Seq(Byte), NEW c \in Seq(Inner), NEW ms \in Seq(Messages),
         c \o Stream[ms] = s \o w, LineEnds(s) # {}
  PROVE  /\ ms # <<>> /\ FirstLine(s) = c \o Sealed(Head(ms))
         /\ <<>> \o Stream[Tail(ms)] = Behind(s) \o w
<1> DEFINE a == SubSeq(s, 1, Min(LineEnds(s)) - 1)
           b == Behind(s)
           l == <<LF>>
           x == a \o l
<1>1. Parts(s, a, b)
  BY LineEndParts
<1> HIDE DEF a, b
<1>2. a \in Seq(Inner) /\ a \in Seq(Byte) /\ b \in Seq(Byte) /\ c \in Seq(Byte) /\ s = x \o b
  BY <1>1, InnerIsBytes DEF Parts
<1>3. x \in Seq(Byte) /\ l \in Seq(Byte)
  BY <1>2, InnerIsBytes, ConcatIsSeq
<1> HIDE DEF x
<1>4. s \o w = x \o (b \o w)
  <2>1. x \in Seq(Byte) /\ b \in Seq(Byte) /\ w \in Seq(Byte)
    BY <1>2, <1>3
  <2>2. Together(x, b, w)
    BY <2>1, BytesTogether
  <2> QED BY <2>2, <1>2, Zenon DEF Together
<1>5. b \o w \in Seq(Byte)
  BY <1>2, ConcatIsSeq
<1>6. Parts(s \o w, a, b \o w)
  BY <1>2, <1>4, <1>5, Zenon DEF Parts, x
<1>7. ms # <<>>
  <2> SUFFICES ASSUME ms = <<>> PROVE FALSE
    OBVIOUS
  <2>1. c \o Stream[ms] = c
    <3>1. Stream[ms] = <<>>
      BY StreamAt
    <3>2. c \o <<>> = c
      BY ConcatEmptySeq
    <3> QED BY <3>1, <3>2, Zenon
  <2>2. Parts(c, a, b \o w)
    BY <2>1, <1>6, Zenon
  <2>3. LineEnds(c) # {}
    BY <2>2, PartsAreAt
  <2> QED BY <1>2, <2>3, NoLineEnd
<1> DEFINE m == Head(ms)
           others == Stream[Tail(ms)]
           z == Sealed(m)
           r == <<CR>>
           y == z \o r
<1>8. m \in Messages /\ Tail(ms) \in Seq(Messages)
  BY <1>7, FirstOfSeq
<1>9. /\ z \in Seq(Inner) /\ r \in Seq(Inner) /\ y \in Seq(Inner) /\ others \in Seq(Byte)
      /\ Stream[ms] = (y \o l) \o others
  <2>1. Stream[ms] = Packet(m) \o others
    BY <1>7, StreamAt
  <2>2. Packet(m) = y \o l /\ z \in Seq(Inner) /\ y \in Seq(Inner)
    BY <1>8, PacketIs
  <2>3. r \in Seq(Inner) /\ others \in Seq(Byte)
    BY <1>8, InnerIsBytes, StreamIsBytes
  <2> HIDE DEF y, z, r, l, others, m
  <2> QED BY <2>1, <2>2, <2>3, Zenon
<1> HIDE DEF m, others, z, r, y, l
<1>10. z \in Seq(Byte) /\ r \in Seq(Byte) /\ y \in Seq(Byte)
  BY <1>9, InnerIsBytes
<1>11. c \o y \in Seq(Inner) /\ c \o y \in Seq(Byte) /\ (c \o y) \o l \in Seq(Byte)
       /\ y \o l \in Seq(Byte) /\ c \o z \in Seq(Byte)
  <2>1. c \o y \in Seq(Inner) /\ c \o y \in Seq(Byte) /\ y \o l \in Seq(Byte) /\ c \o z \in Seq(Byte)
    BY <1>2, <1>3, <1>9, <1>10, ConcatIsSeq
  <2> QED BY <2>1, <1>3, ConcatIsSeq
<1>12. c \o Stream[ms] = ((c \o y) \o l) \o others
  <2>0. /\ c \in Seq(Byte) /\ y \in Seq(Byte) /\ l \in Seq(Byte) /\ others \in Seq(Byte)
        /\ y \o l \in Seq(Byte)
    BY <1>2, <1>3, <1>9, <1>10, <1>11
  <2>1. Together(c, y \o l, others) /\ Together(c, y, l)
    BY <2>0, BytesTogether
  <2> QED BY <2>1, <1>9, Zenon DEF Together
<1>13. Parts(s \o w, c \o y, others)
  BY <1>9, <1>11, <1>12, Zenon DEF Parts, l
<1>14. a = c \o y /\ b \o w = others
  BY <1>6, <1>13, SameParts
<1>15. c \o y = (c \o z) \o r
  <2>1. c \in Seq(Byte) /\ z \in Seq(Byte) /\ r \in Seq(Byte)
    BY <1>2, <1>10
  <2>2. Together(c, z, r)
    BY <2>1, BytesTogether
  <2> QED BY <2>2, Zenon DEF y, Together
<1>16. FirstLine(s) = c \o z
  <2>1. Chomped((c \o z) \o r) = c \o z
    BY <1>11, ChompedIs DEF r
  <2>2. FirstLine(s) = Chomped(a)
    BY DEF FirstLine, a
  <2> QED BY <2>1, <2>2, <1>14, <1>15, Zenon
<1>17. <<>> \o others = others
  BY <1>9, ConcatEmptySeq
<1> QED BY <1>7, <1>14, <1>16, <1>17 DEF z, m, others, b

LEMMA LinesAreTold ==
  \A s \in Seq(Byte) : \A w \in Seq(Byte), c \in Seq(Inner), ms \in Seq(Messages) :
    c \o Stream[ms] = s \o w => Told(LinesIn(s), Rest(s), c, ms, w)
<1> DEFINE Good(s) == \A w \in Seq(Byte), c \in Seq(Inner), ms \in Seq(Messages) :
                        c \o Stream[ms] = s \o w => Told(LinesIn(s), Rest(s), c, ms, w)
           S == {n \in Nat : \A s \in Seq(Byte) : Len(s) = n => Good(s)}
<1>1. ASSUME NEW n \in Nat, \A m \in Nat : m < n => m \in S
      PROVE  n \in S
  <2> SUFFICES ASSUME NEW s \in Seq(Byte), Len(s) = n,
                      NEW w \in Seq(Byte), NEW c \in Seq(Inner), NEW ms \in Seq(Messages),
                      c \o Stream[ms] = s \o w
               PROVE  Told(LinesIn(s), Rest(s), c, ms, w)
    OBVIOUS
  <2>1. CASE LineEnds(s) = {}
    <3>1. LinesIn(s) = <<>> /\ Rest(s) = s
      BY <2>1, LinesAt
    <3>2. Len(<<>>) = 0 /\ Len(ms) \in Nat /\ SubSeq(ms, 1, Len(ms)) = ms
      BY LenProperties, SubSeqFull
    <3>3. 1..0 = {} /\ 0 + 1 = 1 /\ 0 <= Len(ms)
      BY <3>2
    <3>4. Told(<<>>, s, c, ms, w)
      BY <3>2, <3>3 DEF Told
    <3> QED BY <3>1, <3>4, Zenon
  <2>2. CASE LineEnds(s) # {}
    <3> DEFINE others == Tail(ms)
               ls == LinesIn(Behind(s))
               f == <<FirstLine(s)>>
               k == Len(ls)
               n2 == Len(others)
    <3>1. /\ ms # <<>> /\ FirstLine(s) = c \o Sealed(Head(ms))
          /\ <<>> \o Stream[others] = Behind(s) \o w
      BY <2>2, FirstLineTold, ZenonT(60)
    <3>2. /\ Behind(s) \in Seq(Byte) /\ Len(Behind(s)) < n /\ Len(Behind(s)) \in Nat
          /\ FirstLine(s) \in Seq(Byte)
      BY <2>2, FirstLineIs
    <3>3. /\ others \in Seq(Messages) /\ Len(ms) = n2 + 1 /\ n2 \in Nat /\ Head(ms) = ms[1]
          /\ \A i \in 1..n2 : others[i] = ms[i + 1]
      BY <3>1, FirstOfSeq, HeadTailProperties, LenProperties
    <3>4. Good(Behind(s))
      <4> HIDE DEF Good
      <4> QED BY <3>2, <1>1
    <3>5. Told(ls, Rest(Behind(s)), <<>>, others, w)
      <4>1. <<>> \in Seq(Inner)
        BY EmptySeq
      <4> QED BY <4>1, <3>1, <3>3, <3>4
    <3>6. ls \in Seq(Seq(Byte)) /\ k \in Nat
      BY <3>2, LinesAt
    <3>7. LinesIn(s) = f \o ls /\ Rest(s) = Rest(Behind(s))
      BY <2>2, LinesAt
    <3>8. f \in Seq(Seq(Byte)) /\ Len(f) = 1 /\ f[1] = FirstLine(s)
      BY <3>2, SeqOfOne
    <3> HIDE DEF f, ls, others
    <3>9. Len(f \o ls) = k + 1
      <4>1. Len(f \o ls) = Len(f) + Len(ls)
        BY <3>6, <3>8, ConcatIsSeq
      <4> QED BY <4>1, <3>6, <3>8
    <3>10. k <= n2
      BY <3>5 DEF Told
    <3>11. ASSUME NEW i \in 1..(k + 1)
           PROVE  (f \o ls)[i] = (IF i = 1 THEN c ELSE <<>>) \o Sealed(ms[i])
      <4>1. (f \o ls)[i] = IF i <= 1 THEN f[i] ELSE ls[i - 1]
        <5>1. i \in 1..(Len(f) + Len(ls))
          BY <3>6, <3>8
        <5>2. (f \o ls)[i] = IF i <= Len(f) THEN f[i] ELSE ls[i - Len(f)]
          BY <5>1, <3>6, <3>8, ConcatProperties
        <5> QED BY <5>2, <3>8
      <4>2. CASE i = 1
        <5>1. (f \o ls)[i] = FirstLine(s)
          BY <4>1, <4>2, <3>8
        <5> QED BY <5>1, <4>2, <3>1, <3>3, Zenon
      <4>3. CASE i # 1
        <5>1. ~(i <= 1) /\ i - 1 \in 1..k /\ i - 1 \in 1..n2 /\ i - 1 + 1 = i
          BY <4>3, <3>3, <3>6, <3>10
        <5>2. ls[i - 1] = (IF i - 1 = 1 THEN <<>> ELSE <<>>) \o Sealed(others[i - 1])
          BY <3>5, <5>1 DEF Told
        <5>3. others[i - 1] = ms[i]
          BY <3>3, <5>1
        <5> QED BY <4>1, <4>3, <5>1, <5>2, <5>3, Zenon
      <4> QED BY <4>2, <4>3
    <3>12. SubSeq(others, k + 1, n2) = SubSeq(ms, k + 2, n2 + 1)
      <4> DEFINE p == <<Head(ms)>>
      <4>1. ms = p \o others
        BY <3>1, FirstAndOthers DEF others
      <4>2. p \in Seq(Messages) /\ Len(p) = 1
        BY <3>1, FirstOfSeq, SeqOfOne
      <4> HIDE DEF p
      <4>3. k \in 0..Len(others) /\ others \in Seq(Messages) /\ k + 2 \in Nat
        BY <3>3, <3>6, <3>10
      <4>4. SubSeq(p \o others, k + 2, Len(others) + 1) = SubSeq(others, k + 1, Len(others))
        <5> HIDE DEF k
        <5> QED BY <4>2, <4>3, OthersFrom
      <4> QED BY <4>1, <4>4, Zenon
    <3>13. Stream[SubSeq(others, k + 1, n2)] \in Seq(Byte)
           /\ <<>> \o Stream[SubSeq(others, k + 1, n2)] = Rest(Behind(s)) \o w
      <4>1. k \in 0..Len(others)
        BY <3>3, <3>6, <3>10
      <4>2. SubSeq(others, k + 1, Len(others)) \in Seq(Messages)
        BY <4>1, <3>3, SplitOfSeq
      <4>3. (IF k = 0 THEN <<>> ELSE <<>>) \o Stream[SubSeq(others, k + 1, n2)] = Rest(Behind(s)) \o w
        BY <3>5 DEF Told
      <4> QED BY <4>2, <4>3, StreamIsBytes
    <3>14. <<>> \o Stream[SubSeq(ms, (k + 1) + 1, Len(ms))] = Rest(s) \o w
      <4>1. (k + 1) + 1 = k + 2 /\ Len(ms) = n2 + 1
        BY <3>3, <3>6
      <4> QED BY <4>1, <3>7, <3>12, <3>13, Zenon
    <3>15. Told(f \o ls, Rest(s), c, ms, w)
      <4>1. k + 1 <= Len(ms) /\ k + 1 # 0
        BY <3>3, <3>6, <3>10
      <4> DEFINE t == f \o ls
      <4> HIDE DEF t
      <4>2. Len(t) = k + 1 /\ \A i \in 1..(k + 1) : t[i] = (IF i = 1 THEN c ELSE <<>>) \o Sealed(ms[i])
        BY <3>9, <3>11 DEF t
      <4>3. Told(t, Rest(s), c, ms, w)
        BY <4>1, <4>2, <3>14, Zenon DEF Told
      <4> QED BY <4>3 DEF t
    <3> QED BY <3>7, <3>15, Zenon
  <2> QED BY <2>1, <2>2
<1>2. \A n \in Nat : n \in S
  <2> HIDE DEF S
  <2> QED BY <1>1, InductionOnNats
<1>3. \A s \in Seq(Byte) : Good(s)
  <2> HIDE DEF Good
  <2> QED BY <1>2, LenProperties
<1> QED BY <1>3

---------------------------------------------------------------------------
(* What has been handed on, what is kept and what is under way are what the *)
(* module has sent.                                                        *)

Unsent == SubSeq(sent, Len(got) + 1, Len(sent))

\* What is in front of the next line.
Front == IF Len(got) = 0 THEN carry ELSE <<>>

LinesInv ==
  /\ carry \in Seq(Inner)
  /\ ~up => wire = <<>> /\ avail = <<>>
  /\ Len(got) <= Len(sent)
  /\ \A i \in 1..Len(got) : got[i] = (IF i = 1 THEN carry ELSE <<>>) \o Sealed(sent[i])
  /\ up => Front \o Stream[Unsent] = (receivedData \o avail) \o wire

LEMMA TypedLines ==
  ASSUME TypeOK, LinesInv
  PROVE  /\ wire \in Seq(Byte) /\ avail \in Seq(Byte)
         /\ receivedData \in Seq(Inner) /\ receivedData \in Seq(Byte)
         /\ receivedData \o avail \in Seq(Byte)
         /\ Front \in Seq(Inner) /\ Front \in Seq(Byte)
         /\ sent \in Seq(Messages) /\ got \in Seq(Seq(Byte))
         /\ Len(got) \in Nat /\ Len(sent) \in Nat
         /\ Unsent \in Seq(Messages) /\ Len(Unsent) = Len(sent) - Len(got)
         /\ SubSeq(sent, 1, Len(got)) \in Seq(Messages)
         /\ Len(SubSeq(sent, 1, Len(got))) = Len(got)
         /\ sent = SubSeq(sent, 1, Len(got)) \o Unsent
<1>1. /\ wire \in Seq(Byte) /\ avail \in Seq(Byte) /\ receivedData \in Seq(Inner)
      /\ sent \in Seq(Messages) /\ got \in Seq(Seq(Byte))
  BY DEF TypeOK, Inner
<1>2. receivedData \in Seq(Byte)
  BY <1>1, InnerIsBytes
<1>3. receivedData \o avail \in Seq(Byte)
  BY <1>1, <1>2, ConcatIsSeq
<1>4. Front \in Seq(Inner)
  BY EmptySeq DEF Front, LinesInv
<1>5. Front \in Seq(Byte)
  BY <1>4, InnerIsBytes
<1>6. Len(got) \in Nat /\ Len(sent) \in Nat
  BY <1>1, LenProperties
<1>7. Len(got) \in 0..Len(sent)
  BY <1>6 DEF LinesInv
<1>8. /\ Unsent \in Seq(Messages) /\ Len(Unsent) = Len(sent) - Len(got)
      /\ SubSeq(sent, 1, Len(got)) \in Seq(Messages)
      /\ Len(SubSeq(sent, 1, Len(got))) = Len(got)
      /\ sent = SubSeq(sent, 1, Len(got)) \o Unsent
  BY <1>1, <1>7, SplitOfSeq, ZenonT(60) DEF Unsent
<1> QED BY <1>1, <1>2, <1>3, <1>4, <1>5, <1>6, <1>8

LEMMA ConnectKeepsLines ==
  ASSUME TypeOK, LinesInv, Connect
  PROVE  LinesInv'
<1>1. /\ ~up /\ got' = <<>> /\ sent' = <<>> /\ carry' = receivedData
      /\ wire' = wire /\ avail' = avail /\ receivedData' = receivedData
  BY DEF Connect
<1>2. wire' = <<>> /\ avail' = <<>> /\ receivedData \in Seq(Inner) /\ receivedData \in Seq(Byte)
  BY <1>1, TypedLines DEF LinesInv
<1>3. Len(got') = 0 /\ Len(sent') = 0 /\ sent' \in Seq(Messages)
  BY <1>1, EmptySeq
<1>4. Stream[Unsent'] = <<>> /\ Front' = receivedData
  <2>1. SubSeq(sent', 0 + 1, 0) = <<>>
    BY SubSeqEmpty
  <2>2. Unsent' = <<>>
    BY <1>3, <2>1 DEF Unsent
  <2>3. Front' = receivedData
    BY <1>1, <1>3 DEF Front
  <2> QED BY <2>2, <2>3, StreamAt, EmptySeq
<1>5. Front' \o Stream[Unsent'] = (receivedData' \o avail') \o wire'
  <2>1. receivedData \o <<>> = receivedData
    BY <1>2, ConcatEmptySeq
  <2> QED BY <2>1, <1>1, <1>2, <1>4, Zenon
<1>6. 1..0 = {}
  OBVIOUS
<1>7. /\ Len(got') <= Len(sent') /\ carry' \in Seq(Inner)
      /\ \A i \in 1..Len(got') : got'[i] = (IF i = 1 THEN carry' ELSE <<>>) \o Sealed(sent'[i])
  BY <1>1, <1>2, <1>3, <1>6
<1> QED BY <1>2, <1>5, <1>7 DEF LinesInv

\* A packet more is a packet more that is no line yet.
LEMMA SendKeepsLines ==
  ASSUME TypeOK, LinesInv, NEW m \in Messages, ModuleSends(m)
  PROVE  LinesInv'
<1> DEFINE read == SubSeq(sent, 1, Len(got))
           more == Append(Unsent, m)
           data == receivedData \o avail
<1>1. /\ up /\ up' = up /\ sent' = Append(sent, m) /\ wire' = wire \o Packet(m)
      /\ got' = got /\ carry' = carry /\ avail' = avail /\ receivedData' = receivedData
  BY DEF ModuleSends
<1>2. /\ sent \in Seq(Messages) /\ Unsent \in Seq(Messages) /\ read \in Seq(Messages)
      /\ Len(read) = Len(got) /\ sent = read \o Unsent /\ Len(got) \in Nat /\ Len(sent) \in Nat
  BY TypedLines
<1>3. /\ Len(got) <= Len(sent) /\ carry \in Seq(Inner)
      /\ \A i \in 1..Len(got) : got[i] = (IF i = 1 THEN carry ELSE <<>>) \o Sealed(sent[i])
      /\ Front \o Stream[Unsent] = data \o wire
  BY <1>1 DEF LinesInv
<1> HIDE DEF read
<1>4. /\ sent' \in Seq(Messages) /\ Len(sent') = Len(sent) + 1
      /\ \A i \in 1..Len(sent) : sent'[i] = sent[i]
  BY <1>1, <1>2, AppendProperties
<1>5. sent' = read \o more /\ more \in Seq(Messages)
  <2> DEFINE one == <<m>>
  <2>1. one \in Seq(Messages)
    BY SeqOfOne
  <2>2. sent' = sent \o one /\ more = Unsent \o one
    BY <1>1, <1>2, AppendIsConcat
  <2> HIDE DEF one
  <2>3. (read \o Unsent) \o one = read \o (Unsent \o one) /\ Unsent \o one \in Seq(Messages)
    BY <1>2, <2>1, ConcatAssociative, ConcatIsSeq
  <2> QED BY <1>2, <2>2, <2>3
<1>6. SubSeq(sent', Len(got) + 1, Len(sent')) = more
  <2> HIDE DEF more
  <2> QED BY <1>2, <1>5, SplitOfConcat
<1>7. Unsent' = more /\ Front' = Front
  BY <1>1, <1>6 DEF Unsent, Front
<1>8. Stream[more] = Stream[Unsent] \o Packet(m)
  BY <1>2, StreamOfOneMore
<1>9. Front' \o Stream[Unsent'] = (receivedData' \o avail') \o wire'
  <2> DEFINE s == Stream[Unsent]
             p == Packet(m)
  <2>1. /\ Front \in Seq(Byte) /\ s \in Seq(Byte) /\ p \in Seq(Byte) /\ data \in Seq(Byte)
        /\ wire \in Seq(Byte)
    BY <1>2, TypedLines, StreamIsBytes, PacketIs
  <2> HIDE DEF s, p, data
  <2>2. Together(Front, s, p) /\ Together(data, wire, p)
    BY <2>1, BytesTogether
  <2>3. Front \o s = data \o wire
    BY <1>3 DEF s
  <2>4. Front \o (s \o p) = data \o (wire \o p)
    BY <2>2, <2>3, Zenon DEF Together
  <2> HIDE DEF more
  <2> QED BY <2>4, <1>1, <1>7, <1>8, Zenon DEF s, p, data
<1>10. \A i \in 1..Len(got') : got'[i] = (IF i = 1 THEN carry' ELSE <<>>) \o Sealed(sent'[i])
  <2>1. \A i \in 1..Len(got) : i \in 1..Len(sent)
    BY <1>2, <1>3
  <2> QED BY <2>1, <1>1, <1>3, <1>4
<1>11. Len(got') <= Len(sent') /\ carry' \in Seq(Inner) /\ up'
  BY <1>1, <1>2, <1>3, <1>4
<1> QED BY <1>9, <1>10, <1>11 DEF LinesInv

\* Bytes that arrive are still in their order.
LEMMA ArrivalKeepsLines ==
  ASSUME TypeOK, LinesInv, NEW k \in 1..Len(wire), Arrives(k)
  PROVE  LinesInv'
<1> DEFINE a == SubSeq(wire, 1, k)
           b == SubSeq(wire, k + 1, Len(wire))
<1>1. /\ avail' = avail \o a /\ wire' = b /\ up' = up /\ got' = got /\ sent' = sent
      /\ carry' = carry /\ receivedData' = receivedData
  BY DEF Arrives
<1>2. wire \in Seq(Byte) /\ Len(wire) \in Nat /\ avail \in Seq(Byte) /\ receivedData \in Seq(Byte)
      /\ receivedData \o avail \in Seq(Byte)
  BY TypedLines, LenProperties
<1>3. a \in Seq(Byte) /\ b \in Seq(Byte) /\ wire = a \o b
  <2>1. k \in 0..Len(wire)
    BY <1>2
  <2> QED BY <1>2, <2>1, SplitOfSeq
<1>4. up
  <2>1. wire # <<>>
    BY <1>2, EmptySeq
  <2> QED BY <2>1 DEF LinesInv
<1> HIDE DEF a, b
<1>5. (receivedData \o avail) \o wire = (receivedData' \o avail') \o wire'
  <2> DEFINE r == receivedData
             d == r \o avail
  <2> HIDE DEF d
  <2>1. r \in Seq(Byte) /\ d \in Seq(Byte) /\ avail \in Seq(Byte) /\ a \in Seq(Byte) /\ b \in Seq(Byte)
    BY <1>2, <1>3 DEF d
  <2>2. Together(d, a, b) /\ Together(r, avail, a)
    BY <2>1, BytesTogether
  <2>3. (r \o (avail \o a)) \o b = (r \o avail) \o (a \o b)
    BY <2>2, Zenon DEF Together, d
  <2> QED BY <2>3, <1>1, <1>3, Zenon
<1>6. Unsent' = Unsent /\ Front' = Front
  BY <1>1 DEF Unsent, Front
<1>7. Front' \o Stream[Unsent'] = (receivedData' \o avail') \o wire'
  <2>1. Front \o Stream[Unsent] = (receivedData \o avail) \o wire
    BY <1>4 DEF LinesInv
  <2> QED BY <2>1, <1>5, <1>6, Zenon
<1>8. /\ carry' \in Seq(Inner) /\ Len(got') <= Len(sent') /\ up'
      /\ \A i \in 1..Len(got') : got'[i] = (IF i = 1 THEN carry' ELSE <<>>) \o Sealed(sent'[i])
  BY <1>1, <1>4 DEF LinesInv
<1> QED BY <1>7, <1>8 DEF LinesInv

\* What is read becomes the lines of the next packets, and the beginning of the
\* one after them.
LEMMA ReadKeepsLines ==
  ASSUME TypeOK, LinesInv, ReadyRead
  PROVE  LinesInv'
<1> DEFINE data == receivedData \o avail
           ls == LinesIn(data)
           rest == Rest(data)
           k == Len(ls)
           n == Len(got)
           read == SubSeq(sent, 1, n)
           a == SubSeq(Unsent, 1, k)
           b == SubSeq(Unsent, k + 1, Len(Unsent))
<1>1. /\ avail # <<>> /\ got' = got \o ls /\ receivedData' = rest /\ avail' = <<>>
      /\ up' = up /\ wire' = wire /\ sent' = sent /\ carry' = carry
  BY DEF ReadyRead
<1>2. up
  BY <1>1 DEF LinesInv
<1>3. /\ data \in Seq(Byte) /\ wire \in Seq(Byte) /\ Front \in Seq(Inner)
      /\ sent \in Seq(Messages) /\ got \in Seq(Seq(Byte)) /\ n \in Nat /\ Len(sent) \in Nat
      /\ Unsent \in Seq(Messages) /\ Len(Unsent) = Len(sent) - n
      /\ read \in Seq(Messages) /\ Len(read) = n /\ sent = read \o Unsent
  BY TypedLines
<1>4. /\ n <= Len(sent) /\ carry \in Seq(Inner)
      /\ \A i \in 1..n : got[i] = (IF i = 1 THEN carry ELSE <<>>) \o Sealed(sent[i])
      /\ Front \o Stream[Unsent] = data \o wire
  BY <1>2 DEF LinesInv
<1> HIDE DEF data, read
<1>5. ls \in Seq(Seq(Byte)) /\ k \in Nat /\ rest \in Seq(Byte)
  BY <1>3, LinesAt, RestIsInner, InnerIsBytes
<1>6. Told(ls, rest, Front, Unsent, wire)
  BY <1>3, <1>4, LinesAreTold
<1> HIDE DEF ls, rest
<1>7. /\ k <= Len(Unsent)
      /\ \A i \in 1..k : ls[i] = (IF i = 1 THEN Front ELSE <<>>) \o Sealed(Unsent[i])
      /\ (IF k = 0 THEN Front ELSE <<>>) \o Stream[b] = rest \o wire
  BY <1>6 DEF Told
<1>8. Len(got') = n + k
  <2>1. Len(got \o ls) = Len(got) + Len(ls)
    BY <1>3, <1>5, ConcatIsSeq
  <2> QED BY <2>1, <1>1
<1>9. Front' = IF k = 0 THEN Front ELSE <<>>
  BY <1>1, <1>3, <1>5, <1>8 DEF Front
<1>10. a \in Seq(Messages) /\ Len(a) = k /\ b \in Seq(Messages) /\ Unsent = a \o b
  <2>1. k \in 0..Len(Unsent)
    BY <1>3, <1>5, <1>7
  <2> QED BY <2>1, <1>3, SplitOfSeq
<1> HIDE DEF a, b, k, n
<1>11. Unsent' = b
  <2> DEFINE c == read \o a
  <2>1. c \in Seq(Messages) /\ Len(c) = n + k
    <3>1. c \in Seq(Messages) /\ Len(c) = Len(read) + Len(a)
      BY <1>3, <1>10, ConcatIsSeq
    <3> QED BY <3>1, <1>3, <1>10
  <2>2. sent = c \o b
    <3>1. (read \o a) \o b = read \o (a \o b)
      <4>1. read \in Seq(Messages) /\ a \in Seq(Messages) /\ b \in Seq(Messages)
        BY <1>3, <1>10
      <4> QED BY <4>1, ConcatAssociative, SMTT(60)
    <3> QED BY <3>1, <1>3, <1>10, Zenon
  <2> HIDE DEF c
  <2>3. SubSeq(sent, n + k + 1, Len(sent)) = b
    BY <2>1, <2>2, <1>10, SplitOfConcat
  <2>4. Unsent' = SubSeq(sent, n + k + 1, Len(sent))
    BY <1>1, <1>8 DEF Unsent
  <2> QED BY <2>3, <2>4
<1>12. Front' \o Stream[Unsent'] = (receivedData' \o avail') \o wire'
  <2>1. rest \o <<>> = rest
    BY <1>5, ConcatEmptySeq
  <2> QED BY <2>1, <1>1, <1>7, <1>9, <1>11, Zenon
<1>13. ASSUME NEW i \in 1..(n + k)
       PROVE  (got \o ls)[i] = (IF i = 1 THEN carry ELSE <<>>) \o Sealed(sent[i])
  <2>1. (got \o ls)[i] = IF i <= n THEN got[i] ELSE ls[i - n]
    <3>1. i \in 1..(Len(got) + Len(ls))
      BY DEF n, k
    <3> QED BY <3>1, <1>3, <1>5, ConcatProperties DEF n
  <2>2. CASE i <= n
    <3>1. i \in 1..n
      BY <2>2, <1>3
    <3> QED BY <2>1, <2>2, <3>1, <1>4
  <2>3. CASE ~(i <= n)
    <3>1. i - n \in 1..k /\ i \in 1..(Len(read) + Len(Unsent)) /\ ~(i <= Len(read)) /\ i - Len(read) = i - n
      BY <2>3, <1>3, <1>4, <1>5, <1>7 DEF k
    <3>2. ls[i - n] = (IF i - n = 1 THEN Front ELSE <<>>) \o Sealed(Unsent[i - n])
      BY <3>1, <1>7
    <3>3. sent[i] = Unsent[i - n]
      <4>1. (read \o Unsent)[i] = Unsent[i - Len(read)]
        BY <3>1, <1>3, ConcatProperties
      <4> QED BY <4>1, <3>1, <1>3, Zenon
    <3>4. (IF i - n = 1 THEN Front ELSE <<>>) = (IF i = 1 THEN carry ELSE <<>>)
      <4>1. CASE n = 0
        BY <4>1, <3>1 DEF Front, n
      <4>2. CASE n # 0
        <5>1. Front = <<>> /\ i # 1
          BY <4>2, <2>3, <1>3 DEF Front, n
        <5> QED BY <5>1
      <4> QED BY <4>1, <4>2
    <3> QED BY <2>1, <2>3, <3>2, <3>3, <3>4, Zenon
  <2> QED BY <2>2, <2>3
<1>14. /\ \A i \in 1..Len(got') : got'[i] = (IF i = 1 THEN carry' ELSE <<>>) \o Sealed(sent'[i])
       /\ Len(got') <= Len(sent') /\ carry' \in Seq(Inner) /\ up'
  <2>1. n + k <= Len(sent)
    BY <1>3, <1>5, <1>7 DEF k
  <2> QED BY <2>1, <1>1, <1>2, <1>4, <1>8, <1>13
<1> QED BY <1>12, <1>14 DEF LinesInv

LEMMA LinesKept ==
  ASSUME TypeOK, LinesInv, [Next]_vars
  PROVE  LinesInv'
<1>1. CASE Connect
  BY <1>1, ConnectKeepsLines
<1>2. CASE Drop
  BY <1>2 DEF Drop, LinesInv
<1>3. ASSUME NEW m \in Messages, ModuleSends(m) PROVE LinesInv'
  BY <1>3, SendKeepsLines
<1>4. ASSUME NEW k \in 1..Len(wire), Arrives(k) PROVE LinesInv'
  BY <1>4, ArrivalKeepsLines
<1>5. CASE ReadyRead
  BY <1>5, ReadKeepsLines
<1>6. CASE UNCHANGED vars
  BY <1>6 DEF vars, LinesInv, Front, Unsent
<1> QED BY <1>1, <1>2, <1>3, <1>4, <1>5, <1>6 DEF Next

LEMMA LinesHold == Spec => [](TypeOK /\ LinesInv)
<1>1. Init => LinesInv
  <2> SUFFICES ASSUME Init PROVE LinesInv
    OBVIOUS
  <2>1. up = FALSE /\ wire = <<>> /\ avail = <<>> /\ got = <<>> /\ sent = <<>> /\ carry = <<>>
    BY DEF Init
  <2>2. Len(got) = 0 /\ Len(sent) = 0 /\ carry \in Seq(Inner)
    BY <2>1, EmptySeq
  <2>3. 1..0 = {}
    OBVIOUS
  <2> QED BY <2>1, <2>2, <2>3 DEF LinesInv
<1>2. TypeOK /\ LinesInv /\ [Next]_vars => LinesInv'
  BY LinesKept
<1> QED BY <1>1, <1>2, TypeCorrect, PTL DEF Spec

\* Whatever the messages and the chunks, the lines handed on are the packets
\* sent, and nothing is lost between two connections but the rest of a line,
\* which comes in front of the next (it100.cpp:83-111).
THEOREM LinesAreAsSent == Spec => []LinesAreSent
<1>1. TypeOK /\ LinesInv => LinesAreSent
  <2> SUFFICES ASSUME TypeOK, LinesInv PROVE LinesAreSent
    OBVIOUS
  <2>1. DOMAIN got = 1..Len(got) /\ DOMAIN sent = 1..Len(sent)
    BY TypedLines, LenProperties
  <2>2. \A i \in 1..Len(got) : i \in 1..Len(sent)
    BY TypedLines DEF LinesInv
  <2>3. up => (IF Len(got) = 0 THEN carry ELSE <<>>) \o Stream[SubSeq(sent, Len(got) + 1, Len(sent))]
              = (receivedData \o avail) \o wire
    BY DEF LinesInv, Front, Unsent
  <2> QED BY <2>1, <2>2, <2>3 DEF LinesInv, LinesAreSent
<1> QED BY <1>1, LinesHold, PTL

\* A line without the end of another in front has the checksum that a receiver
\* would look for, whatever the message's length (it100message.cpp:37-60).
THEOREM LinesHaveTheirSum == Spec => []LinesVerify
<1>1. TypeOK /\ LinesInv => LinesVerify
  <2> SUFFICES ASSUME TypeOK, LinesInv, NEW i \in DOMAIN got, i > 1 \/ carry = <<>>
               PROVE  Verifies(got[i])
    BY DEF LinesVerify
  <2>1. i \in 1..Len(got) /\ i \in 1..Len(sent)
    BY TypedLines, LenProperties DEF LinesInv
  <2>2. got[i] = (IF i = 1 THEN carry ELSE <<>>) \o Sealed(sent[i])
    BY <2>1 DEF LinesInv
  <2>3. (IF i = 1 THEN carry ELSE <<>>) = <<>>
    BY <2>1
  <2>4. sent[i] \in Messages
    BY <2>1, TypedLines, ElementOfSeq
  <2>5. Sealed(sent[i]) \in Seq(Text)
    BY <2>4, SealedIsText
  <2>6. got[i] = Sealed(sent[i])
    BY <2>2, <2>3, <2>5, ConcatEmptySeq
  <2> QED BY <2>4, <2>6, SealedVerifies
<1> QED BY <1>1, LinesHold, PTL
=============================================================================
