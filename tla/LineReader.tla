------------------------------ MODULE LineReader ------------------------------
(***************************************************************************)
(* How IT100 gets lines out of a TCP stream (it100.cpp,                    *)
(* processTcpSocketReadyRead): bytes come in chunks of any size, a chunk   *)
(* may end anywhere, and so may a connection.  What is left of a line when *)
(* a connection ends is still there on the next one.                       *)
(***************************************************************************)
EXTENDS Packets, FiniteSetsExt

CONSTANTS
  Messages,    \* what the module's packets say: a command of three digits, and
               \* data
  MaxPackets   \* bound: packets sent in all

ASSUME ReaderAssumption ==
  /\ Messages \subseteq Seq(32..126) /\ \A m \in Messages : Len(m) >= 3
  /\ MaxPackets \in Nat

VARIABLES
  up,            \* the connection stands
  wire,          \* bytes under way
  avail,         \* bytes in the socket, readyRead is due
  receivedData,  \* receivedData
  got,           \* history: the lines handed on, on this connection
  sent,          \* history: the messages sent on it
  carry,         \* history: receivedData when it began
  count          \* history: packets sent in all

vars == <<up, wire, avail, receivedData, got, sent, carry, count>>

---------------------------------------------------------------------------
(* split(QRegExp("\r\n|\n")).                                              *)

\* A line without the CR of its end.
Chomped(line) ==
  IF line # <<>> /\ line[Len(line)] = CR THEN SubSeq(line, 1, Len(line) - 1) ELSE line

LineEnds(s) == {i \in DOMAIN s : s[i] = LF}

FirstLine(s) == Chomped(SubSeq(s, 1, Min(LineEnds(s)) - 1))
Behind(s) == SubSeq(s, Min(LineEnds(s)) + 1, Len(s))

\* lineList: what follows the last line's end is its last element.
Split[s \in Seq(Byte)] ==
  IF LineEnds(s) = {} THEN <<s>> ELSE <<FirstLine(s)>> \o Split[Behind(s)]

\* Faulty: the part that is no line yet is handed on as well.
LinesInAll(s) == Split[s]

\* numLines of them, one fewer than there are.
LinesIn(s) == SubSeq(Split[s], 1, Len(Split[s]) - 1)

\* Faulty: receivedData is left as it is.
RestWhole(s) == s

\* lineList.at(lineList.size()-1)
Rest(s) == Split[s][Len(Split[s])]

---------------------------------------------------------------------------
Init ==
  /\ up = FALSE /\ wire = <<>> /\ avail = <<>> /\ receivedData = <<>>
  /\ got = <<>> /\ sent = <<>> /\ carry = <<>> /\ count = 0

Connect ==
  /\ ~up
  /\ up' = TRUE
  /\ got' = <<>> /\ sent' = <<>> /\ carry' = receivedData
  /\ UNCHANGED <<wire, avail, receivedData, count>>

\* The connection ends, and what was under way with it.
Drop ==
  /\ up
  /\ up' = FALSE /\ wire' = <<>> /\ avail' = <<>>
  /\ UNCHANGED <<receivedData, got, sent, carry, count>>

ModuleSends(m) ==
  /\ up /\ count < MaxPackets
  /\ count' = count + 1
  /\ sent' = Append(sent, m)
  /\ wire' = wire \o Packet(m)
  /\ UNCHANGED <<up, avail, receivedData, got, carry>>

Arrives(k) ==
  /\ avail' = avail \o SubSeq(wire, 1, k)
  /\ wire' = SubSeq(wire, k + 1, Len(wire))
  /\ UNCHANGED <<up, receivedData, got, sent, carry, count>>

\* processTcpSocketReadyRead(): all there is, in one handler.
ReadyRead ==
  /\ avail # <<>>
  /\ LET data == receivedData \o avail IN
     /\ got' = got \o LinesIn(data)
     /\ receivedData' = Rest(data)
  /\ avail' = <<>>
  /\ UNCHANGED <<up, wire, sent, carry, count>>

Next ==
  \/ Connect \/ Drop
  \/ \E m \in Messages : ModuleSends(m)
  \/ \E k \in 1..Len(wire) : Arrives(k)
  \/ ReadyRead

Spec == Init /\ [][Next]_vars

---------------------------------------------------------------------------
(* Properties.                                                             *)

TypeOK ==
  /\ up \in BOOLEAN
  /\ wire \in Seq(Byte) /\ avail \in Seq(Byte) /\ receivedData \in Seq(Byte \ {LF})
  /\ got \in Seq(Seq(Byte)) /\ sent \in Seq(Messages)
  /\ carry \in Seq(Byte) /\ count \in 0..MaxPackets

\* Packets, one behind the other.
Stream[ms \in Seq(Messages)] ==
  IF ms = <<>> THEN <<>> ELSE Packet(Head(ms)) \o Stream[Tail(ms)]

\* The lines handed on are the packets sent, in order, none missing or
\* doubled, wherever chunks were cut, between CR and LF too; only the first of
\* a connection has in front what the last connection left.  What has been
\* read and is no line yet is the beginning of the next (it100.cpp:93-109).
LinesAreSent ==
  /\ \A i \in DOMAIN got :
       /\ i \in DOMAIN sent
       /\ got[i] = (IF i = 1 THEN carry ELSE <<>>) \o Sealed(sent[i])
  /\ up => LET n == Len(got) IN
       (IF n = 0 THEN carry ELSE <<>>) \o Stream[SubSeq(sent, n + 1, Len(sent))]
       = receivedData \o avail \o wire

\* Every line but a spoiled one would pass the check that is not made
\* (it100.cpp:168): the last two digits of the sum are its last byte, whether
\* it has two digits or more (it100message.cpp:51-57).
LinesVerify == \A i \in DOMAIN got : i > 1 \/ carry = <<>> => Verifies(got[i])
=============================================================================
