----------------------------- MODULE FrameReader -----------------------------
(***************************************************************************)
(* MQTT frames in a TCP stream: how QMQTT writes them (qmqtt_frame.cpp) and *)
(* how it reads them (qmqtt_network.cpp, sockReadReady, and onReceived of  *)
(* qmqtt_client.cpp).  The broker writes as the client does.  What is left *)
(* of a frame when a connection ends is still there on the next one.       *)
(*                                                                         *)
(* A byte has the values 0..2 * Base - 1; its high bit, of value Base, is  *)
(* the sign of a char, and says in a length that another byte follows.     *)
(***************************************************************************)
EXTENDS Integers, Sequences, FiniteSetsExt

CONSTANTS
  Base,       \* 128
  PUBLISH,    \* the header of a publication with QoS 1
  Messages,   \* publications to the client: topic, id and payload
  Answers,    \* frames of other headers
  MaxFrames   \* bound: frames sent in all

Byte == 0..(2 * Base - 1)
Ids == 1..(4 * Base * Base - 1)
Frame == [header : Byte, data : Seq(Byte)]

ASSUME FrameAssumption ==
  /\ Base \in Nat \ {0, 1} /\ PUBLISH \in Byte
  /\ Messages \subseteq [topic : Seq(Byte), id : Ids, payload : Seq(Byte)]
  /\ Answers \subseteq [header : Byte \ {PUBLISH}, data : Seq(Byte)]
  /\ MaxFrames \in Nat

VARIABLES
  up,        \* the connection stands
  wire,      \* bytes under way
  chunk,     \* bytes in the socket: the loop of sockReadReady runs
  header,    \* _header
  leftSize,  \* _leftSize
  buffer,    \* _buffer
  got,       \* history: the frames received on this connection
  sent,      \* history: the frames sent on it
  intact,    \* history: the connection began between two frames, and no chunk
             \* has ended within a header or a length
  count      \* history: frames sent in all

vars == <<up, wire, chunk, header, leftSize, buffer, got, sent, intact, count>>

---------------------------------------------------------------------------
(* Writing: writeInt, writeString, encodeLength, write.                    *)

Int2(i) == <<(i \div (2 * Base)) % (2 * Base), i % (2 * Base)>>

\* The frame of a message, of sendPublish.
PublishFrame(m) ==
  [header |-> PUBLISH,
   data |-> Int2(Len(m.topic)) \o m.topic \o Int2(m.id) \o m.payload]

EncodeLength[length \in Nat] ==
  IF length < Base THEN <<length>>
  ELSE <<(length % Base) + Base>> \o EncodeLength[length \div Base]

Write(f) == <<f.header>> \o EncodeLength[Len(f.data)] \o f.data

---------------------------------------------------------------------------
(* Reading a frame's data: readInt, readString, onReceived.                *)

Signed(b) == IF b < Base THEN b ELSE b - 2 * Base

\* Faulty: shifted by one bit too few.
ReadIntNarrow(data) == Base * Signed(data[1]) + Signed(data[2])

\* (msb << 8) + lsb, of two chars that have a sign.
ReadInt(data) == 2 * Base * Signed(data[1]) + Signed(data[2])

\* QByteArray's left and remove take a negative length for zero.
StringLength(data) == Min({Max({ReadInt(data), 0}), Len(data) - 2})

\* onReceived of a PUBLISH; the id is a quint16.
Received(f) ==
  LET n    == StringLength(f.data)
      rest == SubSeq(f.data, n + 3, Len(f.data))
  IN [topic   |-> SubSeq(f.data, 3, n + 2),
      id      |-> ReadInt(rest) % (4 * Base * Base),
      payload |-> SubSeq(rest, 3, Len(rest))]

---------------------------------------------------------------------------
(* Reading a frame: readRemaingLength, sockReadReady.                      *)

\* A length ends with the first byte below Base.  At the end of what is there,
\* what is read is zero.
LengthEnds(s) == {i \in DOMAIN s : s[i] < Base}
LengthBytes(s) == IF LengthEnds(s) = {} THEN Len(s) ELSE Min(LengthEnds(s))

\* Faulty: every byte counts the same.
WeighedFlat(byte, len) == (byte % Base) + len

\* A byte of a length that others, worth len, follow.
Weighed(byte, len) == (byte % Base) + Base * len

RemainingLength[s \in Seq(Byte)] ==
  IF s = <<>> THEN 0
  ELSE IF Head(s) < Base THEN Head(s)
  ELSE Weighed(Head(s), RemainingLength[Tail(s)])

\* Does the chunk end within a header or a length?
Split == leftSize = 0 /\ LengthEnds(Tail(chunk)) = {}

\* What the loop has when it comes to the data: of a new frame, or of the one
\* it has the beginning of.
Begun ==
  LET s == Tail(chunk) IN
  IF leftSize = 0
  THEN [header |-> Head(chunk), left |-> RemainingLength[s],
        rest |-> SubSeq(s, LengthBytes(s) + 1, Len(s))]
  ELSE [header |-> header, left |-> leftSize, rest |-> chunk]

---------------------------------------------------------------------------
Init ==
  /\ up = FALSE /\ wire = <<>> /\ chunk = <<>>
  /\ header = 0   \* not initialized, and read only after it is set
  /\ leftSize = 0 /\ buffer = <<>>
  /\ got = <<>> /\ sent = <<>> /\ intact = TRUE /\ count = 0

\* sockConnected() resets nothing.
Connect ==
  /\ ~up
  /\ up' = TRUE
  /\ got' = <<>> /\ sent' = <<>> /\ intact' = (leftSize = 0)
  /\ UNCHANGED <<wire, chunk, header, leftSize, buffer, count>>

\* sockDisconnected(), neither; the socket delivers what it has before.
Drop ==
  /\ up /\ chunk = <<>>
  /\ up' = FALSE /\ wire' = <<>>
  /\ UNCHANGED <<chunk, header, leftSize, buffer, got, sent, intact, count>>

BrokerSends(f) ==
  /\ up /\ count < MaxFrames
  /\ count' = count + 1
  /\ sent' = Append(sent, f)
  /\ wire' = wire \o Write(f)
  /\ UNCHANGED <<up, chunk, header, leftSize, buffer, got, intact>>

\* The socket has the next k bytes, and readyRead is emitted; no more arrive
\* while the loop runs.
Arrives(k) ==
  /\ chunk = <<>>
  /\ chunk' = SubSeq(wire, 1, k)
  /\ wire' = SubSeq(wire, k + 1, Len(wire))
  /\ UNCHANGED <<up, header, leftSize, buffer, got, sent, intact, count>>

\* Faulty: the data read before is not cleared.
BufferKept(data) == buffer' = data

\* buffer().clear(), after the frame has been made of it.
BufferCleared(data) == buffer' = <<>>

\* Faulty: what is left is not reduced by what has been read.
LeftWhole(left, n) == IF n < left THEN left ELSE 0

\* _leftSize -= _offsetBuf
Left(left, n) == left - n

\* One iteration of the loop of sockReadReady().
ReadReady ==
  /\ chunk # <<>>
  /\ LET n    == Min({Begun.left, Len(Begun.rest)})
         data == buffer \o SubSeq(Begun.rest, 1, n)
     IN
     /\ header' = Begun.header
     /\ leftSize' = Left(Begun.left, n)
     /\ chunk' = SubSeq(Begun.rest, n + 1, Len(Begun.rest))
     /\ IF leftSize' = 0
        THEN /\ got' = Append(got, [header |-> header', data |-> data])
             /\ BufferCleared(data)
        ELSE /\ buffer' = data
             /\ UNCHANGED got
  /\ intact' = (intact /\ ~Split)
  /\ UNCHANGED <<up, wire, sent, count>>

Next ==
  \/ Connect \/ Drop
  \/ \E m \in Messages : BrokerSends(PublishFrame(m))
  \/ \E f \in Answers : BrokerSends(f)
  \/ \E k \in 1..Len(wire) : Arrives(k)
  \/ ReadReady

Spec == Init /\ [][Next]_vars

\* What is under way arrives, and the event loop delivers readyRead.
FairSpec ==
  /\ Spec
  /\ WF_vars(\E k \in 1..Len(wire) : Arrives(k))
  /\ WF_vars(ReadReady)

---------------------------------------------------------------------------
(* Properties.                                                             *)

\* leftSize never runs below zero, and the loop leaves nothing in the buffer
\* that no frame is waiting for.
TypeOK ==
  /\ up \in BOOLEAN /\ intact \in BOOLEAN
  /\ wire \in Seq(Byte) /\ chunk \in Seq(Byte) /\ buffer \in Seq(Byte)
  /\ header \in Byte /\ leftSize \in Nat /\ count \in 0..MaxFrames
  /\ got \in Seq(Frame)
  /\ leftSize = 0 => buffer = <<>>

\* What frames look like, one behind the other.
Stream[frames \in Seq(Frame)] ==
  IF frames = <<>> THEN <<>> ELSE Write(Head(frames)) \o Stream[Tail(frames)]

\* As long as no chunk ends within a header or a length, the frames received
\* are the ones sent, and every byte that has been read is in the buffer,
\* wherever else chunks were cut, a frame of several chunks and a chunk of
\* several frames included (qmqtt_network.cpp:141-164).
FramesAsSent ==
  intact /\ up =>
    LET n == Len(got) IN
    /\ got = SubSeq(sent, 1, n)
    /\ Stream[SubSeq(sent, n + 1, Len(sent))]
       = (IF leftSize = 0 THEN <<>>
          ELSE <<header>> \o EncodeLength[Len(buffer) + leftSize] \o buffer)
         \o chunk \o wire

\* Of a publication received whole, with a topic of fewer than Base bytes, the
\* topic and the payload are what was published, and the id in the PUBACK is
\* the publication's, but for a low byte with its high bit set
\* (qmqtt_frame.cpp:76-90).
AcksNameTheirMessage ==
  intact /\ up =>
    \A i \in DOMAIN got : \A m \in Messages :
      got[i] = PublishFrame(m) /\ Len(m.topic) < Base =>
        LET r == Received(got[i]) IN
        /\ r.topic = m.topic /\ r.payload = m.payload
        /\ (r.id = m.id) <=> (m.id % (2 * Base) < Base)

\* A frame that is sent is received, if the connection lasts and is intact.
FramesArrive ==
  \A n \in 1..MaxFrames :
    Len(sent) = n /\ up ~> Len(got) >= n \/ ~intact \/ ~up
=============================================================================
