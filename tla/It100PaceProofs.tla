--------------------------- MODULE It100PaceProofs ---------------------------
(***************************************************************************)
(* The game of ping pong of It100Link (PingPong), proved.  It takes more   *)
(* than the other invariants: commands and replies under way are counted.  *)
(***************************************************************************)
EXTENDS It100LinkProofs, SequenceTheorems, FiniteSetTheorems

---------------------------------------------------------------------------
(* Counting the replies among lines.                                       *)

Answers(lines) == {i \in DOMAIN lines : lines[i] \in Replies}
Count(lines) == Cardinality(Answers(lines))
One(l) == IF l \in Replies THEN 1 ELSE 0

LEMMA CountType ==
  ASSUME NEW lines \in Seq(Lines)
  PROVE  IsFiniteSet(Answers(lines)) /\ Count(lines) \in Nat
<1>1. Answers(lines) \in SUBSET (1..Len(lines)) /\ Len(lines) \in Nat
  BY DEF Answers
<1>2. IsFiniteSet(1..Len(lines))
  BY <1>1, FS_Interval
<1>3. IsFiniteSet(Answers(lines))
  BY <1>1, <1>2, FS_Subset
<1> QED BY <1>3, FS_CardinalityType DEF Count

LEMMA CountNone == Count(<< >>) = 0
<1>1. Answers(<< >>) = {}
  BY DEF Answers
<1> QED BY <1>1, FS_EmptySet DEF Count

LEMMA CountAppend ==
  ASSUME NEW lines \in Seq(Lines), NEW l \in Lines
  PROVE  Count(Append(lines, l)) = Count(lines) + One(l)
<1> DEFINE n == Len(lines) + 1
           more == Append(lines, l)
<1>1. /\ DOMAIN lines = 1..Len(lines) /\ DOMAIN more = 1..n /\ Len(lines) \in Nat
      /\ more[n] = l /\ \A i \in 1..Len(lines) : more[i] = lines[i]
  <2>1. /\ more \in Seq(Lines) /\ Len(more) = n
        /\ more[n] = l /\ \A i \in 1..Len(lines) : more[i] = lines[i]
    BY AppendProperties
  <2> HIDE DEF n, more
  <2> QED BY <2>1, LenProperties
<1>2. IsFiniteSet(Answers(lines)) /\ n \notin Answers(lines)
  <2>1. n \notin Answers(lines)
    BY <1>1 DEF Answers
  <2> QED BY <2>1, CountType
<1>3. CASE l \in Replies
  <2>1. Answers(more) = Answers(lines) \cup {n}
    BY <1>1, <1>3 DEF Answers
  <2> QED BY <1>2, <1>3, <2>1, FS_AddElement DEF Count, One
<1>4. CASE l \notin Replies
  <2>1. Answers(more) = Answers(lines)
    BY <1>1, <1>4 DEF Answers
  <2> QED BY <1>4, <2>1, CountType DEF Count, One
<1> QED BY <1>3, <1>4

\* The lines but for the first are numbered one less.
LEMMA CountTail ==
  ASSUME NEW lines \in Seq(Lines), lines # << >>
  PROVE  Count(lines) = Count(Tail(lines)) + One(Head(lines))
<1> DEFINE S == Answers(Tail(lines))
           T == Answers(lines) \ {1}
           next == [i \in S |-> i + 1]
<1>1. /\ DOMAIN lines = 1..Len(lines) /\ Len(lines) \in Nat \ {0}
      /\ Tail(lines) \in Seq(Lines) /\ DOMAIN Tail(lines) = 1..(Len(lines) - 1)
      /\ \A i \in 1..(Len(lines) - 1) : Tail(lines)[i] = lines[i + 1]
      /\ Head(lines) = lines[1]
  BY HeadTailProperties
<1>2. IsFiniteSet(S) /\ IsFiniteSet(Answers(lines)) /\ Count(Tail(lines)) \in Nat
  BY <1>1, CountType
<1>3. Cardinality(T) = Cardinality(S)
  <2>1. \A i \in S : i \in Nat /\ i + 1 \in T
    BY <1>1 DEF Answers
  <2>2. \A j \in T : j - 1 \in S /\ (j - 1) + 1 = j
    BY <1>1 DEF Answers
  <2> HIDE DEF S, T
  <2>3. next \in [S -> T]
    BY <2>1
  <2>4. \A i, j \in S : next[i] = next[j] => i = j
    BY <2>1
  <2>5. \A j \in T : \E i \in S : next[i] = j
    BY <2>2
  <2>6. next \in Bijection(S, T)
    BY <2>3, <2>4, <2>5 DEF Bijection, Injection, IsInjective, Surjection
  <2>7. ExistsBijection(S, T)
    BY <2>6 DEF ExistsBijection
  <2> QED BY <1>2, <2>7, FS_Bijection
<1>4. 1 \in Answers(lines) <=> Head(lines) \in Replies
  BY <1>1 DEF Answers
<1>5. Cardinality(T) =
        IF 1 \in Answers(lines) THEN Count(lines) - 1 ELSE Count(lines)
  BY <1>2, FS_RemoveElement DEF Count
<1>6. Count(lines) \in Nat
  BY CountType
<1> HIDE DEF T
<1> QED BY <1>2, <1>3, <1>4, <1>5, <1>6 DEF Count, One

---------------------------------------------------------------------------
(* The pace of a sender.                                                   *)

\* No more is unanswered than the lines that answered nothing allow, and one
\* less if no reply is due.
Paced(t, lines, ex) ==
  UnansweredIn(t.wire, lines) <= IF t.waiting THEN 1 + ex ELSE ex

LEMMA UnansweredCount ==
  ASSUME NEW wire, NEW lines
  PROVE  UnansweredIn(wire, lines) = Len(wire) + Count(lines)
BY DEF UnansweredIn, Count, Answers

LEMMA WritePacketWire ==
  ASSUME NEW t \in Sender
  PROVE  /\ Len(t.wire) \in Nat /\ Len(WritePacket(t).wire) \in Nat
         /\ t.queue = << >> => WritePacket(t).wire = t.wire
         /\ t.queue # << >> => Len(WritePacket(t).wire) = Len(t.wire) + 1
<1>1. /\ t.wire \in Seq(Message) /\ t.queue \in Seq(Message)
      /\ t = [queue |-> t.queue, waiting |-> t.waiting, wire |-> t.wire, last |-> t.last]
  BY DEF Sender
<1>2. CASE t.queue = << >>
  <2>1. WritePacket(t).wire = t.wire
    BY <1>1, <1>2 DEF WritePacket
  <2> QED BY <1>1, <1>2, <2>1
<1>3. CASE t.queue # << >>
  <2>1. Head(t.queue) \in Message
    BY <1>1, <1>3
  <2>2. WritePacket(t).wire = Append(t.wire, Head(t.queue))
    BY <1>3 DEF WritePacket
  <2> QED BY <1>1, <1>3, <2>1, <2>2, AppendProperties
<1> QED BY <1>2, <1>3

\* A command is written only when no reply is due.
LEMMA SendCommandPaced ==
  ASSUME NEW t \in Sender, NEW up, NEW c \in Message, NEW lines \in Seq(Lines),
         NEW ex \in Nat, Paced(t, lines, ex)
  PROVE  /\ Paced(SendCommand(t, up, c), lines, ex)
         /\ ~up => SendCommand(t, up, c).wire = t.wire
<1> DEFINE q == [t EXCEPT !.queue = Append(@, c)]
<1>1. /\ q \in Sender /\ q.queue # << >> /\ q.waiting = t.waiting
  BY QueuedEffect
<1>2. q.wire = t.wire
  BY DEF Sender
<1>3. Count(lines) \in Nat /\ Len(t.wire) \in Nat
  BY CountType DEF Sender
<1> HIDE DEF q
<1>4. CASE up /\ ~t.waiting
  <2>1. SendCommand(t, up, c) = WritePacket(q)
    BY <1>4 DEF SendCommand, q
  <2>2. WritePacket(q).waiting /\ Len(WritePacket(q).wire) = Len(t.wire) + 1
    BY <1>1, <1>2, WritePacketEffect, WritePacketWire
  <2>3. Len(t.wire) + Count(lines) <= ex
    BY <1>4, UnansweredCount DEF Paced
  <2>4. Len(WritePacket(q).wire) + Count(lines) <= 1 + ex
    BY <1>3, <2>2, <2>3
  <2> QED BY <1>4, <2>1, <2>2, <2>4, UnansweredCount DEF Paced
<1>5. CASE ~(up /\ ~t.waiting)
  <2>1. SendCommand(t, up, c) = q
    BY <1>5 DEF SendCommand, q
  <2> QED BY <1>1, <1>2, <2>1 DEF Paced
<1> QED BY <1>4, <1>5

\* All that is under way is under way on a connection.
PaceInv ==
  /\ Paced(tx, toHost, extra)
  /\ ~connected => tx.wire = << >> /\ toHost = << >>

\* What a step that only sends leaves of the pace.
LEMMA SendStepPaced ==
  ASSUME IndInv, PaceInv, NEW c \in Message, tx' = SendCommand(tx, connected, c),
         UNCHANGED <<connected, toHost, extra>>
  PROVE  PaceInv'
<1>1. /\ Paced(SendCommand(tx, connected, c), toHost, extra)
      /\ ~connected => SendCommand(tx, connected, c).wire = tx.wire
  BY SendCommandPaced DEF IndInv, SenderInv, Numbers, PaceInv
<1> QED BY <1>1, Zenon DEF PaceInv

\* A step after which less is unanswered, or as much, and a reply is due as
\* before.
LEMMA AnsweredStep ==
  ASSUME IndInv, PaceInv, tx'.waiting = tx.waiting, UNCHANGED <<connected, extra>>,
         UnansweredIn(tx'.wire, toHost') <= UnansweredIn(tx.wire, toHost),
         UnansweredIn(tx'.wire, toHost') \in Nat, connected
  PROVE  PaceInv'
<1>1. UnansweredIn(tx.wire, toHost) \in Nat /\ extra \in Nat
  BY CountType, UnansweredCount DEF IndInv, SenderInv, Sender, Numbers
<1>2. UnansweredIn(tx.wire, toHost) <= IF tx.waiting THEN 1 + extra ELSE extra
  BY DEF PaceInv, Paced
<1>3. UnansweredIn(tx'.wire, toHost') <= IF tx.waiting THEN 1 + extra ELSE extra
  BY <1>1, <1>2
<1>4. Paced(tx, toHost, extra)'
  BY <1>3 DEF Paced
<1> QED BY <1>4 DEF PaceInv

---------------------------------------------------------------------------
(* The steps.                                                              *)

\* Every line read answers one command or is one more of those that answer
\* none, and lets one command go.
LEMMA ReadLinePaced == ASSUME IndInv, PaceInv, ReadLine PROVE PaceInv'
<1> DEFINE l == Head(toHost)
           u == UnansweredIn(tx'.wire, toHost')
<1>1. /\ tx' = WritePacket(tx) /\ toHost' = Tail(toHost) /\ toHost # << >>
      /\ extra' = IF u = 0 THEN 0 ELSE IF l \in Replies THEN extra ELSE extra + 1
      /\ sock = "connected" /\ connected' = connected
  BY Zenon DEF ReadLine, session
<1>2. /\ tx \in Sender /\ toHost \in Seq(Lines) /\ extra \in Nat /\ connected
      /\ toHost' \in Seq(Lines)
  BY <1>1, Zenon, HeadTailProperties DEF IndInv, SenderInv, Numbers, Flags
<1>3. /\ Count(toHost) = Count(toHost') + One(l)
      /\ Count(toHost') \in Nat
  BY <1>1, <1>2, CountTail, CountType
<1>4. Len(tx.wire) + Count(toHost) <= IF tx.waiting THEN 1 + extra ELSE extra
  BY UnansweredCount DEF PaceInv, Paced
<1>5. u = Len(tx'.wire) + Count(toHost')
  BY UnansweredCount
<1> HIDE DEF u, l
<1>6. Len(tx.wire) + Count(toHost) <= 1 + extra /\ Len(tx.wire) \in Nat
  <2>1. Len(tx.wire) \in Nat /\ Count(toHost) \in Nat
    BY <1>2, WritePacketWire, CountType
  <2> QED BY <1>2, <1>4, <2>1
<1>7. u <= IF tx'.waiting THEN 1 + extra' ELSE extra'
  <2>1. CASE tx.queue = << >>
    <3>1. tx'.wire = tx.wire /\ ~tx'.waiting
      BY <1>1, <1>2, <2>1, WritePacketWire, WritePacketEffect
    <3>2. u = Len(tx.wire) + Count(toHost')
      BY <1>5, <3>1
    <3>3. u <= extra'
      BY <1>1, <1>2, <1>3, <1>6, <3>2 DEF One
    <3> QED BY <3>1, <3>3
  <2>2. CASE tx.queue # << >>
    <3>1. Len(tx'.wire) = Len(tx.wire) + 1 /\ tx'.waiting
      BY <1>1, <1>2, <2>2, WritePacketWire, WritePacketEffect
    <3>2. u = Len(tx.wire) + 1 + Count(toHost')
      BY <1>5, <3>1
    <3>3. u <= 1 + extra'
      BY <1>1, <1>2, <1>3, <1>6, <3>2 DEF One
    <3> QED BY <3>1, <3>3
  <2> QED BY <2>1, <2>2
<1> QED BY <1>1, <1>2, <1>7 DEF PaceInv, Paced, u

LEMMA SocketConnectedPaced ==
  ASSUME IndInv, PaceInv, SocketConnected
  PROVE  PaceInv'
<1> DEFINE t == GetGoing(tx)
<1>1. /\ tx' = SendCommand(t, TRUE, "status") /\ toHost' = toHost /\ extra' = 0
      /\ connected' = TRUE /\ sock = "connecting"
  BY Zenon DEF SocketConnected, StartSession
<1>2. t \in Sender /\ ~t.waiting
  BY GetGoingEffect DEF IndInv, SenderInv
<1>3. t.wire = tx.wire
  BY DEF GetGoing, IndInv, SenderInv, Sender
<1>4. tx.wire = << >> /\ toHost = << >>
  BY <1>1, Zenon DEF IndInv, Flags, PaceInv
<1>5. << >> \in Seq(Lines) /\ Len(<< >>) = 0
  OBVIOUS
<1> HIDE DEF t
<1>6. Paced(t, << >>, 0)
  BY <1>2, <1>3, <1>4, <1>5, UnansweredCount, CountNone DEF Paced
<1>7. Paced(SendCommand(t, TRUE, "status"), << >>, 0)
  BY <1>2, <1>5, <1>6, Sendable, SendCommandPaced
<1> QED BY <1>1, <1>4, <1>7 DEF PaceInv

LEMMA DropPaced == ASSUME IndInv, PaceInv, Drop PROVE PaceInv'
<1>1. /\ tx' = [tx EXCEPT !.wire = << >>] /\ toHost' = << >> /\ extra' = 0
      /\ connected' = FALSE
  BY Zenon DEF Drop, OnUnconnected, LoseContact
<1>2. tx'.wire = << >>
  BY <1>1 DEF IndInv, SenderInv, Sender
<1>3. UnansweredIn(tx'.wire, toHost') = 0
  BY <1>1, <1>2, UnansweredCount, CountNone
<1>4. Paced(tx, toHost, extra)'
  BY <1>1, <1>3 DEF Paced
<1> QED BY <1>1, <1>2, <1>4 DEF PaceInv

\* A keypress sends twice.
LEMMA KeyPressPaced == ASSUME IndInv, PaceInv, KeyPress PROVE PaceInv'
<1> DEFINE s == SendCommand(tx, connected, "key")
<1>1. tx' = SendCommand(s, connected, "break") /\ UNCHANGED <<connected, toHost, extra>>
  BY Zenon DEF KeyPress, session
<1>2. s \in Sender
  BY Sendable, SendCommandSound DEF IndInv, SenderInv
<1>3. Paced(s, toHost, extra) /\ (~connected => s.wire = tx.wire)
  BY Sendable, SendCommandPaced DEF IndInv, SenderInv, Numbers, PaceInv
<1> HIDE DEF s
<1>4. /\ Paced(SendCommand(s, connected, "break"), toHost, extra)
      /\ ~connected => SendCommand(s, connected, "break").wire = s.wire
  BY <1>2, <1>3, Sendable, SendCommandPaced DEF IndInv, Numbers
<1> QED BY <1>1, <1>3, <1>4, Zenon DEF PaceInv

\* The panel gives one reply to a command, and perhaps other lines.
LEMMA AnswerPaced ==
  ASSUME IndInv, PaceInv, NEW lines \in {<<"ack">>, <<"nak">>, <<"ack", "zone64">>},
         Answer(lines)
  PROVE  PaceInv'
<1>1. /\ tx.wire # << >> /\ tx' = [tx EXCEPT !.wire = Tail(tx.wire)]
      /\ toHost' = toHost \o lines /\ sock = "connected"
      /\ UNCHANGED <<connected, extra>>
  BY Zenon DEF Answer, session
<1>2. /\ tx.wire \in Seq(Message) /\ tx'.wire = Tail(tx.wire) /\ tx'.waiting = tx.waiting
      /\ toHost \in Seq(Lines) /\ connected
  BY <1>1 DEF IndInv, SenderInv, Sender, Flags
<1>3. Len(tx.wire) \in Nat /\ Len(tx'.wire) \in Nat /\ Len(tx'.wire) = Len(tx.wire) - 1
  BY <1>1, <1>2, HeadTailProperties, LenProperties
<1>4. Count(toHost') = Count(toHost) + 1 /\ Count(toHost) \in Nat
  <2>1. {"ack", "nak", "zone64"} \subseteq Lines
    BY LinesAre
  <2>2. ASSUME NEW l \in {"ack", "nak"}
        PROVE  /\ toHost \o <<l>> \in Seq(Lines)
               /\ Count(toHost \o <<l>>) = Count(toHost) + 1
    <3>1. toHost \o <<l>> = Append(toHost, l) /\ Append(toHost, l) \in Seq(Lines)
      BY <1>2, <2>1, AppendIsConcat, AppendProperties
    <3>2. Count(Append(toHost, l)) = Count(toHost) + One(l)
      BY <1>2, <2>1, CountAppend
    <3> QED BY <3>1, <3>2 DEF One, Replies
  <2>3. CASE lines = <<"ack", "zone64">>
    <3>1. lines = <<"ack">> \o <<"zone64">>
      BY <2>1, <2>3, AppendIsConcat
    <3>2. toHost \o lines = (toHost \o <<"ack">>) \o <<"zone64">>
      <4>1. <<"ack">> \in Seq(Lines) /\ <<"zone64">> \in Seq(Lines)
        BY <2>1
      <4> QED BY <1>2, <3>1, <4>1, ConcatAssociative
    <3>3. (toHost \o <<"ack">>) \o <<"zone64">> = Append(toHost \o <<"ack">>, "zone64")
      BY <2>1, <2>2, AppendIsConcat
    <3>4. Count(Append(toHost \o <<"ack">>, "zone64"))
            = Count(toHost \o <<"ack">>) + One("zone64")
      BY <2>1, <2>2, CountAppend
    <3>5. One("zone64") = 0
      BY DEF One, Replies
    <3>6. Count(toHost \o lines) = Count(toHost) + 1 + One("zone64")
      BY <2>2, <3>2, <3>3, <3>4
    <3> QED BY <1>1, <1>2, <3>5, <3>6, CountType
  <2> QED BY <1>1, <1>2, <2>2, <2>3, CountType
<1>5. /\ UnansweredIn(tx'.wire, toHost') = UnansweredIn(tx.wire, toHost)
      /\ UnansweredIn(tx'.wire, toHost') \in Nat
  <2>1. UnansweredIn(tx'.wire, toHost') = Len(tx'.wire) + Count(toHost')
    BY UnansweredCount
  <2>2. UnansweredIn(tx.wire, toHost) = Len(tx.wire) + Count(toHost)
    BY UnansweredCount
  <2> QED BY <1>3, <1>4, <2>1, <2>2
<1> QED BY <1>1, <1>2, <1>5, AnsweredStep

\* A command or a line is lost, or the panel has something to say.
LEMMA UnderWayPaced ==
  ASSUME IndInv, PaceInv,
         LoseCommand \/ LoseLine \/ \E l \in Lines \ Replies : PanelEvent(l)
  PROVE  PaceInv'
<1>1. /\ tx.wire \in Seq(Message) /\ Len(tx.wire) \in Nat
      /\ toHost \in Seq(Lines) /\ Count(toHost) \in Nat
  BY CountType DEF IndInv, SenderInv, Sender
<1>2. CASE LoseCommand
  <2>1. /\ tx.wire # << >> /\ tx' = [tx EXCEPT !.wire = Tail(tx.wire)]
        /\ UNCHANGED <<connected, extra, toHost>>
    BY <1>2, Zenon DEF LoseCommand, session
  <2>2. tx'.wire = Tail(tx.wire) /\ tx'.waiting = tx.waiting /\ connected
    BY <2>1 DEF IndInv, SenderInv, Sender, PaceInv, Flags
  <2>3. Len(tx'.wire) \in Nat /\ Len(tx'.wire) = Len(tx.wire) - 1
    BY <1>1, <2>1, <2>2, HeadTailProperties, LenProperties
  <2>4. /\ UnansweredIn(tx'.wire, toHost') <= UnansweredIn(tx.wire, toHost)
        /\ UnansweredIn(tx'.wire, toHost') \in Nat
    <3>1. UnansweredIn(tx'.wire, toHost') = Len(tx'.wire) + Count(toHost')
      BY UnansweredCount
    <3>2. UnansweredIn(tx.wire, toHost) = Len(tx.wire) + Count(toHost)
      BY UnansweredCount
    <3> QED BY <1>1, <2>1, <2>3, <3>1, <3>2
  <2> QED BY <2>1, <2>2, <2>4, AnsweredStep
<1>3. CASE LoseLine
  <2>1. /\ toHost # << >> /\ toHost' = Tail(toHost)
        /\ UNCHANGED <<connected, extra, tx>>
    BY <1>3, Zenon DEF LoseLine, session
  <2>2. connected
    BY <2>1, Zenon DEF IndInv, Flags, PaceInv
  <2>3. Count(toHost) = Count(toHost') + One(Head(toHost)) /\ Count(toHost') \in Nat
    BY <1>1, <2>1, CountTail, CountType, HeadTailProperties
  <2>4. /\ UnansweredIn(tx'.wire, toHost') <= UnansweredIn(tx.wire, toHost)
        /\ UnansweredIn(tx'.wire, toHost') \in Nat
    BY <1>1, <2>1, <2>3, UnansweredCount DEF One
  <2> QED BY <2>1, <2>2, <2>4, AnsweredStep
<1>4. ASSUME NEW l \in Lines \ Replies, PanelEvent(l) PROVE PaceInv'
  <2>1. /\ sock = "connected" /\ toHost' = Append(toHost, l)
        /\ UNCHANGED <<connected, extra, tx>>
    BY <1>4, Zenon DEF PanelEvent, session
  <2>2. connected
    BY <2>1, Zenon DEF IndInv, Flags
  <2>3. Count(toHost') = Count(toHost)
    BY <1>1, <2>1, CountAppend DEF One
  <2>4. /\ UnansweredIn(tx'.wire, toHost') <= UnansweredIn(tx.wire, toHost)
        /\ UnansweredIn(tx'.wire, toHost') \in Nat
    BY <1>1, <2>1, <2>3, UnansweredCount
  <2> QED BY <2>1, <2>2, <2>4, AnsweredStep
<1> QED BY <1>2, <1>3, <1>4

LEMMA NextPaced ==
  ASSUME IndInv, PaceInv, [Next]_vars
  PROVE  PaceInv'
<1>1. CASE UNCHANGED <<tx, toHost, extra>> /\ (connected' = connected \/ ~connected)
  BY <1>1, Zenon DEF PaceInv
<1>2. CASE OpenFirst \/ ConnectFailed \/ RetryTimer \/ CommsTimer \/ Mute \/ UNCHANGED vars
  <2>1. sock = "connecting" => ~connected
    BY Zenon DEF IndInv, Flags
  <2>2. UNCHANGED <<tx, toHost, extra>>
    BY <1>2, Zenon DEF OpenFirst, ConnectFailed, RetryTimer, CommsTimer, Mute, vars
  <2>3. connected' = connected \/ ~connected
    BY <1>2, <2>1, Zenon DEF OpenFirst, ConnectFailed, RetryTimer, CommsTimer, Mute,
       session, vars
  <2> QED BY <1>1, <2>2, <2>3
<1>3. CASE PollTimer \/ TimeTimer \/ \E c \in Commands : AppCommand(c)
  <2>1. UNCHANGED <<connected, toHost, extra>>
    BY <1>3, Zenon DEF PollTimer, TimeTimer, AppCommand, session
  <2>2. \/ tx' = tx
        \/ \E c \in Message : tx' = SendCommand(tx, connected, c)
    BY <1>3, Sendable, Zenon DEF PollTimer, TimeTimer, AppCommand
  <2> QED BY <1>1, <2>1, <2>2, SendStepPaced
<1>4. CASE PanelAnswer \/ PanelRefuse
  <2>1. \E lines \in {<<"ack">>, <<"nak">>, <<"ack", "zone64">>} : Answer(lines)
    BY <1>4 DEF PanelAnswer, PanelRefuse, AnswerTo
  <2> QED BY <2>1, AnswerPaced
<1> QED BY <1>2, <1>3, <1>4, ReadLinePaced, SocketConnectedPaced, DropPaced, KeyPressPaced,
           UnderWayPaced DEF Next

\* One command at a time is under way or unanswered, and one more for each line
\* that answered nothing while a reply was due, whatever is lost.
THEOREM PingPongIsPlayed == Spec => []PingPong
<1>1. Init => PaceInv
  <2> SUFFICES ASSUME Init PROVE PaceInv
    OBVIOUS
  <2>1. tx.wire = << >> /\ tx.waiting = FALSE /\ toHost = << >> /\ extra = 0
    BY DEF Init
  <2>2. UnansweredIn(tx.wire, toHost) = 0
    BY <2>1, UnansweredCount, CountNone
  <2> QED BY <2>1, <2>2 DEF PaceInv, Paced
<1>2. IndInv /\ PaceInv /\ [Next]_vars => PaceInv'
  BY NextPaced
<1>3. IndInv /\ PaceInv => PingPong
  <2> SUFFICES ASSUME IndInv, PaceInv PROVE PingPong
    OBVIOUS
  <2>1. UnansweredIn(tx.wire, toHost) \in Nat /\ extra \in Nat
    BY CountType, UnansweredCount DEF IndInv, SenderInv, Sender, Numbers
  <2> QED BY <2>1 DEF PaceInv, Paced, PingPong
<1> QED BY <1>1, <1>2, <1>3, IndInvHolds, PTL DEF Spec
=============================================================================
