--------------------------- MODULE It100LinkProofs ---------------------------
(***************************************************************************)
(* Invariants of It100Link, proved for every set of callers' commands,     *)
(* every combination of faults and every bound.                            *)
(***************************************************************************)
EXTENDS It100Link, TLAPS

\* Before the first open() the socket has not been touched.
Untouched == ~intent => sock = "unconnected" /\ attempts = 0

\* The sending side: well formed, no key parted from its break, and nothing
\* queued on a connection unless a reply is due.  The last is what keeps the
\* others: with no reply due the queue is empty, so a keypress cannot get its
\* key written apart from its break, and a poll the bound leaves out is one
\* behind a command that is awaited.
SenderInv(t, up) ==
  t \in Sender /\ Unparted(t) /\ (up /\ t.queue # <<>> => t.waiting)

Numbers == attempts \in {0, 1} /\ extra \in Nat

\* The flags: their types, and what TypeOK and two of the invariants say of
\* them, which of the sending side is no more than whether a reply is due.
Flags ==
  /\ sock \in {"unconnected", "connecting", "connected"}
  /\ lastRx \in {"never", "recent", "old"}
  /\ status \in {"unknown", "ok", "failed"}
  /\ \A flag \in {connected, intent, retry, armed, polled, good, floodWait,
                  muted, rejected} : flag \in BOOLEAN
  /\ connected <=> sock = "connected"
  /\ Untouched
  /\ ProbeBeforeTimeout
  /\ GoodIsCurrent

\* The inductive invariant.
IndInv ==
  /\ SenderInv(tx, connected)
  /\ Numbers
  /\ toHost \in Seq(Lines)
  /\ Flags

---------------------------------------------------------------------------
(* Lemmas about the sending side.                                          *)

\* What writePacket() does to the queue, the flag and the message written last.
LEMMA WritePacketEffect ==
  ASSUME NEW t \in Sender
  PROVE  /\ WritePacket(t) \in Sender
         /\ t.queue = <<>> => /\ WritePacket(t).queue = <<>>
                              /\ ~WritePacket(t).waiting
                              /\ WritePacket(t).last = t.last
         /\ t.queue # <<>> => /\ WritePacket(t).queue = Tail(t.queue)
                              /\ WritePacket(t).waiting
                              /\ WritePacket(t).last = Head(t.queue)
<1>1. CASE t.queue = <<>>
  <2>1. WritePacket(t) = [t EXCEPT !.waiting = FALSE]
    BY <1>1 DEF WritePacket
  <2>2. /\ [t EXCEPT !.waiting = FALSE] \in Sender
        /\ [t EXCEPT !.waiting = FALSE].queue = t.queue
        /\ [t EXCEPT !.waiting = FALSE].waiting = FALSE
        /\ [t EXCEPT !.waiting = FALSE].last = t.last
    BY DEF Sender
  <2> QED BY <1>1, <2>1, <2>2
<1>2. CASE t.queue # <<>>
  <2> DEFINE w == [queue |-> Tail(t.queue), waiting |-> TRUE,
                   wire |-> Append(t.wire, Head(t.queue)),
                   last |-> Head(t.queue)]
  <2>1. WritePacket(t) = w
    BY <1>2 DEF WritePacket
  <2>2. w \in Sender
    BY <1>2 DEF Sender
  <2> QED BY <1>2, <2>1, <2>2
<1> QED BY <1>1, <1>2

\* A sender with another queue is a sender, the same in all else.
LEMMA QueueReplaced ==
  ASSUME NEW t \in Sender, NEW q \in Seq(Message)
  PROVE  /\ [t EXCEPT !.queue = q] \in Sender
         /\ [t EXCEPT !.queue = q].queue = q
         /\ [t EXCEPT !.queue = q].waiting = t.waiting
         /\ [t EXCEPT !.queue = q].last = t.last
BY DEF Sender

\* A sender with another wire is a sender, the same in all else.
LEMMA WireReplaced ==
  ASSUME NEW t \in Sender, NEW w \in Seq(Message)
  PROVE  /\ [t EXCEPT !.wire = w] \in Sender
         /\ [t EXCEPT !.wire = w].queue = t.queue
         /\ [t EXCEPT !.wire = w].waiting = t.waiting
         /\ [t EXCEPT !.wire = w].last = t.last
BY DEF Sender

\* Queueing a message changes the queue alone, and leaves it not empty.
LEMMA QueuedEffect ==
  ASSUME NEW t \in Sender, NEW c \in Message
  PROVE  LET q == [t EXCEPT !.queue = Append(@, c)] IN
         /\ q \in Sender /\ q.queue = Append(t.queue, c) /\ q.queue # <<>>
         /\ q.waiting = t.waiting /\ q.last = t.last
<1>1. Append(t.queue, c) \in Seq(Message) /\ Append(t.queue, c) # <<>>
  BY DEF Sender
<1> QED BY <1>1, QueueReplaced

\* On a connection with no reply due, sendCommand() is an append and a write.
LEMMA SendCommandWrites ==
  ASSUME NEW t \in Sender, NEW up, NEW c \in Message, up, ~t.waiting
  PROVE  /\ SendCommand(t, up, c) \in Sender
         /\ SendCommand(t, up, c).waiting
         /\ SendCommand(t, up, c).queue = Tail(Append(t.queue, c))
         /\ SendCommand(t, up, c).last = Head(Append(t.queue, c))
<1> DEFINE q == [t EXCEPT !.queue = Append(@, c)]
<1>1. q \in Sender /\ q.queue = Append(t.queue, c) /\ q.queue # <<>>
  BY QueuedEffect
<1>2. SendCommand(t, up, c) = WritePacket(q)
  BY DEF SendCommand
<1> HIDE DEF q
<1> QED BY <1>1, <1>2, WritePacketEffect

\* Otherwise it is an append alone.
LEMMA SendCommandQueues ==
  ASSUME NEW t \in Sender, NEW up, NEW c \in Message, ~(up /\ ~t.waiting)
  PROVE  /\ SendCommand(t, up, c) \in Sender
         /\ SendCommand(t, up, c).waiting = t.waiting
         /\ SendCommand(t, up, c).queue = Append(t.queue, c)
         /\ SendCommand(t, up, c).last = t.last
<1> DEFINE q == [t EXCEPT !.queue = Append(@, c)]
<1>1. /\ q \in Sender /\ q.queue = Append(t.queue, c)
      /\ q.waiting = t.waiting /\ q.last = t.last
  BY QueuedEffect
<1>2. SendCommand(t, up, c) = q
  BY DEF SendCommand
<1> HIDE DEF q
<1> QED BY <1>1, <1>2

\* Either way the sender is well formed, and on a connection a reply is due.
LEMMA SendCommandSound ==
  ASSUME NEW t \in Sender, NEW up, NEW c \in Message
  PROVE  /\ SendCommand(t, up, c) \in Sender
         /\ up => SendCommand(t, up, c).waiting
<1>1. CASE up /\ ~t.waiting
  BY <1>1, SendCommandWrites
<1>2. CASE ~(up /\ ~t.waiting)
  BY <1>2, SendCommandQueues
<1> QED BY <1>1, <1>2

\* GetGoing() only clears the flag.
LEMMA GetGoingEffect ==
  ASSUME NEW t \in Sender
  PROVE  /\ GetGoing(t) \in Sender
         /\ GetGoing(t).queue = t.queue
         /\ GetGoing(t).waiting = FALSE
         /\ GetGoing(t).last = t.last
BY DEF GetGoing, Sender

---------------------------------------------------------------------------
(* Lemmas about keys and their breaks.                                     *)

\* Anything but a key may join a queue of paired keys.
LEMMA AppendKeepsPaired ==
  ASSUME NEW q \in Seq(Message), NEW c \in Message, c # "key", Paired(q)
  PROVE  Paired(Append(q, c))
BY DEF Paired

\* So may a key with its break behind it.
LEMMA PairKeepsPaired ==
  ASSUME NEW q \in Seq(Message), Paired(q)
  PROVE  Paired(Append(Append(q, "key"), "break"))
<1> DEFINE r == Append(Append(q, "key"), "break")
<1>1. /\ DOMAIN q = 1..Len(q) /\ Len(q) \in Nat
      /\ DOMAIN r = 1..(Len(q) + 2)
      /\ \A i \in 1..Len(q) : r[i] = q[i]
      /\ r[Len(q) + 1] = "key" /\ r[Len(q) + 2] = "break"
  OBVIOUS
<1> HIDE DEF r
<1>2. ASSUME NEW i \in DOMAIN r, r[i] = "key"
      PROVE  i + 1 \in DOMAIN r /\ r[i + 1] = "break"
  <2>1. CASE i \in DOMAIN q
    <3>1. i + 1 \in DOMAIN q /\ q[i + 1] = "break"
      BY <1>1, <1>2, <2>1 DEF Paired
    <3> QED BY <1>1, <3>1
  <2>2. CASE i \notin DOMAIN q
    BY <1>1, <1>2, <2>2
  <2> QED BY <2>1, <2>2
<1> QED BY <1>2 DEF Paired, r

\* What is left of such a queue without its head is paired, and begins with
\* the break if the head was a key.
LEMMA TailKeepsPaired ==
  ASSUME NEW q \in Seq(Message), q # <<>>, Paired(q)
  PROVE  /\ Paired(Tail(q))
         /\ Head(q) = "key" => Tail(q) # <<>> /\ Tail(q)[1] = "break"
<1>1. /\ DOMAIN q = 1..Len(q) /\ Len(q) \in Nat \ {0}
      /\ DOMAIN Tail(q) = 1..(Len(q) - 1) /\ Len(Tail(q)) = Len(q) - 1
      /\ \A i \in 1..(Len(q) - 1) : Tail(q)[i] = q[i + 1]
      /\ Head(q) = q[1]
  OBVIOUS
<1>2. ASSUME NEW i \in DOMAIN Tail(q), Tail(q)[i] = "key"
      PROVE  i + 1 \in DOMAIN Tail(q) /\ Tail(q)[i + 1] = "break"
  <2>1. i + 1 \in DOMAIN q /\ q[i + 1] = "key"
    BY <1>1, <1>2
  <2>2. (i + 1) + 1 \in DOMAIN q /\ q[(i + 1) + 1] = "break"
    BY <2>1 DEF Paired
  <2> QED BY <1>1, <1>2, <2>2
<1>3. ASSUME Head(q) = "key"
      PROVE  Tail(q) # <<>> /\ Tail(q)[1] = "break"
  <2>1. 1 \in DOMAIN q /\ q[1] = "key"
    BY <1>1, <1>3
  <2>2. 1 + 1 \in DOMAIN q /\ q[1 + 1] = "break"
    BY <2>1 DEF Paired
  <2>3. 1 \in DOMAIN Tail(q) /\ Tail(q)[1] = q[1 + 1]
    BY <1>1, <2>2
  <2>4. Len(Tail(q)) # 0
    BY <1>1, <2>2
  <2>5. Len(<<>>) = 0
    OBVIOUS
  <2>6. Tail(q) # <<>>
    BY <2>4, <2>5, Zenon
  <2> QED BY <2>2, <2>3, <2>6
<1> QED BY <1>2, <1>3 DEF Paired

\* Writing the head parts no key from its break.
LEMMA WritePacketUnparted ==
  ASSUME NEW t \in Sender, Unparted(t)
  PROVE  Unparted(WritePacket(t))
<1>1. t.queue \in Seq(Message)
  BY DEF Sender
<1>2. CASE t.queue = <<>>
  BY <1>2, WritePacketEffect DEF Unparted
<1>3. CASE t.queue # <<>>
  BY <1>1, <1>3, WritePacketEffect, TailKeepsPaired DEF Unparted
<1> QED BY <1>2, <1>3

\* Nor does sending one command that is not a key.
LEMMA SendCommandUnparted ==
  ASSUME NEW t \in Sender, NEW up, NEW c \in Message, c # "key", Unparted(t)
  PROVE  Unparted(SendCommand(t, up, c))
<1> DEFINE s == SendCommand(t, up, c)
           q == Append(t.queue, c)
<1>1. t.queue \in Seq(Message) /\ q \in Seq(Message) /\ q # <<>>
  BY DEF Sender
<1>2. Paired(q)
  BY <1>1, AppendKeepsPaired DEF Unparted
<1>3. CASE up /\ ~t.waiting
  <2>1. s.queue = Tail(q) /\ s.last = Head(q)
    BY <1>3, SendCommandWrites
  <2> QED BY <1>1, <1>2, <2>1, TailKeepsPaired DEF Unparted
<1>4. CASE ~(up /\ ~t.waiting)
  <2>1. s.queue = q /\ s.last = t.last
    BY <1>4, SendCommandQueues
  <2>2. t.queue # <<>> => q[1] = t.queue[1]
    BY <1>1
  <2> QED BY <1>1, <1>2, <2>1, <2>2 DEF Unparted
<1> QED BY <1>3, <1>4

\* A key and its break, sent by one handler, stay together: either both join
\* the queue, or the queue is empty and the break is alone in it.
LEMMA KeyPressUnparted ==
  ASSUME NEW t \in Sender, NEW up, Unparted(t),
         up /\ t.queue # <<>> => t.waiting
  PROVE  Unparted(SendCommand(SendCommand(t, up, "key"), up, "break"))
<1> DEFINE s == SendCommand(t, up, "key")
           u == SendCommand(s, up, "break")
<1>1. "key" \in Message /\ "break" \in Message
  BY DEF Message, Internal
<1>2. t.queue \in Seq(Message)
  BY DEF Sender
<1>3. CASE up /\ ~t.waiting
  <2>1. t.queue = <<>>
    BY <1>3
  <2>2. /\ s \in Sender /\ s.waiting
        /\ s.queue = Tail(Append(t.queue, "key"))
        /\ s.last = Head(Append(t.queue, "key"))
    BY <1>1, <1>3, SendCommandWrites
  <2>3. s.queue = <<>> /\ s.last = "key"
    BY <1>1, <2>1, <2>2
  <2>4. u.queue = <<"break">> /\ u.last = "key"
    BY <1>1, <2>2, <2>3, SendCommandQueues
  <2> QED BY <2>4 DEF Unparted, Paired
<1>4. CASE ~(up /\ ~t.waiting)
  <2>1. /\ s \in Sender /\ ~(up /\ ~s.waiting)
        /\ s.queue = Append(t.queue, "key") /\ s.last = t.last
    BY <1>1, <1>4, SendCommandQueues
  <2>2. u.queue = Append(s.queue, "break") /\ u.last = s.last
    BY <1>1, <2>1, SendCommandQueues
  <2>3. Paired(Append(Append(t.queue, "key"), "break"))
    BY <1>2, PairKeepsPaired DEF Unparted
  <2>4. t.queue # <<>> => u.queue[1] = t.queue[1]
    BY <1>2, <2>1, <2>2
  <2>5. u.queue # <<>>
    BY <1>2, <2>1, <2>2
  <2> QED BY <2>1, <2>2, <2>3, <2>4, <2>5 DEF Unparted
<1> QED BY <1>3, <1>4

---------------------------------------------------------------------------
(* The inductive invariant.                                                *)

\* The lines there are.
LEMMA LinesAre == Lines = {"ack", "nak", "event", "zone64", "trouble"}
BY DEF Lines, LineLen

\* The class's own commands, and the callers', can be sent.
LEMMA Sendable ==
  /\ "status" \in Message /\ "poll" \in Message /\ "time" \in Message
  /\ "key" \in Message /\ "break" \in Message
  /\ \A c \in Commands : c \in Message /\ c # "key"
BY LinkAssumption DEF LinkAssumption, Message, Internal

THEOREM InitIndInv == Init => IndInv
<1> SUFFICES ASSUME Init PROVE IndInv
  OBVIOUS
<1>1. SenderInv(tx, connected)
  <2>1. [queue |-> <<>>, waiting |-> FALSE, wire |-> <<>>, last |-> "none"] \in Sender
    BY DEF Sender
  <2> QED BY <2>1 DEF Init, SenderInv, Unparted, Paired
<1>2. Numbers /\ toHost \in Seq(Lines)
  BY DEF Init, Numbers
<1>3. Flags
  BY Zenon DEF Init, Flags, Untouched, ProbeBeforeTimeout, GoodIsCurrent
<1> QED BY <1>1, <1>2, <1>3 DEF IndInv

\* Opening the connection.
LEMMA OpenFirstStep == ASSUME IndInv, OpenFirst PROVE IndInv'
<1>1. SenderInv(tx', connected')
  BY Zenon DEF IndInv, OpenFirst
<1>2. Numbers' /\ toHost' \in Seq(Lines)
  BY DEF IndInv, OpenFirst, Open, Flags, Untouched, Numbers
<1>3. Flags'
  BY Zenon DEF IndInv, OpenFirst, Open, watch, Flags, Untouched,
               ProbeBeforeTimeout, GoodIsCurrent
<1> QED BY <1>1, <1>2, <1>3 DEF IndInv

\* The handler of a lost or refused connection, with a sender that keeps its
\* queue and what it waits for.
LEMMA OnUnconnectedStep ==
  ASSUME IndInv, OnUnconnected, SenderInv(tx', FALSE), toHost' \in Seq(Lines),
         extra' \in Nat,
         UNCHANGED <<armed, polled, lastRx, status, floodWait, muted, rejected>>
  PROVE  IndInv'
<1>1. SenderInv(tx', connected')
  BY Zenon DEF SenderInv, OnUnconnected, LoseContact
<1>2. Numbers'
  BY DEF IndInv, OnUnconnected, TryAtOnce, Open, Numbers
<1>3. Flags'
  BY Zenon DEF IndInv, OnUnconnected, LoseContact, TryAtOnce, Open, Flags,
               Untouched, ProbeBeforeTimeout, GoodIsCurrent
<1> QED BY <1>1, <1>2, <1>3 DEF IndInv

LEMMA ConnectFailedStep == ASSUME IndInv, ConnectFailed PROVE IndInv'
<1>1. OnUnconnected /\ UNCHANGED <<tx, toHost, armed, polled, lastRx, status,
                                   floodWait, muted, rejected, extra>>
  BY Zenon DEF ConnectFailed
<1>2. SenderInv(tx', FALSE) /\ toHost' \in Seq(Lines) /\ extra' \in Nat
  BY <1>1, Zenon DEF IndInv, SenderInv, Numbers
<1> QED BY <1>1, <1>2, OnUnconnectedStep

LEMMA DropStep == ASSUME IndInv, Drop PROVE IndInv'
<1>1. OnUnconnected /\ UNCHANGED <<armed, polled, lastRx, status, floodWait,
                                   muted, rejected>>
  BY Zenon DEF Drop
<1>2. tx \in Sender /\ tx' = [tx EXCEPT !.wire = <<>>]
  BY Zenon DEF Drop, IndInv, SenderInv
<1>3. <<>> \in Seq(Message)
  OBVIOUS
<1>4. tx' \in Sender /\ tx'.queue = tx.queue /\ tx'.last = tx.last
  BY <1>2, <1>3, WireReplaced
<1>5. SenderInv(tx', FALSE)
  BY <1>4, Zenon DEF IndInv, SenderInv, Unparted
<1>6. toHost' \in Seq(Lines) /\ extra' \in Nat
  BY DEF Drop
<1> QED BY <1>1, <1>5, <1>6, OnUnconnectedStep

\* The retry timer opens nothing.
LEMMA RetryTimerStep == ASSUME IndInv, RetryTimer PROVE IndInv'
<1>1. RetrySlot \notin Slots
  BY DEF RetrySlot, Slots
<1>2. retry' = FALSE /\ UNCHANGED <<sock, intent, attempts, connected, tx,
                                    toHost, watch, muted, extra>>
  BY <1>1, Zenon DEF RetryTimer
<1>3. SenderInv(tx', connected') /\ Numbers' /\ toHost' \in Seq(Lines)
  BY <1>2, Zenon DEF IndInv, Numbers
<1>4. Flags'
  BY <1>2, Zenon DEF IndInv, watch, Flags, Untouched, ProbeBeforeTimeout, GoodIsCurrent
<1> QED BY <1>3, <1>4 DEF IndInv

\* A new connection: what was queued, then the status request.
LEMMA SocketConnectedStep == ASSUME IndInv, SocketConnected PROVE IndInv'
<1> DEFINE t == GetGoing(tx)
<1>1. t \in Sender /\ Unparted(t)
  BY GetGoingEffect DEF IndInv, SenderInv, Unparted
<1>2. tx' = SendCommand(t, TRUE, "status")
  BY Zenon DEF SocketConnected, StartSession
<1>3. SenderInv(tx', connected') /\ tx'.waiting
  BY <1>1, <1>2, Sendable, SendCommandSound, SendCommandUnparted DEF SenderInv
<1>4. Numbers' /\ toHost' \in Seq(Lines)
  BY DEF SocketConnected, StartSession, ForgetAttempts, IndInv, Numbers
<1>5. Flags'
  BY Zenon DEF SocketConnected, StartSession, ForgetAttempts, IndInv, Flags, Untouched,
               ProbeBeforeTimeout, GoodIsCurrent
<1> QED BY <1>3, <1>4, <1>5 DEF IndInv

\* A line is read: the next command goes, and an accepted line makes contact.
LEMMA ReadLineStep == ASSUME IndInv, ReadLine PROVE IndInv'
<1> DEFINE l == Head(toHost)
<1>1. tx' = WritePacket(tx) /\ toHost' = Tail(toHost) /\ toHost # <<>>
  BY Zenon DEF ReadLine
<1>2. SenderInv(tx', connected')
  <2>1. SenderInv(WritePacket(tx), connected)
    BY WritePacketEffect, WritePacketUnparted DEF IndInv, SenderInv
  <2> QED BY <1>1, <2>1, Zenon DEF ReadLine, session
<1>3. toHost' \in Seq(Lines)
  BY <1>1 DEF IndInv
<1>4. Numbers'
  <2>1. attempts' = attempts
    BY Zenon DEF ReadLine, session
  <2>2. extra' = 0 \/ extra' = extra \/ extra' = extra + 1
    BY Zenon DEF ReadLine
  <2> QED BY <2>1, <2>2 DEF IndInv, Numbers
<1>5. Flags'
  <2>1. CASE Accepts(l)
    <3>1. Heed(l)
      BY <2>1, Zenon DEF ReadLine
    <3>2. (floodWait /\ ~FloodEndedBy(l)) \in BOOLEAN
      BY Zenon DEF IndInv, Flags
    <3> QED BY <3>1, <3>2, Zenon DEF ReadLine, session, Heed, IndInv, Flags,
                 Untouched, ProbeBeforeTimeout, GoodIsCurrent
  <2>2. CASE ~Accepts(l)
    <3>1. rejected' = TRUE /\ UNCHANGED <<polled, lastRx, floodWait, good, status>>
      BY <2>2, Zenon DEF ReadLine
    <3> QED BY <3>1, Zenon DEF ReadLine, session, IndInv, Flags,
                 Untouched, ProbeBeforeTimeout, GoodIsCurrent
  <2> QED BY <2>1, <2>2
<1> QED BY <1>2, <1>3, <1>4, <1>5 DEF IndInv

\* What a step that only sends leaves of the flags.
LEMMA FlagsKept ==
  ASSUME IndInv, UNCHANGED <<session, watch, muted>>,
         connected /\ tx.waiting => tx'.waiting
  PROVE  Flags'
BY Zenon DEF IndInv, session, watch, Flags, Untouched, ProbeBeforeTimeout, GoodIsCurrent

\* One command that is not a key is sent.
LEMMA SendStep ==
  ASSUME IndInv, NEW c \in Message, c # "key",
         tx' = SendCommand(tx, connected, c), connected' = connected
  PROVE  SenderInv(tx', connected') /\ (connected => tx'.waiting)
<1>1. SenderInv(SendCommand(tx, connected, c), connected)
  BY SendCommandSound, SendCommandUnparted DEF IndInv, SenderInv
<1>2. connected => SendCommand(tx, connected, c).waiting
  BY SendCommandSound DEF IndInv, SenderInv
<1> QED BY <1>1, <1>2, Zenon

\* The poll timer: a poll is sent, or left out behind an awaited command.
LEMMA PollTimerStep == ASSUME IndInv, PollTimer PROVE IndInv'
<1>1. UNCHANGED <<session, toHost, armed, lastRx, good, status, floodWait,
                  muted, rejected, extra>> /\ polled' = TRUE
  BY Zenon DEF PollTimer
<1>2. SenderInv(tx', connected') /\ (connected => tx'.waiting)
  <2>1. CASE connected /\ Len(tx.queue) < MaxPending
    <3>1. tx' = SendCommand(tx, connected, "poll")
      BY <2>1 DEF PollTimer, PollDue
    <3> QED BY <1>1, <3>1, Sendable, SendStep, Zenon DEF session
  <2>2. CASE ~(connected /\ Len(tx.queue) < MaxPending)
    <3>1. tx' = tx
      BY <2>2, Zenon DEF PollTimer, PollDue
    <3>2. connected => tx.queue # <<>>
      BY <2>2, LinkAssumption DEF LinkAssumption
    <3> QED BY <1>1, <3>1, <3>2, Zenon DEF IndInv, SenderInv, session
  <2> QED BY <2>1, <2>2
<1>3. Numbers' /\ toHost' \in Seq(Lines)
  BY <1>1, Zenon DEF IndInv, Numbers, session
<1>4. Flags'
  BY <1>1, <1>2, Zenon DEF IndInv, session, Flags, Untouched,
               ProbeBeforeTimeout, GoodIsCurrent
<1> QED BY <1>2, <1>3, <1>4 DEF IndInv

LEMMA TimeTimerStep == ASSUME IndInv, TimeTimer PROVE IndInv'
<1>1. /\ tx' = SendCommand(tx, connected, "time")
      /\ UNCHANGED <<session, toHost, watch, muted, extra>>
  BY Zenon DEF TimeTimer
<1>2. SenderInv(tx', connected') /\ (connected => tx'.waiting)
  BY <1>1, Sendable, SendStep, Zenon DEF session
<1>3. Numbers' /\ toHost' \in Seq(Lines) /\ Flags'
  BY <1>1, <1>2, FlagsKept, Zenon DEF IndInv, Numbers, session
<1> QED BY <1>2, <1>3 DEF IndInv

LEMMA AppCommandStep ==
  ASSUME IndInv, NEW c \in Commands, AppCommand(c)
  PROVE  IndInv'
<1>1. /\ tx' = SendCommand(tx, connected, c)
      /\ UNCHANGED <<session, toHost, watch, muted, extra>>
  BY Zenon DEF AppCommand
<1>2. SenderInv(tx', connected') /\ (connected => tx'.waiting)
  BY <1>1, Sendable, SendStep, Zenon DEF session
<1>3. Numbers' /\ toHost' \in Seq(Lines) /\ Flags'
  BY <1>1, <1>2, FlagsKept, Zenon DEF IndInv, Numbers, session
<1> QED BY <1>2, <1>3 DEF IndInv

LEMMA KeyPressStep == ASSUME IndInv, KeyPress PROVE IndInv'
<1> DEFINE s == SendCommand(tx, connected, "key")
           u == SendCommand(s, connected, "break")
<1>1. tx' = u /\ UNCHANGED <<session, toHost, watch, muted, extra>>
  BY Zenon DEF KeyPress
<1>2. s \in Sender
  BY Sendable, SendCommandSound DEF IndInv, SenderInv
<1>3. u \in Sender /\ (connected => u.waiting)
  BY <1>2, Sendable, SendCommandSound
<1>4. Unparted(u)
  BY KeyPressUnparted DEF IndInv, SenderInv
<1> HIDE DEF u
<1>5. SenderInv(tx', connected') /\ (connected => tx'.waiting)
  BY <1>1, <1>3, <1>4, Zenon DEF SenderInv, session
<1>6. Numbers' /\ toHost' \in Seq(Lines) /\ Flags'
  BY <1>1, <1>5, FlagsKept, Zenon DEF IndInv, Numbers, session
<1> QED BY <1>5, <1>6 DEF IndInv

\* The communications timer only changes what is thought of the module.
LEMMA CommsTimerStep == ASSUME IndInv, CommsTimer PROVE IndInv'
<1>1. /\ UNCHANGED <<session, tx, toHost, armed, floodWait, muted, rejected, extra>>
      /\ polled' = FALSE
      /\ lastRx' = IF lastRx = "recent" THEN "old" ELSE lastRx
      /\ \/ status' = "failed" /\ good' = FALSE
         \/ status' = status /\ good' = good
  BY Zenon DEF CommsTimer, TimedOut
<1>2. SenderInv(tx', connected') /\ Numbers' /\ toHost' \in Seq(Lines)
  BY <1>1, Zenon DEF IndInv, Numbers, session
<1>3. Flags'
  <2>1. lastRx' \in {"never", "recent", "old"} /\ (lastRx # "never" => lastRx' # "never")
    BY <1>1, Zenon DEF IndInv, Flags
  <2>2. CASE status' = "failed" /\ good' = FALSE
    BY <1>1, <2>1, <2>2, Zenon DEF IndInv, session, Flags, Untouched,
                 ProbeBeforeTimeout, GoodIsCurrent
  <2>3. CASE status' = status /\ good' = good
    BY <1>1, <2>1, <2>3, Zenon DEF IndInv, session, Flags, Untouched,
                 ProbeBeforeTimeout, GoodIsCurrent
  <2> QED BY <1>1, <2>2, <2>3
<1> QED BY <1>2, <1>3 DEF IndInv

\* What the environment does reaches the class only through the two wires.
LEMMA WireStep ==
  ASSUME IndInv, NEW w \in Seq(Message), tx' = [tx EXCEPT !.wire = w],
         UNCHANGED <<session, watch, muted, extra>>, toHost' \in Seq(Lines)
  PROVE  IndInv'
<1>1. /\ tx' \in Sender
      /\ tx'.queue = tx.queue /\ tx'.waiting = tx.waiting /\ tx'.last = tx.last
  BY WireReplaced DEF IndInv, SenderInv
<1>2. SenderInv(tx', connected')
  BY <1>1, Zenon DEF IndInv, SenderInv, Unparted, session
<1>3. Numbers' /\ Flags'
  BY <1>1, FlagsKept, Zenon DEF IndInv, Numbers, session
<1> QED BY <1>2, <1>3 DEF IndInv

LEMMA AnswerStep ==
  ASSUME IndInv, NEW lines \in Seq(Lines), Answer(lines)
  PROVE  IndInv'
<1>1. Tail(tx.wire) \in Seq(Message)
  BY DEF Answer, IndInv, SenderInv, Sender
<1>2. /\ tx' = [tx EXCEPT !.wire = Tail(tx.wire)]
      /\ UNCHANGED <<session, watch, muted, extra>>
  BY Zenon DEF Answer
<1>3. toHost' \in Seq(Lines)
  BY DEF Answer, IndInv
<1> QED BY <1>1, <1>2, <1>3, WireStep

LEMMA LoseCommandStep == ASSUME IndInv, LoseCommand PROVE IndInv'
<1>1. Tail(tx.wire) \in Seq(Message)
  BY DEF LoseCommand, IndInv, SenderInv, Sender
<1>2. /\ tx' = [tx EXCEPT !.wire = Tail(tx.wire)]
      /\ UNCHANGED <<session, watch, muted, extra>>
  BY Zenon DEF LoseCommand
<1>3. toHost' \in Seq(Lines)
  BY Zenon DEF LoseCommand, IndInv
<1> QED BY <1>1, <1>2, <1>3, WireStep

\* Lines come and go, or come no more, without the class's knowing.
LEMMA UnseenStep ==
  ASSUME IndInv, UNCHANGED <<session, tx, watch, extra>>, muted' \in BOOLEAN,
         toHost' \in Seq(Lines)
  PROVE  IndInv'
<1>1. SenderInv(tx', connected') /\ Numbers'
  BY Zenon DEF IndInv, Numbers, session
<1>2. Flags'
  BY Zenon DEF IndInv, session, watch, Flags, Untouched, ProbeBeforeTimeout, GoodIsCurrent
<1> QED BY <1>1, <1>2 DEF IndInv

LEMMA PanelEventStep ==
  ASSUME IndInv, NEW l \in Lines, PanelEvent(l)
  PROVE  IndInv'
<1>1. toHost' \in Seq(Lines)
  BY DEF PanelEvent, IndInv
<1>2. UNCHANGED <<session, tx, watch, extra>> /\ muted' \in BOOLEAN
  BY Zenon DEF PanelEvent, IndInv, Flags
<1> QED BY <1>1, <1>2, UnseenStep

LEMMA LoseLineStep == ASSUME IndInv, LoseLine PROVE IndInv'
<1>1. toHost' \in Seq(Lines)
  BY DEF LoseLine, IndInv
<1>2. UNCHANGED <<session, tx, watch, extra>> /\ muted' \in BOOLEAN
  BY Zenon DEF LoseLine, IndInv, Flags
<1> QED BY <1>1, <1>2, UnseenStep

LEMMA MuteStep == ASSUME IndInv, Mute PROVE IndInv'
BY UnseenStep, Zenon DEF Mute, IndInv

\* Every step keeps the inductive invariant.
THEOREM NextIndInv == IndInv /\ [Next]_vars => IndInv'
<1> SUFFICES ASSUME IndInv, [Next]_vars PROVE IndInv'
  OBVIOUS
<1>1. CASE OpenFirst \/ SocketConnected \/ ConnectFailed \/ Drop \/ RetryTimer
  BY <1>1, OpenFirstStep, SocketConnectedStep, ConnectFailedStep, DropStep,
     RetryTimerStep
<1>2. CASE ReadLine \/ PollTimer \/ TimeTimer \/ CommsTimer
  BY <1>2, ReadLineStep, PollTimerStep, TimeTimerStep, CommsTimerStep
<1>3. CASE KeyPress \/ \E c \in Commands : AppCommand(c)
  BY <1>3, KeyPressStep, AppCommandStep
<1>4. CASE PanelAnswer \/ PanelRefuse
  <2>1. <<"ack", "zone64">> \in Seq(Lines) /\ <<"ack">> \in Seq(Lines)
        /\ <<"nak">> \in Seq(Lines)
    BY LinesAre
  <2>2. \E lines \in Seq(Lines) : Answer(lines)
    BY <1>4, <2>1 DEF PanelAnswer, PanelRefuse, AnswerTo
  <2> QED BY <2>2, AnswerStep
<1>5. CASE \E l \in Lines \ Replies : PanelEvent(l)
  BY <1>5, PanelEventStep
<1>6. CASE LoseCommand \/ LoseLine \/ Mute
  BY <1>6, LoseCommandStep, LoseLineStep, MuteStep
<1>7. CASE UNCHANGED vars
  <2>1. UNCHANGED <<session, tx, watch, extra>> /\ muted' = muted /\ toHost' = toHost
    BY <1>7, Zenon DEF vars, session, watch
  <2> QED BY <2>1, UnseenStep, Zenon DEF IndInv, Flags
<1> QED BY <1>1, <1>2, <1>3, <1>4, <1>5, <1>6, <1>7 DEF Next

THEOREM IndInvHolds == Spec => []IndInv
BY InitIndInv, NextIndInv, PTL DEF Spec

---------------------------------------------------------------------------
(* What follows from it.                                                   *)

\* Every variable keeps its type, whatever the faults and the bounds.
THEOREM TypeCorrect == Spec => []TypeOK
<1>1. IndInv => TypeOK
  BY Zenon DEF IndInv, SenderInv, Numbers, Flags, TypeOK
<1> QED BY <1>1, IndInvHolds, PTL

\* The queue never waits on a connection for a reply that is not due.
THEOREM NoLostWakeUp == Spec => []NoIdleBacklog
<1>1. IndInv => NoIdleBacklog
  BY Zenon DEF IndInv, SenderInv, NoIdleBacklog
<1> QED BY <1>1, IndInvHolds, PTL

\* Nothing is ever written, or queued, between a key and its break.
THEOREM KeysAreBroken == Spec => []KeyBreakFollows
<1>1. IndInv => KeyBreakFollows
  BY Zenon DEF IndInv, SenderInv, KeyBreakFollows
<1> QED BY <1>1, IndInvHolds, PTL

\* The communications timer never finds a silence nobody has tested.
THEOREM TimeoutIsProbed == Spec => []ProbeBeforeTimeout
<1>1. IndInv => ProbeBeforeTimeout
  BY Zenon DEF IndInv, Flags
<1> QED BY <1>1, IndInvHolds, PTL

\* Communications are not thought good after the connection they were on.
THEOREM GoodStaysCurrent == Spec => []GoodIsCurrent
<1>1. IndInv => GoodIsCurrent
  BY Zenon DEF IndInv, Flags
<1> QED BY <1>1, IndInvHolds, PTL

---------------------------------------------------------------------------
(* The class implements a first-in first-out pipe.                         *)

LEMMA AcceptedAre ==
  /\ tx.queue \in Pipe!Accepted
  /\ \A c \in Message : Append(tx.queue, c) \in Pipe!Accepted
  /\ \A c, d \in Message : Append(Append(tx.queue, c), d) \in Pipe!Accepted
BY DEF Pipe!Accepted

\* One command sent: it is accepted, or it is accepted and the oldest leaves.
LEMMA SendIsPipeStep ==
  ASSUME NEW t \in Sender, t.queue = tx.queue, t.last = tx.last,
         NEW up, NEW c \in Message, tx' = SendCommand(t, up, c)
  PROVE  Pipe!PipeNext
<1>1. CASE up /\ ~t.waiting
  <2>1. /\ tx'.queue = Tail(Append(tx.queue, c))
        /\ tx'.last = Head(Append(tx.queue, c))
    BY <1>1, SendCommandWrites
  <2>2. Append(tx.queue, c) \in Pipe!Accepted /\ Append(tx.queue, c) # <<>>
    BY AcceptedAre, SMTT(60) DEF Sender
  <2> QED BY <2>1, <2>2, Zenon DEF Pipe!PipeNext, Pipe!Depart
<1>2. CASE ~(up /\ ~t.waiting)
  <2>1. tx'.queue = Append(tx.queue, c) /\ tx'.last = tx.last
    BY <1>2, SendCommandQueues
  <2>2. tx'.queue \in Pipe!Accepted
    BY <2>1, AcceptedAre, Zenon
  <2> QED BY <2>1, <2>2, Zenon DEF Pipe!PipeNext, Pipe!Accept
<1> QED BY <1>1, <1>2

\* A key and its break are accepted together; if the key is written at once,
\* the queue was empty, and the break stays.
LEMMA KeyPressIsPipeStep == ASSUME IndInv, KeyPress PROVE Pipe!PipeNext
<1> DEFINE s == SendCommand(tx, connected, "key")
           p == Append(Append(tx.queue, "key"), "break")
<1>1. tx' = SendCommand(s, connected, "break")
  BY Zenon DEF KeyPress
<1>2. p \in Pipe!Accepted
  BY Sendable, AcceptedAre, Zenon
<1>3. tx \in Sender
  BY Zenon DEF IndInv, SenderInv
<1>4. CASE connected /\ ~tx.waiting
  <2>1. tx.queue = <<>>
    BY <1>4, Zenon DEF IndInv, SenderInv
  <2>2. /\ s \in Sender /\ s.waiting
        /\ s.queue = Tail(Append(tx.queue, "key"))
        /\ s.last = Head(Append(tx.queue, "key"))
    BY <1>3, <1>4, Sendable, SendCommandWrites
  <2>3. tx'.queue = Append(s.queue, "break") /\ tx'.last = s.last
    BY <1>1, <2>2, Sendable, SendCommandQueues
  <2>4. tx'.queue = Tail(p) /\ tx'.last = Head(p) /\ p # <<>>
    BY <2>1, <2>2, <2>3
  <2> QED BY <1>2, <2>4, Zenon DEF Pipe!PipeNext, Pipe!Depart
<1>5. CASE ~(connected /\ ~tx.waiting)
  <2>1. /\ s \in Sender /\ s.waiting = tx.waiting
        /\ s.queue = Append(tx.queue, "key") /\ s.last = tx.last
    BY <1>3, <1>5, Sendable, SendCommandQueues
  <2>2. tx'.queue = p /\ tx'.last = tx.last
    BY <1>1, <1>5, <2>1, Sendable, SendCommandQueues, SMTT(60)
  <2> QED BY <1>2, <2>2, Zenon DEF Pipe!PipeNext, Pipe!Accept
<1> QED BY <1>4, <1>5

\* A line read lets the oldest command leave, if there is one.
LEMMA ReadLineIsPipeStep ==
  ASSUME IndInv, ReadLine
  PROVE  [Pipe!PipeNext]_(Pipe!pipeVars)
<1>1. tx' = WritePacket(tx) /\ tx \in Sender
  BY Zenon DEF ReadLine, IndInv, SenderInv
<1>2. CASE tx.queue = <<>>
  BY <1>1, <1>2, WritePacketEffect DEF Pipe!pipeVars
<1>3. CASE tx.queue # <<>>
  <2>1. tx'.queue = Tail(tx.queue) /\ tx'.last = Head(tx.queue)
    BY <1>1, <1>3, WritePacketEffect
  <2>2. tx.queue \in Pipe!Accepted
    BY AcceptedAre
  <2> QED BY <1>3, <2>1, <2>2, Zenon DEF Pipe!PipeNext, Pipe!Depart
<1> QED BY <1>2, <1>3

\* Every step is a step of the pipe or leaves it alone.
LEMMA NextIsPipeStep ==
  ASSUME IndInv, [Next]_vars
  PROVE  [Pipe!PipeNext]_(Pipe!pipeVars)
<1>1. tx \in Sender
  BY Zenon DEF IndInv, SenderInv
<1>2. CASE tx'.queue = tx.queue /\ tx'.last = tx.last
  BY <1>2, Zenon DEF Pipe!pipeVars
<1>3. ASSUME NEW w, tx' = [tx EXCEPT !.wire = w], w \in Seq(Message)
      PROVE  tx'.queue = tx.queue /\ tx'.last = tx.last
  BY <1>1, <1>3, WireReplaced
<1>4. Tail(tx.wire) \in Seq(Message) \/ tx.wire = <<>>
  BY <1>1 DEF Sender
<1>5. <<>> \in Seq(Message)
  OBVIOUS
<1>6. CASE OpenFirst \/ ConnectFailed \/ RetryTimer \/ CommsTimer \/ LoseLine
           \/ Mute \/ (\E l \in Lines \ Replies : PanelEvent(l)) \/ UNCHANGED vars
  <2>1. tx' = tx
    BY <1>6, Zenon DEF OpenFirst, ConnectFailed, RetryTimer, CommsTimer, LoseLine,
               Mute, PanelEvent, vars
  <2> QED BY <1>2, <2>1
<1>7. CASE Drop \/ LoseCommand \/ PanelAnswer \/ PanelRefuse
  <2>1. tx' = [tx EXCEPT !.wire = <<>>]
        \/ (tx' = [tx EXCEPT !.wire = Tail(tx.wire)] /\ tx.wire # <<>>)
    BY <1>7, Zenon DEF Drop, LoseCommand, PanelAnswer, PanelRefuse, Answer
  <2> QED BY <1>2, <1>3, <1>4, <1>5, <2>1
<1>8. CASE SocketConnected
  <2>1. /\ GetGoing(tx) \in Sender
        /\ GetGoing(tx).queue = tx.queue /\ GetGoing(tx).last = tx.last
    BY <1>1, GetGoingEffect
  <2>2. tx' = SendCommand(GetGoing(tx), TRUE, "status")
    BY <1>8, Zenon DEF SocketConnected, StartSession
  <2> QED BY <2>1, <2>2, Sendable, SendIsPipeStep
<1>9. CASE PollTimer
  <2>1. tx' = tx \/ tx' = SendCommand(tx, connected, "poll")
    BY <1>9, Zenon DEF PollTimer
  <2> QED BY <1>1, <1>2, <2>1, Sendable, SendIsPipeStep
<1>10. CASE TimeTimer \/ \E c \in Commands : AppCommand(c)
  <2>1. \E c \in Message : tx' = SendCommand(tx, connected, c)
    BY <1>10, Sendable, Zenon DEF TimeTimer, AppCommand
  <2> QED BY <1>1, <2>1, SendIsPipeStep
<1> QED BY <1>6, <1>7, <1>8, <1>9, <1>10, KeyPressIsPipeStep, ReadLineIsPipeStep
        DEF Next

\* The queue is a pipe: whatever happens to the connection, commands leave in
\* the order they were accepted in, each once.
THEOREM LinkImplementsPipe == Spec => ImplementsPipe
<1>1. Init => Pipe!PipeInit
  BY DEF Init, Pipe!PipeInit
<1>2. IndInv /\ [Next]_vars => [Pipe!PipeNext]_(Pipe!pipeVars)
  BY NextIsPipeStep
<1> QED BY <1>1, <1>2, IndInvHolds, PTL DEF Spec, ImplementsPipe, Pipe!PipeSpec

---------------------------------------------------------------------------
(* The link implements what its signals promise.                           *)

\* Once a line was received, the status is known: a timeout, which needs a line
\* to have been received, is never the first thing reported.
Reported == lastRx # "never" => status # "unknown"

LEMMA ReportedKept ==
  ASSUME IndInv, Reported, [Next]_vars
  PROVE  Reported'
<1>1. good => status = "ok"
  BY Zenon DEF IndInv, Flags, GoodIsCurrent
<1>2. CASE ReadLine
  <2>1. UNCHANGED <<lastRx, status>> \/ status' = "ok"
    BY <1>1, <1>2 DEF ReadLine, Heed
  <2> QED BY <2>1 DEF Reported
<1>3. CASE CommsTimer
  <2>1. status' = status \/ status' = "failed"
    BY <1>3, Zenon DEF CommsTimer, TimedOut
  <2>2. lastRx' # "never" => lastRx # "never"
    BY <1>3 DEF CommsTimer
  <2> QED BY <2>1, <2>2 DEF Reported
<1>4. CASE ~(ReadLine \/ CommsTimer)
  <2>1. UNCHANGED <<lastRx, status>>
    BY <1>4, Zenon DEF Next, vars, watch, OpenFirst, SocketConnected, ConnectFailed,
       Drop, RetryTimer, PollTimer, TimeTimer, AppCommand, KeyPress, Answer,
       PanelAnswer, PanelRefuse, PanelEvent, LoseCommand, LoseLine, Mute
  <2> QED BY <2>1 DEF Reported
<1> QED BY <1>2, <1>3, <1>4

LEMMA NextIsSignalStep ==
  ASSUME IndInv, Reported, [Next]_vars
  PROVE  [Signals!LinkNext]_(Signals!linkVars)
<1>1. /\ good => connected /\ status = "ok"
      /\ connected <=> sock = "connected"
      /\ connected \in BOOLEAN /\ good \in BOOLEAN
  BY Zenon DEF IndInv, Flags, GoodIsCurrent
<1>2. CASE SocketConnected
  BY <1>1, <1>2 DEF SocketConnected, Signals!LinkNext, Signals!LinkConnect
<1>3. CASE ConnectFailed
  <2>1. UNCHANGED <<connected, good, status>>
    BY <1>1, <1>3 DEF ConnectFailed, OnUnconnected, LoseContact
  <2> QED BY <2>1 DEF Signals!linkVars
<1>4. CASE Drop
  BY <1>1, <1>4 DEF Drop, OnUnconnected, LoseContact, Signals!LinkNext,
                    Signals!LinkDisconnect
<1>5. CASE ReadLine
  <2>1. connected /\ connected' = connected
    BY <1>1, <1>5 DEF ReadLine, session
  <2>2. UNCHANGED <<good, status>> \/ (good' = TRUE /\ status' = IF good THEN status ELSE "ok")
    BY <1>5, Zenon DEF ReadLine, Heed
  <2>3. CASE good
    <3>1. good' = good /\ status' = status
      BY <1>1, <2>2, <2>3
    <3> QED BY <2>1, <3>1 DEF Signals!linkVars
  <2>4. CASE ~good
    BY <2>1, <2>2, <2>4 DEF Signals!linkVars, Signals!LinkNext, Signals!LinkBegin
  <2> QED BY <2>3, <2>4
<1>6. CASE CommsTimer
  <2>1. connected' = connected
    BY <1>6 DEF CommsTimer, session
  <2>2. UNCHANGED <<good, status>>
        \/ (lastRx # "never" /\ status' = "failed" /\ good' = FALSE)
    BY <1>6 DEF CommsTimer, TimedOut
  <2> QED BY <2>1, <2>2 DEF Reported, Signals!linkVars, Signals!LinkNext,
                            Signals!LinkTimeout
<1>7. CASE ~(SocketConnected \/ ConnectFailed \/ Drop \/ ReadLine \/ CommsTimer)
  <2>1. UNCHANGED <<connected, good, status>>
    BY <1>7, Zenon DEF Next, vars, session, watch, OpenFirst, RetryTimer, PollTimer,
       TimeTimer, AppCommand, KeyPress, Answer, PanelAnswer, PanelRefuse,
       PanelEvent, LoseCommand, LoseLine, Mute
  <2> QED BY <2>1 DEF Signals!linkVars
<1> QED BY <1>2, <1>3, <1>4, <1>5, <1>6, <1>7

\* The bridge may rely on LinkSignals: whatever the panel and the network do,
\* communications begin on a connection, end with it, and are never reported
\* lost before they have begun.
THEOREM LinkImplementsSignals == Spec => ImplementsSignals
<1>1. Init => Signals!LinkInit /\ Reported
  BY DEF Init, Signals!LinkInit, Reported
<1>2. IndInv /\ Reported /\ [Next]_vars => Reported'
  BY ReportedKept
<1>3. IndInv /\ Reported /\ [Next]_vars => [Signals!LinkNext]_(Signals!linkVars)
  BY NextIsSignalStep
<1> QED BY <1>1, <1>2, <1>3, IndInvHolds, PTL
        DEF Spec, ImplementsSignals, Signals!LinkSpec
=============================================================================
