------------------------------ MODULE It100Link ------------------------------
(***************************************************************************)
(* Class IT100 (it100.cpp, it100.h): the TCP session with the serial       *)
(* server in front of the DSC IT-100 module, the outgoing command queue    *)
(* and its one-reply-one-command pacing, the three timers, and the flags   *)
(* the rest of the bridge reads (isConnected, getStatus,                   *)
(* isWaitingForStatusUpdate).                                              *)
(*                                                                         *)
(* Every handler runs to completion on the Qt event loop, so a handler,    *)
(* with all that it calls, is one action.  The socket, the serial line and *)
(* the panel behind it are the environment.  Lines are read one at a time: *)
(* a chunk of several lines is the same as so many chunks of one line.     *)
(***************************************************************************)
EXTENDS Naturals, Sequences, FiniteSets

CONSTANTS
  Commands,     \* what callers send with a single sendCommand: arm, disarm
  Faults,       \* which of the misfortunes in FaultKinds may happen
  MaxPending,   \* bound: length of the queue up to which new work is accepted
  MaxInFlight   \* bound: lines on their way from the panel

FaultKinds == {"refuse", "drop", "lose", "mute"}

\* The commands the class, or a keypress, sends of its own.
Internal == {"status", "poll", "time", "key", "break"}
Message == Commands \cup Internal

ASSUME LinkAssumption ==
  /\ Commands \cap (Internal \cup {"none"}) = {}
  /\ Faults \subseteq FaultKinds
  /\ MaxPending \in Nat \ {0}
  /\ MaxInFlight \in Nat \ {0}

VARIABLES
  sock,       \* QAbstractSocket's state, as the socket knows it
  connected,  \* _connected, the copy the class keeps of it
  intent,     \* _connectionIntent
  attempts,   \* _connectionAttempts
  retry,      \* the five-second single-shot of the reconnect is running
  tx,         \* the sending side: messageQueueOut, waitingForResponse, the
              \* commands under way to the panel, the one written last
  toHost,     \* the lines under way from the panel
  armed,      \* pollTimer, communicationsTimeoutTimer, timedisciplineTimer run
  polled,     \* pollTimer has fired since both timers were last restarted or
              \* the communications timer last fired
  lastRx,     \* lastReceivedCommsAt: never set, under 30 s ago, longer ago
  good,       \* communicationsGood
  status,     \* status, what getStatus returns
  floodWait,  \* _waitingForStatusUpdate
  muted,      \* environment: the panel has stopped talking for good
  rejected,   \* history: a line was rejected as too short since the restart
  extra       \* history: lines read that answer nothing, while a reply is due

vars == <<sock, connected, intent, attempts, retry, tx, toHost, armed, polled,
          lastRx, good, status, floodWait, muted, rejected, extra>>

session == <<sock, connected, intent, attempts, retry>>
watch   == <<armed, polled, lastRx, good, status, floodWait, rejected>>

---------------------------------------------------------------------------
(* The lines the module sends, with their length without the line end:     *)
(* three digits, the data, two checksum digits.  "ack" and "nak" answer a  *)
(* command; every other line comes of the panel's own accord.  Line noise  *)
(* is heard as one of these: what counts is whether it is long enough.     *)

LineLen == [ack |-> 8, nak |-> 5, event |-> 6, zone64 |-> 8, trouble |-> 5]
Lines   == DOMAIN LineLen
Replies == {"ack", "nak"}

\* processReceivedLine's first test.
Accepts(l) == LineLen[l] > 5

\* Commands written and not yet answered, as far as the panel is concerned.
UnansweredIn(wire, lines) ==
  Len(wire) + Cardinality({i \in DOMAIN lines : lines[i] \in Replies})

InQueue(c) == \E i \in DOMAIN tx.queue : tx.queue[i] = c

---------------------------------------------------------------------------
(* The sending side.  A definition whose comment says "Faulty" is a        *)
(* plausible slip in the definition after it; no action uses it.           *)

\* Faulty: the written packet is kept at the head, for a re-send.
WritePacketKept(t) ==
  IF t.queue = <<>>
  THEN [t EXCEPT !.waiting = FALSE]
  ELSE [t EXCEPT !.waiting = TRUE, !.wire = Append(@, Head(t.queue)),
                 !.last = Head(t.queue)]

\* Faulty: the newest message is written first.
WritePacketNewest(t) ==
  IF t.queue = <<>>
  THEN [t EXCEPT !.waiting = FALSE]
  ELSE LET m == t.queue[Len(t.queue)] IN
       [queue |-> SubSeq(t.queue, 1, Len(t.queue) - 1), waiting |-> TRUE,
        wire |-> Append(t.wire, m), last |-> m]

\* Faulty: nothing is awaited after a write.
WritePacketUnawaited(t) ==
  IF t.queue = <<>>
  THEN [t EXCEPT !.waiting = FALSE]
  ELSE [queue |-> Tail(t.queue), waiting |-> FALSE,
        wire |-> Append(t.wire, Head(t.queue)), last |-> Head(t.queue)]

\* writePacket(): the oldest queued message is written, and awaited.
WritePacket(t) ==
  IF t.queue = <<>>
  THEN [t EXCEPT !.waiting = FALSE]
  ELSE [queue |-> Tail(t.queue), waiting |-> TRUE,
        wire |-> Append(t.wire, Head(t.queue)), last |-> Head(t.queue)]

\* Faulty: written at once, whether or not a reply is due.
SendCommandUnpaced(t, up, c) ==
  LET q == [t EXCEPT !.queue = Append(@, c)] IN
  IF up THEN WritePacket(q) ELSE q

\* sendCommand(): queue, then write unless a reply is due.
SendCommand(t, up, c) ==
  LET q == [t EXCEPT !.queue = Append(@, c)] IN
  IF up /\ ~t.waiting THEN WritePacket(q) ELSE q

---------------------------------------------------------------------------
(* The connection.                                                         *)

Init ==
  /\ sock = "unconnected" /\ connected = FALSE /\ intent = FALSE
  /\ attempts = 0 /\ retry = FALSE
  /\ tx = [queue |-> <<>>, waiting |-> FALSE, wire |-> <<>>, last |-> "none"]
  /\ toHost = <<>>
  /\ armed = FALSE /\ polled = FALSE /\ lastRx = "never"
  /\ good = FALSE /\ status = "unknown" /\ floodWait = FALSE
  /\ muted = FALSE /\ rejected = FALSE /\ extra = 0

\* open(): the address is set before the first call, so open() without
\* arguments never returns early.
Open ==
  /\ attempts' = attempts + 1
  /\ intent' = TRUE
  /\ sock' = "connecting"

\* The bridge's constructor, or its caller, opens the connection once.
OpenFirst ==
  /\ ~intent
  /\ Open
  /\ UNCHANGED <<connected, retry, tx, toHost, watch, muted, extra>>

\* Faulty: earlier attempts stay on the count of a connection that stands.
KeepAttempts == UNCHANGED attempts

ForgetAttempts == attempts' = 0

\* Faulty: a reply due in the previous session is still waited for.
GetGoingStill(t) == t

\* "Need to get things going again": no reply is due on a new connection.
GetGoing(t) == [t EXCEPT !.waiting = FALSE]

\* processTcpSocketConnected(): the timers run, and the status is asked for.
StartSession(t) ==
  /\ armed' = TRUE /\ polled' = FALSE /\ rejected' = FALSE
  /\ floodWait' = TRUE
  /\ tx' = SendCommand(t, TRUE, "status")

\* processTcpSocketStateChange(ConnectedState).  What is still queued from the
\* previous session is written before the status request.
SocketConnected ==
  /\ sock = "connecting"
  /\ sock' = "connected" /\ connected' = TRUE
  /\ ForgetAttempts
  /\ StartSession(GetGoing(tx))
  /\ extra' = 0
  /\ UNCHANGED <<intent, retry, toHost, lastRx, good, status, muted>>

\* Faulty: communications are still thought good.
LoseContactOnly == connected' = FALSE /\ UNCHANGED good

LoseContact == connected' = FALSE /\ good' = FALSE

\* Faulty: every failure is followed by another attempt at once.
TryAtOnceAlways == intent

\* An attempt that has just failed is not repeated without a delay.
TryAtOnce == intent /\ attempts = 0

\* processTcpSocketStateChange(UnconnectedState): try again at once, or
\* after the retry delay.
OnUnconnected ==
  /\ LoseContact
  /\ IF TryAtOnce
     THEN Open /\ UNCHANGED retry
     ELSE /\ sock' = "unconnected"
          /\ retry' = (retry \/ intent)
          /\ UNCHANGED <<intent, attempts>>

ConnectFailed ==
  /\ "refuse" \in Faults
  /\ sock = "connecting"
  /\ OnUnconnected
  /\ UNCHANGED <<tx, toHost, armed, polled, lastRx, status, floodWait,
                 muted, rejected, extra>>

\* The connection is lost with all that is under way on it.
Drop ==
  /\ "drop" \in Faults
  /\ sock = "connected"
  /\ OnUnconnected
  /\ tx' = [tx EXCEPT !.wire = <<>>]
  /\ toHost' = <<>> /\ extra' = 0
  /\ UNCHANGED <<armed, polled, lastRx, status, floodWait, muted, rejected>>

\* The slots IT100 declares, and the one the single-shot timer names: to
\* name a slot that does not exist connects nothing to the timer.
Slots == {"processTcpSocketReadyRead", "onPollTimerTimeout",
          "processTcpSocketConnected", "onTimeDisciplineTimerTimeout",
          "onCommunicationsTimeoutTimerTimeout",
          "processModuleReconnectTimerTimeout",
          "processTcpSocketStateChange", "processTcpConnectRetryTimeout"}
RetrySlot == "on_moduleReconnectTimerTimeout"

RetryTimer ==
  /\ retry
  /\ retry' = FALSE
  /\ IF RetrySlot \in Slots
     THEN Open
     ELSE UNCHANGED <<sock, intent, attempts>>
  /\ UNCHANGED <<connected, tx, toHost, watch, muted, extra>>

---------------------------------------------------------------------------
(* Lines received: processTcpSocketReadyRead and processReceivedLine.      *)

\* Faulty: the last zone is looked for under a number nobody reports.
FloodNeverEnded(l) == FALSE

\* Zone 64, reported open or restored, is the last of a status answer.
FloodEndedBy(l) == l = "zone64"

\* A line that is long enough restarts both timers and makes contact.
Heed(l) ==
  /\ polled' = FALSE /\ rejected' = FALSE
  /\ lastRx' = "recent"
  /\ floodWait' = (floodWait /\ ~FloodEndedBy(l))
  /\ good' = TRUE
  /\ status' = IF good THEN status ELSE "ok"

\* Whatever the line, even one that is rejected, the next command goes.
ReadLine ==
  /\ sock = "connected"
  /\ toHost # <<>>
  /\ LET l == Head(toHost) IN
     /\ IF Accepts(l)
        THEN Heed(l)
        ELSE rejected' = TRUE /\ UNCHANGED <<polled, lastRx, floodWait, good, status>>
     /\ toHost' = Tail(toHost)
     /\ tx' = WritePacket(tx)
     /\ extra' = IF UnansweredIn(tx'.wire, toHost') = 0 THEN 0
                 ELSE IF l \in Replies THEN extra ELSE extra + 1
  /\ UNCHANGED <<session, armed, muted>>

---------------------------------------------------------------------------
(* The timers.  pollTimer (29 s) and communicationsTimeoutTimer (30 s) are *)
(* started together by a connection and by every line, and go on after a   *)
(* disconnect: between two firings of the second the first fires.          *)

\* Faulty: no poll while communications are good.
PollWanted == ~good

\* onPollTimerTimeout() polls whenever connected.
PollDue == connected

\* The code queues a poll however long the queue; here a queue of MaxPending
\* gets no longer by a poll.
PollTimer ==
  /\ armed
  /\ polled' = TRUE
  /\ tx' = IF PollDue /\ Len(tx.queue) < MaxPending
           THEN SendCommand(tx, connected, "poll")
           ELSE tx
  /\ UNCHANGED <<session, toHost, armed, lastRx, good, status, floodWait,
                 muted, rejected, extra>>

\* onTimeDisciplineTimerTimeout(), every twelve hours; never twice in the
\* time a command waits.
TimeTimer ==
  /\ armed
  /\ ~InQueue("time") /\ Len(tx.queue) < MaxPending
  /\ connected
  /\ tx' = SendCommand(tx, connected, "time")
  /\ UNCHANGED <<session, toHost, watch, muted, extra>>

\* Faulty: a timeout is reported but communications are still thought good.
TimedOutKept == status' = "failed" /\ UNCHANGED good

\* Faulty: communications are thought lost, and nobody is told.
TimedOutUnreported == good' = FALSE /\ UNCHANGED status

\* The end of onCommunicationsTimeoutTimerTimeout(), where it emits
\* communicationsTimeout.
TimedOut == status' = "failed" /\ good' = FALSE

\* The timer is a coarse one and secsTo counts whole seconds: at its first
\* firing after a line, 30 s may have passed or not; at later ones they
\* have.  If no line was ever received, secsTo of a null time is 0.
CommsTimer ==
  /\ armed /\ polled
  /\ polled' = FALSE
  /\ lastRx' = IF lastRx = "recent" THEN "old" ELSE lastRx
  /\ \E elapsed \in IF lastRx = "recent" THEN BOOLEAN ELSE {lastRx = "old"} :
       IF elapsed THEN TimedOut ELSE UNCHANGED <<status, good>>
  /\ UNCHANGED <<session, tx, toHost, armed, floodWait, muted, rejected, extra>>

---------------------------------------------------------------------------
(* The callers: armAway, disarm, and the keypresses of the bridge.         *)

AppCommand(c) ==
  /\ ~InQueue(c) /\ Len(tx.queue) < MaxPending
  /\ tx' = SendCommand(tx, connected, c)
  /\ UNCHANGED <<session, toHost, watch, muted, extra>>

\* A key is sent with its keybreak by one handler.
KeyPress ==
  /\ Len(tx.queue) + 2 <= MaxPending
  /\ tx' = SendCommand(SendCommand(tx, connected, "key"), connected, "break")
  /\ UNCHANGED <<session, toHost, watch, muted, extra>>

---------------------------------------------------------------------------
(* The environment: the panel and the serial line.                         *)

\* What the module sends on a command it understands.
AnswerTo(c) == IF c = "status" THEN <<"ack", "zone64">> ELSE <<"ack">>

Answer(lines) ==
  /\ sock = "connected" /\ ~muted
  /\ tx.wire # <<>>
  /\ tx' = [tx EXCEPT !.wire = Tail(@)]
  /\ toHost' = toHost \o lines
  /\ UNCHANGED <<session, watch, muted, extra>>

PanelAnswer == Answer(AnswerTo(Head(tx.wire)))

\* A command garbled on the serial line is answered by a Command Error.
PanelRefuse == "lose" \in Faults /\ Answer(<<"nak">>)

PanelEvent(l) ==
  /\ sock = "connected" /\ ~muted
  /\ extra + Len(toHost) < MaxInFlight
  /\ toHost' = Append(toHost, l)
  /\ UNCHANGED <<session, tx, watch, muted, extra>>

LoseCommand ==
  /\ "lose" \in Faults
  /\ tx.wire # <<>>
  /\ tx' = [tx EXCEPT !.wire = Tail(@)]
  /\ UNCHANGED <<session, toHost, watch, muted, extra>>

LoseLine ==
  /\ "lose" \in Faults
  /\ toHost # <<>>
  /\ toHost' = Tail(toHost)
  /\ UNCHANGED <<session, tx, watch, muted, extra>>

\* The panel's module dies, or the serial line is cut for good.
Mute ==
  /\ "mute" \in Faults
  /\ muted' = TRUE
  /\ UNCHANGED <<session, tx, toHost, watch, extra>>

Next ==
  \/ OpenFirst \/ SocketConnected \/ ConnectFailed \/ Drop \/ RetryTimer
  \/ ReadLine
  \/ PollTimer \/ TimeTimer \/ CommsTimer
  \/ \E c \in Commands : AppCommand(c)
  \/ KeyPress
  \/ PanelAnswer \/ PanelRefuse
  \/ \E l \in Lines \ Replies : PanelEvent(l)
  \/ LoseCommand \/ LoseLine \/ Mute

Spec == Init /\ [][Next]_vars

\* The event loop gets round to every handler whose event is due; a
\* connection attempt comes to an end; a panel that is not mute answers.
Fairness ==
  /\ WF_vars(OpenFirst)
  /\ WF_vars(SocketConnected \/ ConnectFailed)
  /\ WF_vars(RetryTimer)
  /\ WF_vars(ReadLine)
  /\ WF_vars(PollTimer)
  /\ WF_vars(CommsTimer)
  /\ WF_vars(PanelAnswer)

FairSpec == Spec /\ Fairness

---------------------------------------------------------------------------
(* Properties.                                                             *)

\* What tx may be.
Sender == [queue : Seq(Message), waiting : BOOLEAN, wire : Seq(Message),
           last : Message \cup {"none"}]

\* Every variable has its type, the socket and the class's copy of its state
\* agree, and the count of connection attempts never passes one: with the
\* retry slot missing (it100.cpp:744), only open()'s first attempt counts.
TypeOK ==
  /\ attempts \in {0, 1} /\ extra \in Nat
  /\ tx \in Sender /\ toHost \in Seq(Lines)
  /\ sock \in {"unconnected", "connecting", "connected"}
  /\ lastRx \in {"never", "recent", "old"}
  /\ status \in {"unknown", "ok", "failed"}
  /\ \A flag \in {connected, intent, retry, armed, polled, good, floodWait,
                  muted, rejected} : flag \in BOOLEAN
  /\ connected <=> sock = "connected"

\* No lost wake-up: while connected, a queued command always has a written
\* one before it whose reply will release it; sendCommand and writePacket
\* never leave a backlog with nothing awaited (it100.cpp:630-673).
NoIdleBacklog == connected /\ tx.queue # <<>> => tx.waiting

\* The game of ping pong (it100.cpp:498-502): one command at a time is under
\* way or unanswered.  Every line releases the next command, so each line
\* that answers nothing and comes while a reply is due allows one more.
PingPong == UnansweredIn(tx.wire, toHost) <= 1 + extra

\* Every key in a queue has its break right behind it.
Paired(q) ==
  \A i \in DOMAIN q :
    q[i] = "key" => i + 1 \in DOMAIN q /\ q[i + 1] = "break"

\* So has the message written last.
Unparted(t) ==
  /\ Paired(t.queue)
  /\ t.last = "key" => t.queue # <<>> /\ t.queue[1] = "break"

\* "ALL keypresses must be followed by a keybreak" (it100mqtt.cpp:236): no
\* poll, status request or command of another caller is ever written between
\* the two, not even when the connection is lost between them.
KeyBreakFollows == Unparted(tx)

\* "Ensuring traffic is routinely sent" (it100.cpp:511-512): when the
\* communications timer fires on a connection, some command has been written
\* on it that still waits for a line, so silence means something.  A line
\* rejected for its length is an exception: it counts as a reply, and does
\* not restart the timers.
ProbeBeforeTimeout == connected /\ polled => tx.waiting \/ rejected

\* Good communications are of this connection, reported by getStatus, and
\* founded on a line received.
GoodIsCurrent == good => connected /\ status = "ok" /\ lastRx # "never"

\* The queue is a first-in first-out pipe that no loss of the connection
\* empties or reorders.
Pipe == INSTANCE CommandPipe WITH
          pending <- tx.queue, last <- tx.last, Nothing <- "none"
ImplementsPipe == Pipe!PipeSpec

\* The signals of the link are those of LinkSignals: communications begin on
\* a connection only, end with it, and time out only after they have begun.
Signals == INSTANCE LinkSignals WITH up <- connected
ImplementsSignals == Signals!LinkSpec

\* An unexpected disconnect is followed by a connection, as long as the
\* server never refuses one (it100.cpp:731-738).
Reconnects == intent /\ ~connected ~> connected

\* Every command a caller queues is written in the end, however often the
\* connection is lost, or the panel falls silent.
CommandSent == \A c \in Commands : InQueue(c) ~> ~InQueue(c) \/ muted

\* On a connection that lasts, the flood of the status request comes to an
\* end and stays so: zone events are not held back for ever.
FloodEnds == <>[]connected => <>[](~floodWait \/ muted)

\* Communications that stay bad are reported by getStatus in the end, on a
\* connection or without one, by a timer that a disconnect does not stop.  A
\* connection that is lost and made again and again starts that timer anew
\* each time (it100.cpp:138): then nothing is promised.
FailureFound ==
  <>[]~good /\ (<>[]connected \/ <>[]~connected) => <>[](status # "ok")

\* A panel that falls silent is found out, and never thought good again.
SilenceDetected == muted ~> []~good

\* it100.cpp:563-564: "this method is called every ... until connected -
\* never give up!"
NeverGiveUp == intent /\ sock = "unconnected" ~> sock # "unconnected"

\* it100.cpp:160: "Reject packets that are less than 5 chars"; a packet of
\* five, which every one without data is, is not to be rejected.
RejectsOnlyShort ==
  [][ReadLine /\ LineLen[Head(toHost)] >= 5 => ~rejected']_vars

\* it100.cpp:511-512: polling "is responsible for ensuring traffic is
\* routinely sent and received": a poll that is due is sent.
PollGoesOut == InQueue("poll") ~> ~InQueue("poll")

\* it100.h:219-222: communicationsTimeout is signalled when the serial side
\* fails; it must be for a module that is silent from the start.
FailureSignalled == muted /\ connected ~> status = "failed"
=============================================================================
