# it100mqtt in TLA+

`it100mqtt` is a bridge between a DSC alarm panel and MQTT. One process, one
Qt event loop. On one side a TCP connection to a serial server (ser2net), in
front of a DSC IT-100 module on the panel's bus; on the other an MQTT client
(the vendored QMQTT library). These modules model the bridge; TLC checks them on
small instances, and TLAPS proves for all instances every invariant and both refinements that the
runs check.

## 1. The system

Every callback (socket signal, timer, MQTT message) runs to completion on the
event loop, so *one handler, with everything it calls, is one atomic step*. There
are no threads. What makes the program hard is what lies between the steps: two
connections that fail independently, a serial line behind one of them that loses
bytes silently, timers that go on over a disconnect, and a queue that outlives
its connection.

| Component | Source | State | Operations | Spoken to by |
|---|---|---|---|---|
| IT-100 link | `it100.cpp`, `it100.h` | socket and `_connected`, `_connectionIntent`, `_connectionAttempts`, `messageQueueOut`, `waitingForResponse`, three timers and the reconnect single-shot, `lastReceivedCommsAt`, `communicationsGood`, `status`, `_waitingForStatusUpdate` | `open`, socket state changes, `processReceivedLine`, `sendCommand`/`writePacket`, the timer handlers, `armAway`, `disarm`, ... | the bridge (calls); sends it signals |
| Line splitting | `it100.cpp:83-111` | `receivedData` | `processTcpSocketReadyRead` | the socket |
| Line decoding | `it100.cpp:155-506` | none of its own | zone, partition, user, keypad, trouble signals | line splitting |
| Packets, checksums | `it100message.cpp`, `it100.cpp:576-622` | none | `generatePacket`, `generateChecksum` | `sendCommand` |
| Bridge: session | `it100mqtt.cpp:130-205, 208-376` | `mqttStatus`, `mId` | MQTT and IT-100 connect/disconnect handlers, command messages, availability, `READY=1` | both clients, systemd |
| Bridge: publication | `it100mqtt.cpp:378-773`, `alarmpanel.cpp` | partitions' `armed`, and the broker's retained topics | zone, partition, user, trouble handlers | the link's signals |
| QMQTT session | `qmqtt_client*.cpp`, `qmqtt_network.cpp` | socket, keepalive timer, `gmid` | connect, publish, subscribe, acknowledgements | the bridge |
| QMQTT frames | `qmqtt_network.cpp:136-181`, `qmqtt_frame.cpp` | `_leftSize`, `_header`, `_buffer` | `sockReadReady`, `readInt`, `encodeLength` | the MQTT socket |
| Graylog, settings, start-up | `graylog.cpp`, `main.cpp`, unit file | none that changes | logging, reading settings | all |

How they interact: the bridge calls the link directly (`sendCommand`, `armAway`,
`disarm`) from the handler of an MQTT message; the link calls the bridge back by
signals, *synchronously*, in the middle of `processReceivedLine` and of the
socket handlers; the bridge publishes from those signals; QMQTT writes to its
socket or, when that is not connected, drops the frame. The flood flag
(`isWaitingForStatusUpdate`) and `getStatus` are read across the border.

What would make each component correct:

* **Link** - commands leave in order, each once; a command does not wait for a
  reply that is not due; one command outstanding at a time; a keypress is not
  parted from its keybreak; the link comes back after a failure; silence is
  noticed, and noticed only when tested; the flood ends.
* **Line splitting** - the lines handed on are those sent, however cut in chunks
  and across connections.
* **Bridge session** - the retained availability is `online` exactly while the
  module communicates; the bridge gets back to the broker; a command message
  becomes one command.
* **Bridge publication** - the retained topics of a zone or partition agree with
  the last report and with each other; the flood of a status answer publishes
  states and no events.
* **QMQTT** - frames are read as written, whatever the chunks; acknowledgements
  carry the id received; identifiers in use are distinct.

## 2. The modules

| Module | What it is |
|---|---|
| `CommandPipe` | what callers of `sendCommand` are promised: an unbounded FIFO pipe |
| `LinkSignals` | what the listeners to the link's signals are promised: `connected`, `disconnected`, `communicationsBegin`, `communicationsTimeout`, `getStatus` |
| `It100Link` | the link, with the serial server, the serial line and the panel as its environment; implements the two above |
| `It100LinkProofs` | theorems about `It100Link`: types, the sending side, the two refinements |
| `It100PaceProofs` | the theorem about its game of ping pong, which counts what is under way |
| `Packets` | packets and checksums, as functions on bytes |
| `LineReader` | splitting of a TCP stream into lines |
| `MqttSession` | the QMQTT client as the bridge uses it, the network, and the broker |
| `Bridge` | class `It100Mqtt`'s session half: composes `LinkSignals` and `MqttSession` with the service manager |
| `PanelReports` | lines to signals to publications: pure definitions |
| `PanelView` | what the broker retains of the panel, and the flood of a status answer |
| `FrameReader` | MQTT frames over a TCP stream |
| `BridgeProofs` | theorems about `Bridge` |
| `PanelViewProofs` | theorems about `PanelView` and the publications of `PanelReports` |
| `DataInduction` | what the proofs about readers stand on: induction over numbers and over sequences, existence of recursive functions, parts of sequences |
| `LineReaderProofs`, `FrameReaderProofs` | theorems about the readers |
| `MC...` | values for the constants of each |

`Bridge` stands on `LinkSignals`, not on `It100Link`: the run `it100link_safety`
shows that the link implements it (`ImplementsSignals`), and `it100link_liveness`
shows what `Bridge` assumes as fairness of the link (`FailureFound`). The readers,
the session and the view are separate because their states meet only in what one
hands to the next: lines, frames, publications.

### It100Link

One action per handler. The correspondence:

| Action | Code |
|---|---|
| `OpenFirst`, `Open` | `connectToIt100`, `open` |
| `SocketConnected` (`ForgetAttempts`, `GetGoing`, `StartSession`) | `processTcpSocketStateChange(ConnectedState)`, `processTcpSocketConnected` |
| `ConnectFailed`, `Drop` (`OnUnconnected`) | `processTcpSocketStateChange(UnconnectedState)` after a refused attempt, after a lost connection |
| `RetryTimer` | the single-shot of `it100.cpp:744`: it names a slot that does not exist, so its expiry calls nothing (Qt refuses the connection with a warning) |
| `ReadLine` (`Accepts`, `Heed`, `WritePacket`) | `processReceivedLine`, with the `writePacket()` at its end, which even a rejected line reaches |
| `PollTimer`, `TimeTimer`, `CommsTimer` | the three timers' handlers |
| `AppCommand`, `KeyPress` | `armAway`, `disarm`, ...; the keypress branch of `onMqttMessageReceived`, two `sendCommand`s in one handler |
| `PanelAnswer`, `PanelRefuse`, `PanelEvent`, `Mute`, `LoseCommand`, `LoseLine` | environment |

What is abstracted. A command is a name; a packet is the command. A line is one
of five kinds, which differ in what the code tests: its length (`LineLen`),
whether it answers a command, whether it reports zone 64. Time is abstracted to
the order of timer events: `pollTimer` (29 s) and `communicationsTimeoutTimer`
(30 s) are started together, both are of Qt's very coarse kind (whole seconds),
so between two firings of the second the first fires; that is the guard `polled`
of `CommsTimer`. `lastReceivedCommsAt` is *never*, *recent* (no firing since) or
*old*; at the first firing after a line `secsTo`, which truncates, may give 29 or
30, and the action allows both. `waitingForResponse`, queue, bytes under way and
the last command written are the record `tx`, so that `writePacket` and
`sendCommand` are operators on it and a handler that calls them twice composes
them.

History variables, read by properties only: `tx.last`, `rejected`, `extra`.
(`extra` also bounds how many unsolicited lines the environment sends.)

The definitions commented "Faulty" stand beside the definition they are a slip
of: with the slip in its place, the property of section 3 that is about it must
fail, which shows that the property has teeth.

### LineReader and Packets

`ReadyRead` is `processTcpSocketReadyRead`: everything the socket has, appended to
`receivedData`, split at `\r\n|\n`. `Split` is the code's `lineList`, of which the last element
is the next `receivedData` (`Rest`) and the others are handed on (`LinesIn`). `Arrives(k)` cuts the stream anywhere, `Drop`
loses what is under way and leaves `receivedData`, as the code does. Bytes are
numbers; the packets are built by `Packets` with the code's own checksum, the last
two hexadecimal digits of a sum that may have two or more. Recursion is by recursive functions
(`Count`, `HexDigits`, `Split`), which can be reasoned about.

### MqttSession and Bridge

QMQTT emits its signals from inside its handlers and the bridge's slots run there,
so a handler of `MqttSession` takes the frames that the slots send as a parameter,
and an action of `Bridge` is a handler with its slots:

| Action | Code |
|---|---|
| `OnMqttConnect` (`SockConnected`, `Greeting`, `StartKeepalive`, `Noted`) | `Network::sockConnected`, `Client::onConnected`, `It100Mqtt::onMqttConnect` |
| `MqttRefused` | the socket's `error`, to which nothing is connected |
| `OnMqttDisconnected` (`StartRetry`), `ReconnectTimerTimeout` | `sockDisconnected`, `Client::onDisconnected`, `onMqttDisconnected`; the single-shot's `connectToMqttBroker` |
| `KeepaliveTimeout` (`Ping`) | `ClientPrivate`'s timer, `Client::ping` |
| `OnMqttMessageReceived` (`Received`, `CommandOf`) | `onReceived` and `handlePublish` (which acknowledges first), `onMqttMessageReceived` |
| `OnIt100Connected`, `OnIt100Disconnected`, `OnIt100CommunicationsBegin`, `OnIt100CommunicationsTimeout` | the slots of those names, with `updateServiceStatus` |
| `Restart` | `Restart=always` and `TimeoutStartSec` of the unit |
| `BrokerReads`, `DeadFound`, `PathBreaks`, `Publish` | environment |

The broker keeps, for the connection there is and for one that it has not found dead
yet (`stale`), a session, the subscription, unacknowledged deliveries and the retained
payloads. A session that ends without DISCONNECT (the bridge never sends one) publishes
the will; a new CONNECT with the same name ends the stale one first. `path` is *up*,
*closed* (the far side ended the connection) or *cut* (nothing crosses and nobody is
told). A cut is noticed by the client only through bytes it has written that stay
unacknowledged; hence the pings matter. Left out: frames to the client that nobody
listens for, publications that are not retained (no one can look at them later), and
message ids.

### PanelReports and PanelView

`PanelReports` is the two dispatches, `processReceivedLine` (line to signal) and the
bridge's slots (signal to publications, in the order written, with their retain
flags), as functions, the slips of the code included: the fault topics without a zone
(`Misnamed`), the zone alarm's number, the events that have the wrong name. Lines go by
the names of commands where the code compares numbers; a number with two names is dispatched
under both: `P_KEY_ALARM` and `P_KEY_RESTORAL` (`PanicKey`) have the codes of
`PARTITION_NOT_READY` and `PARTITION_READY`, and so their statuses in `PartitionStatus`.

In `PanelView` the panel changes, answers status requests and loses lines; a line is
handled as it comes (`Heard`), and its publications reach the broker whole, cut short,
or not at all. `shown` has the topics whose latest retained publication arrived; a topic
whose latest was lost leaves `shown`, since what the broker then has is simply older.
`Connected` is `processTcpSocketConnected`, which sets the flood flag and asks. History:
`misled`, the topics shown that a line of the panic key wrote last; `panicked`, that one was
heard on this connection; `leaked`, that a report of the answer was published as an event,
read off the publications themselves (`TellsEvent`), not off the flag.

### FrameReader

`ReadReady` is one iteration of the loop of `sockReadReady`; a new chunk comes only when
the loop is done (there is no event loop inside it). Reading past the end of a chunk
gives zero, as `QDataStream` does. `Base` stands for 128: a byte has values below
`2 * Base`. `Int2`, `EncodeLength`, `Write` are the code's writers, `ReadInt`,
`StringLength`, `RemainingLength` its readers, signed `char` included. `Drop` and `Connect`
leave `_leftSize`, `_header` and `_buffer` alone, as the code does. `intact` is history: no chunk
has ended within a header or length on this connection, and it did not begin with a
remainder of the last one.

## 3. What is checked

| Run | Instance | Shows |
|---|---|---|
| `it100link_safety` | refused and lost connections, lost and garbled lines and commands; queue bound 3, 1 line under way | the link's invariants and its two refinements |
| `it100link_liveness` | lost connections and a panel that dies; one caller's command, queue bound 2 | the five liveness properties |
| `it100link_never_give_up` | refused connections | **violated**: section 4 |
| `it100link_short_lines` | no faults | **violated** |
| `it100link_lost_command` | lost lines and commands | **violated** |
| `it100link_silent_module` | a panel that dies | **violated** |
| `bridge` | all five misfortunes: refused, rejected, dropped, cut connections, crashes; two commands, 3 frames under way | six invariants, three liveness properties |
| `bridge_availability` | no faults | **violated** |
| `panel_view` | the zone that ends the answer, one partition with five statuses, a tamper and the panic key, lines, links and MQTT lost | three invariants besides the types, one liveness property |
| `panel_panic_key` | no faults, the panic key | **violated** |
| `line_reader` | two messages, four packets over any number of connections, cut anywhere | two invariants besides the types |
| `frame_reader` | bytes of three bits, six kinds of frames, two frames over any number of connections, cut anywhere | two invariants besides the types, one liveness property |

**Link**, safety:

* `NoIdleBacklog` - while connected, a queued command has one before it whose
  reply is due. (A queue that waits on nothing would wait for ever.)
* `PingPong` - commands under way and unanswered are at most one more than the
  lines read, while a reply was due, that answer nothing. The code's "game of ping
  pong" is not strict: any line releases the next command, and the property says
  exactly by how much.
* `KeyBreakFollows` - between a key and its keybreak nothing is written, not even
  when the connection is lost between the two and the status request of the new
  one is queued.
* `ProbeBeforeTimeout` - when the communications timer fires on a connection, a
  command is outstanding, so silence means something; a rejected line is the
  exception.
* `GoodIsCurrent` - `communicationsGood` speaks of the present connection.
* `ImplementsPipe` - refinement: `tx.queue` and `tx.last` behave as `CommandPipe`.
* `ImplementsSignals` - refinement: the signals keep to `LinkSignals`.

Liveness: `Reconnects`, `CommandSent`, `FloodEnds`, `SilenceDetected`, and `FailureFound`:
communications that stay bad are reported in the end, if the connection in the end
stays, or stays away. The condition is needed: each reconnection starts the timer
afresh (`it100.cpp:138`), so a link that flaps faster than every 30 s is never reported.

**Bridge**:

* `ConnectFirst` - whatever the panel's side publishes and whenever, the first frame
  of a connection is its CONNECT, and there is no second.
* `WillCovers` - with no session left at the broker, nobody is told `online`.
* `OnlineIsFounded` - a retained `online`, when everything written has been read, is this
  process's own and not taken back, over dropped frames, stale sessions and restarts.
* `ReadyWhenBothUp` - `READY=1` at the latest when both sides are up.
* `CommandAtMostOnce` - a command is passed on at most once, whatever happens to its
  acknowledgement. It is the clean session that makes this so.
* `DeadPathFound` - a cut path is found, by the pings.
* `MqttReturns` - a lost connection is attempted again, and so is a refused one before the
  process was ready (systemd). After readiness a refused attempt is the last, because the
  retry hangs on `disconnected()`, which an attempt that never succeeded does not emit:
  the property names that case.
* `AvailabilityFallsBack` - a module silent for good is in the end not `online`.

**Panel**:

* `RetainedIsTrue` - `armed`, `state`, `hass_state` of the partition and `state` of the zones,
  where the last publication arrived, are true of the panel, in any interleaving of
  delays, alarms, lost lines and lost publications; a zone's `condition` does not
  contradict its `state`. Topics that a line of the panic key wrote last are excepted
  (the case of `panel_panic_key`), until another line writes them.
* `AnswersAreQuiet` - an answer is not published as events, by any of the slots, except
  after an early report of zone 64, which ends the flood (section 4).
* `FloodEndsWithAnswer` - events are not held back longer than the answer takes, unless a
  line of this connection was lost.
* `StatusRestates` - the answer puts right whatever was lost, and whatever the panic key
  wrote, if both connections last and the key is not pressed again.
* `TypeOK` also says which topics are retained, and of each which values it may have.

**Readers**:

* `LinesAreSent` - lines are the packets sent, in order; only the first of a connection has
  in front the end of the last one. What is left is the beginning of the next packet.
* `LinesVerify` - each such line passes the check (that the code does not make).
* `FramesAsSent` - while no chunk ends within a header or length, frames are those
  sent, and no byte is lost. The antecedent is the code's limit, not the model's: a
  chunk that ends there puts the stream out of step for good, also over reconnections,
  since `_leftSize` survives them.
* `AcksNameTheirMessage` - a PUBACK names the message's id exactly when the id's low byte has
  no high bit: `readInt` adds a signed `char`. (The high byte's sign is undone by 16 bits.)
  A broker that numbers deliveries from 1 sees its 128th to 255th acknowledged wrongly.
* `FramesArrive` - with the same limit, every frame is received.

`AcksNameTheirMessage` is about platforms where `char` is signed, and about topics shorter than
`Base` (128 characters): the length of a longer one is read wrong by the same sign.

**Fairness.** Weak fairness of the handlers whose event is due (an event loop that
runs delivers it), of the end of a connection attempt (TCP either connects or fails),
and of `PanelAnswer` (a panel that is not mute answers a command it has received).
None of callers, faults, unsolicited lines or `TimeTimer`. In `Bridge` also: the broker
reads what reaches it and finds dead connections dead (keepalive), a process not ready
within `TimeoutStartSec` is restarted, and the communications timer of a link that stays
up or down without communicating fires: the latter is `FailureFound`. No fairness of
`Restart` once ready, of breaks, commands or the link's connecting. In `PanelView`: a
connection is made again (`Reconnects`), the panel answers and goes on answering. In
`FrameReader`: bytes arrive, the socket's handler is run.

**Bounds.** `MaxPending` limits what callers and timers may queue, `MaxInFlight` the
unsolicited lines under way. Three is the least queue in which something can stand
before or after a key and its break. A second line under way, and a second
caller's command, were tried with the same result. What is queued is never looked
at, so more names show nothing new. In the safety run `Commands` is empty:
`TimeTimer` sends its command the way a caller does. Deadlock is not checked where
connections may be refused, because there the link really stops.

`Bridge`: `MaxFrames` of 3 lets a CONNECT, a subscription and a publication be under way
together, or an acknowledgement between two publications; each command is
published once, so that a second delivery shows. `PanelView`: zone 64 is the one the code
treats apart; any other is published in the same way and does not end the flood, and in that
the partition stands for it. The five statuses are those of which each
sets, resets or leaves `armed` and the state in a way of its own; `ARMED_STAY` differs from
`ARMED_AWAY`, and the others from `DISARMED`, in payloads (`BUSY`'s also in the state), and
`NOT_READY`'s publications happen through the panic key. The theorem is about all of them.
`LineReader`: four packets of two lengths,
whose sums have two and three digits, with zero and letters among them.
`FrameReader`: `Base` 4 makes lengths of one and of two bytes; ids with either byte
signed are among the messages; one frame can be broken off and another follow on the next
connection.

## 4. Where the code differs from what it says

* `it100link_never_give_up`. "This method is called every ... until connected - never
  give up!" (`it100.cpp:563`). After an attempt that fails following another
  one nothing calls `open()` again. At start-up systemd hides it (no `READY=1`
  within 10 s, so the unit is restarted); once ready, nothing does.
* `it100link_short_lines`. "Reject packets that are less than 5 chars" (`it100.cpp:160`):
  packets of exactly five are rejected, and the panel's trouble messages without data
  are that long, so they are never published.
* `it100link_lost_command`. The poll is "responsible for ensuring traffic is routinely
  sent" (`it100.cpp:511`). A single command or reply lost on the serial line leaves
  `waitingForResponse` set; polls queue up behind it. The timeout reports the failure
  (`SilenceDetected`) but nothing recovers until the panel speaks unasked.
* `it100link_silent_module`. The timeout signal "would indicate failure of IT-100
  module" (`it100.h:219`), but a module that never said anything is never timed out:
  `secsTo` of a null time is 0.
* `bridge_availability`. "online set when IT100 begins communicating" (`README.md:38`): it is
  published at that moment only. If MQTT connects later, or reconnects (the will has
  left `offline`), the module communicates and stays `offline`.
* `panel_panic_key`. "Partition Armed ... `armed` ... 0|1" (`README.md:43`). Codes 625 and 626 are
  declared twice, for the panic key and for the partition's not being ready and being ready
  (`it100commands.h:59-64`). A line of the panic key is therefore published as the latter: of an
  armed partition `armed` 0 and `state` disarmed are retained, until its next status. (Where the
  module sends those lines without data they are five characters long and rejected.)

Zone 64 reported for another reason before the end of a status answer ends the flood
(`it100.cpp:211`), against "Are we waiting for a complete IT100 status request response"
(`it100.cpp:522`): the rest of the answer is published as events. It has no run of its own:
`early`, in `AnswersAreQuiet`, is that case and no other.

Met while modelling, kept as the code has them, without a run of their own because no
property of interest turns on them: an invalid code is announced as a closing by user -1,
and so published as `user_armed` (`it100.cpp:384`; `it100.h:93` has a type for it); a special
closing is published as a partial one (`it100.cpp:378`); a zone's fault goes to a topic in
which the prefix stands for the zone (`it100mqtt.cpp:440`), and its event is retained; READY
publishes the event `disarmed` and an unretained condition (`it100mqtt.cpp:572`, `581`); a zone
alarm takes two of the zone's three digits (`it100.cpp:248`); telephone line, FTC, buffer and
key battery troubles are signalled and not published; `arm_stay` arms away
(`it100mqtt.cpp:222`).

## 5. What is proved

Each invariant of each run that passes, and the two refinements, as a theorem of the
specification, for every value of the constants that the named assumption allows. The bounds
of the runs (queues, frames, packets, sizes of a chunk) are constants there like any other.

| Module | Assumption | Theorems, with the property each states |
|---|---|---|
| `It100LinkProofs` | `LinkAssumption`: callers do not send the class's own commands; bounds positive | `TypeCorrect`, `NoLostWakeUp` (`NoIdleBacklog`), `KeysAreBroken` (`KeyBreakFollows`), `TimeoutIsProbed` (`ProbeBeforeTimeout`), `GoodStaysCurrent` (`GoodIsCurrent`), `LinkImplementsPipe`, `LinkImplementsSignals` |
| `It100PaceProofs` | the same | `PingPongIsPlayed` (`PingPong`) |
| `BridgeProofs` | `SessionAssumption`: at least two frames may be under way | `TypeCorrect`, `GreetingIsFirst` (`ConnectFirst`), `WillIsKept` (`WillCovers`), `OnlineIsMeant` (`OnlineIsFounded`), `ReadyIsTold` (`ReadyWhenBothUp`), `NoCommandTwice` (`CommandAtMostOnce`) |
| `PanelViewProofs` | `ViewAssumption`: zones have two digits; a line that says nothing of zones or the partition has none of their commands | `TypeCorrect`, `RetainedStaysTrue` (`RetainedIsTrue`), `AnswersStayQuiet` (`AnswersAreQuiet`), `FloodIsOver` (`FloodEndsWithAnswer`) |
| `LineReaderProofs` | `ReaderAssumption`: messages are printable and begin with a command's three digits | `TypeCorrect`, `LinesAreAsSent` (`LinesAreSent`), `LinesHaveTheirSum` (`LinesVerify`) |
| `FrameReaderProofs` | `FrameAssumption`: a byte has at least two values on each side of its sign; no acknowledgement has the header of a PUBLISH | `TypeCorrect`, `FramesAreSent` (`FramesAsSent`), `AcksAreNamed` (`AcksNameTheirMessage`) |

**The link.** None of the invariants but the types is inductive alone.
`KeyBreakFollows` breaks at `KeyPress` if a key can be written while others wait:
the key would be last and the head of the queue another command. That no reply due
implies an empty queue is `NoIdleBacklog`, so the two are carried together
(`SenderInv`). `ProbeBeforeTimeout` needs it as well: a poll that finds the queue
full is not sent, and then `NoIdleBacklog` says that a reply is due. `GoodIsCurrent`
needs that the class's copy of the socket state is right, and the count of
attempts needs `Untouched` (before the first `open()` nothing happened). `IndInv` is
their conjunction. `LinkImplementsSignals` needs one fact more, `Reported`: a timeout is
reported only after a line was received, and with the first line the status is known. It
is what lets `Bridge` stand on `LinkSignals` in place of the whole link. Lemmas
state once what `WritePacket`, `SendCommand` and `GetGoing` do to the sender and to paired
keys; then there is one lemma per action.

**Ping pong.** `PingPong` bounds what is unanswered by `extra + 1`. That does not survive a
write: `Paced` says that it is at most `extra`, and one more only if `waitingForResponse`
says so, which is what `writePacket` tests. Replies are counted as the number of
places of the lines under way that hold one (`Count`), with lemmas for an appended line and for
a line read (each place moves by one). Off a connection nothing is under way.

**Bridge.** The layers are inductive one on top of the other. `Buried`: without a session, present or
stale, the retained availability is not `online`; the types and the broker's record go with it.
`Idle` and `Greeted`: off a connection nothing is under way, and on one without a session its
CONNECT has still to be read, as the first frame; with `ConnectFirst` they carry one another.
`Noticed`: `mqttStatus` and the link's `status` are `ok` as long as the connections that made them
so last, which gives `ReadyWhenBothUp`. `OnlineIsFounded` speaks of the moment when all has been
read; `TakenBack` says of every moment before it that each `online`, retained or still to be
read, has an `offline` behind it unless `status` is `ok`. It holds because a frame is lost only
with its connection, and of the session on that the will then says `offline`.
`Undelivered`: a command under way to the client is there once and was not passed on; the
deliveries of a session that ends go with it (`Buried`), so none comes again.

**Panel.** `FloodInv`: an answer is asked for before it comes, both on a connection, and as long as
it lasts the flood flag stands unless zone 64 was reported early (`Covered`); and while it stands
no slot has an event among its publications (`ZoneIsQuiet`, `PartitionIsQuiet`). For what is retained,
first the lemmas that say which publications of a line are retained (`RetainedOfZone`,
`RetainedOfPartition`, `RetainedOfOther`, `PublicationsOfPanicKey`), then what a line does to topics
that were true before it (`LineFollows`), then `ShownInv`: each topic shown is the bridge's, with a
value of that topic's (`Proper`), and says what the panel's zone or partition was last told to be,
unless it is `misled`, which only topics of the partition can be (`PanicLineShown`). `TypeCorrect`
is that for topics and values, `RetainedStaysTrue` for their truth. Two things the proof asked for were wrong in the model and not in the code: the `CASE` of
`Publications` had arms that were true together, where the code has a chain of `else if` (it is an
`IF` now), and nothing kept the other lines from being a partition's (a conjunct of
`ViewAssumption` does now).

**Induction over data.** A property is given to `DataInduction` as the set of what has it, and a
recursive definition as the functions it is made of, so that no theorem has an
operator for a parameter: a nonempty set of naturals has a least element (`LeastOfNats`), and a
recursive definition whose argument gets smaller by a measure has a solution
(`RecursionHasSolution`). From the latter comes, for each recursive function of the readers, the
lemma that unfolds it (`CountAt`, `HexDigitsAt`, `SplitAt`, `EncodeLengthAt`, `RemainingLengthAt`,
`StreamAt`).

**Lines.** `LinesInv` is an accounting of bytes: what was kept from the last connection, if no line
has come yet, followed by the packets whose line has not, is what `receivedData`, the socket and the
wire hold, in that order (`Front \o Stream[Unsent]`); and the lines are those of the packets before.
A read moves a border in it: `LinesAreTold` says, by induction on the number of bytes read, that splitting
a beginning of such a stream gives the next packets and leaves the beginning of another. It
rests on `SameParts`, that the first end of a line can be in one place only, and on packets
having no line end inside. `LinesVerify` needs that a packet's sum has at least two digits, as it has because a first
character that is printable is above 15. Then its last two digits are those of the sum modulo
256, which is what a receiver computes.

**Frames.** `StreamInv` is the same accounting, as long as the stream is in step (`intact`): the
part of a frame that has been read (`Begins`), and behind it the frames not received yet.
`WeighedBack` says that the remaining length is read as it was written, for every length and every size
of a byte. `AcksNameTheirMessage` needs no invariant: it is arithmetic of signed bytes, that a
high byte's sign is undone by the width of an id and a low byte's is not (`IdIsReadBack`), and that what
stands behind the topic is found by its length (`PublicationIsReadBack`).

**Only model-checked.** The liveness properties, on which the prover has no hold (they need
fairness, and that an action is enabled): `FailureFound`, `Reconnects`, `CommandSent`, `FloodEnds`,
`SilenceDetected`, `DeadPathFound`, `MqttReturns`, `AvailabilityFallsBack`, `StatusRestates`,
`FramesArrive`. `It100Link.FailureFound` is also what `Bridge` assumes as fairness of the link, so there the step
from the link to the bridge is checked on an instance and not proved.

## 6. Not modelled, and the plan

Not modelled: Graylog and log wording; settings parsing and the user names read from it;
the LCD contents, a copy of which is retained whenever it changes; QMQTT's router, which the
bridge does not use, its unsubscribe, disconnect and QoS 2 handshake, which the bridge never
causes, and the numbering of its messages, whose acknowledgements nobody looks at;
`AlarmPanel`, whose list of partitions is written and never read.

What is left:

1. The safety part of two liveness properties as theorems: that a complete answer shows every
   zone and the partition again (`StatusRestates`), and that the loop of `sockReadReady` does not stop with a
   whole frame in its buffer (`FramesArrive`).
2. That `KeepaliveTimeout` leaves something for the network to find dead (`DeadPathFound`), as an invariant.
