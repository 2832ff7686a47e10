-------------------------------- MODULE Bridge --------------------------------
(***************************************************************************)
(* Class It100Mqtt (it100mqtt.cpp) between the link to the panel, of which *)
(* it knows the signals (LinkSignals), and the broker (MqttSession):       *)
(* availability, readiness, reconnection, and the commands that come in.   *)
(* The service manager restarts a process that ends, or that has not       *)
(* announced itself ready in time.                                         *)
(*                                                                         *)
(* A signal is delivered by a direct call, so each action is a handler of  *)
(* one of the two connections with the bridge's slots inside it.           *)
(***************************************************************************)
EXTENDS LinkSignals, MqttSession

VARIABLES
  mqttStatus,  \* mqttStatus
  retryDue,    \* the one-second single-shot of onMqttDisconnected is running
  ready,       \* READY=1 was sent to the service manager by this process
  sent,        \* history: the commands published so far
  given        \* history: how often each was passed on to the link

bridgeVars == <<mqttStatus, retryDue, ready>>
vars == <<linkVars, sessionVars, bridgeVars, sent, given>>

Init ==
  /\ LinkInit /\ SessionInit
  /\ mqttStatus = "unknown" /\ retryDue = FALSE /\ ready = FALSE
  /\ sent = {} /\ given = [c \in Commands |-> 0]

\* updateServiceStatus(): reads the status of both sides as it is then.
UpdateServiceStatus(it100, mqtt) == ready' = (ready \/ (it100 = "ok" /\ mqtt = "ok"))

---------------------------------------------------------------------------
(* MQTT.                                                                   *)

\* Faulty: the service status is updated before mqttStatus is.
NotedLate ==
  /\ UpdateServiceStatus(status, mqttStatus)
  /\ mqttStatus' = "ok"

Noted ==
  /\ mqttStatus' = "ok"
  /\ UpdateServiceStatus(status, mqttStatus')

\* onMqttConnect()
OnMqttConnect ==
  /\ SockConnected(<<Subscribe>>)
  /\ Noted
  /\ UNCHANGED <<linkVars, retryDue, sent, given>>

MqttRefused ==
  /\ SockRefused
  /\ UNCHANGED <<linkVars, bridgeVars, sent, given>>

\* Faulty: no timer is started.
NoRetry == UNCHANGED retryDue

StartRetry == retryDue' = TRUE

\* onMqttDisconnected()
OnMqttDisconnected ==
  /\ SockDisconnected
  /\ StartRetry
  /\ mqttStatus' = "failed"
  /\ UpdateServiceStatus(status, mqttStatus')
  /\ UNCHANGED <<linkVars, sent, given>>

\* reconnectTimerTimeout()
ReconnectTimerTimeout ==
  /\ retryDue
  /\ retryDue' = FALSE
  /\ ConnectTo
  /\ UNCHANGED <<linkVars, mqttStatus, ready, sent, given>>

KeepaliveTimeout == Ping /\ UNCHANGED <<linkVars, bridgeVars, sent, given>>

\* onMqttMessageReceived(): what a payload makes the link send.  "arm_stay"
\* arms away like the others; a single character must be a key.
CommandOf(payload) ==
  CASE payload \in {"arm", "arm_away", "arm_stay"} -> <<"arm_away">>
    [] payload = "disarm" -> <<"disarm">>
    [] payload = "key" -> <<"key", "break">>
    [] OTHER -> <<>>

OnMqttMessageReceived ==
  \E c \in Commands :
    /\ Received(c)
    /\ given' = [given EXCEPT ![c] = IF CommandOf(c) = <<>> THEN @ ELSE @ + 1]
    /\ UNCHANGED <<linkVars, bridgeVars, sent>>

---------------------------------------------------------------------------
(* The link's signals.                                                     *)

OnIt100Connected ==
  /\ LinkConnect
  /\ SendOnly(<<Retain("client", "connected")>>)
  /\ UNCHANGED <<bridgeVars, sent, given>>

OnIt100Disconnected ==
  /\ LinkDisconnect
  /\ UNCHANGED <<sessionVars, bridgeVars, sent, given>>

OnIt100CommunicationsBegin ==
  /\ LinkBegin
  /\ SendOnly(<<Retain("availability", "online")>>)
  /\ UpdateServiceStatus(status', mqttStatus)
  /\ UNCHANGED <<mqttStatus, retryDue, sent, given>>

\* Faulty: the timeout is an event like any other.
TimeoutFramesNone == <<>>

\* Faulty: the link's word for it is published.
TimeoutFramesFailed == <<Retain("availability", "failed")>>

TimeoutFrames == <<Retain("availability", "offline")>>

OnIt100CommunicationsTimeout ==
  /\ LinkTimeout
  /\ SendOnly(TimeoutFrames)
  /\ UpdateServiceStatus(status', mqttStatus)
  /\ UNCHANGED <<mqttStatus, retryDue, sent, given>>

---------------------------------------------------------------------------
(* The service manager, the network, the broker and its other clients.     *)

\* Restart=always: a process that ends is followed by another.
Restart ==
  /\ "crash" \in Faults \/ ~ready
  /\ up' = FALSE /\ good' = FALSE /\ status' = "unknown"
  /\ Restarted
  /\ mqttStatus' = "unknown" /\ retryDue' = FALSE /\ ready' = FALSE
  /\ UNCHANGED <<sent, given>>

Publish(c) ==
  /\ c \notin sent
  /\ sent' = sent \cup {c}
  /\ \/ Delivered(c)
     \/ ~broker.subscribed /\ UNCHANGED sessionVars
  /\ UNCHANGED <<linkVars, bridgeVars, given>>

PathBreaks == Break /\ UNCHANGED <<linkVars, bridgeVars, sent, given>>

BrokerReads ==
  /\ BrokerAccepts \/ BrokerDigests \/ BrokerRejects
  /\ UNCHANGED <<linkVars, bridgeVars, sent, given>>

DeadFound == BrokerGivesUp /\ UNCHANGED <<linkVars, bridgeVars, sent, given>>

Next ==
  \/ OnMqttConnect \/ MqttRefused \/ OnMqttDisconnected
  \/ ReconnectTimerTimeout \/ KeepaliveTimeout \/ OnMqttMessageReceived
  \/ OnIt100Connected \/ OnIt100Disconnected
  \/ OnIt100CommunicationsBegin \/ OnIt100CommunicationsTimeout
  \/ Restart \/ PathBreaks \/ BrokerReads \/ DeadFound
  \/ \E c \in Commands : Publish(c)

Spec == Init /\ [][Next]_vars

\* Handlers whose event is due are run; an attempt to connect ends; the
\* broker reads, and finds dead connections dead; a process that is not ready
\* in time is killed.  The last two say of the
\* link what It100Link!FailureFound does: while it stays up, or down, without
\* communicating, its communications timer fires again and again.
Fairness ==
  /\ WF_vars(OnMqttConnect \/ MqttRefused)
  /\ WF_vars(OnMqttDisconnected)
  /\ WF_vars(ReconnectTimerTimeout)
  /\ WF_vars(KeepaliveTimeout)
  /\ WF_vars(~ready /\ Restart)
  /\ WF_vars(BrokerReads) /\ WF_vars(DeadFound)
  /\ WF_vars(up /\ ~good /\ OnIt100CommunicationsTimeout)
  /\ WF_vars(~up /\ OnIt100CommunicationsTimeout)

FairSpec == Spec /\ Fairness

---------------------------------------------------------------------------
(* Properties.                                                             *)

TypeOK ==
  /\ status \in {"unknown", "ok", "failed"}
  /\ msock \in {"unconnected", "connecting", "connected"}
  /\ path \in {"up", "closed", "cut"}
  /\ toBroker \in Seq(Frame) /\ toClient \in Seq(Commands)
  /\ broker \in [session : {"none", "open"}, stale : BOOLEAN, subscribed : BOOLEAN,
                 unacked : SUBSET Commands,
                 retained : [Topics -> {"none", "online", "offline", "connected"}]]
  /\ mqttStatus \in {"unknown", "ok", "failed"}
  /\ \A flag \in {up, good, keepalive, refused, retryDue, ready} : flag \in BOOLEAN
  /\ sent \subseteq Commands /\ given \in [Commands -> Nat]

\* Everything written has been read, on a connection that works.
Settled ==
  /\ msock = "connected" /\ path = "up" /\ broker.session = "open"
  /\ toBroker = <<>>

Availability == broker.retained["availability"]

\* The first frame on a connection is its CONNECT, and there is no other,
\* though publications come from the panel's side at any time
\* (qmqtt_client.cpp:194-196, qmqtt_network.cpp:95).
ConnectFirst ==
  path = "up" =>
    \A i \in DOMAIN toBroker :
      (toBroker[i] = Connect) <=> (i = 1 /\ broker.session = "none")

\* The last will covers every way for the bridge to disappear: with no
\* session of it left, nobody is told that it is online (it100mqtt.cpp:81-83).
WillCovers ==
  broker.session = "none" /\ ~broker.stale => Availability # "online"

\* What is retained as online was said by this process, in this session, and
\* not taken back since, whatever publications were dropped or lost on the
\* way (it100mqtt.cpp:356-376).
OnlineIsFounded == Settled /\ Availability = "online" => status = "ok"

\* Whichever side is up last announces the process ready: at the latest when
\* both are up, READY=1 was sent (it100mqtt.cpp:130-140).
ReadyWhenBothUp == good /\ msock = "connected" => ready

\* A command is passed on at most once, also when a connection is lost with
\* its acknowledgement: "needing to clean session to prevent duplicates"
\* (it100mqtt.cpp:318-320).
CommandAtMostOnce == \A c \in Commands : given[c] <= IF c \in sent THEN 1 ELSE 0

\* A path that is cut while the bridge has nothing to say is found out by
\* the keepalive's pings (qmqtt_client_p.cpp:201-205).
DeadPathFound == path = "cut" ~> path # "cut"

\* A lost connection to the broker is followed by another attempt
\* (it100mqtt.cpp:194-205), and so is one that was refused before the process
\* was ever ready, by way of the service manager.  A process that was ready
\* once makes no attempt after one that is refused.
MqttReturns ==
  msock = "unconnected" ~> msock # "unconnected" \/ (refused /\ ready)

\* Once the module is silent for good, on a connection that stays or after
\* one that does not return, it is in the end not said to be online, whatever
\* becomes of the broker's connection and of the process.
AvailabilityFallsBack ==
  <>[]~good /\ (<>[]up \/ <>[]~up) => <>[](Availability # "online")

\* README.md:38: "online set when IT100 begins communicating".
OnlineWhenCommunicating == Settled /\ good => Availability = "online"
=============================================================================
