----------------------------- MODULE MqttSession -----------------------------
(***************************************************************************)
(* The QMQTT client as the bridge uses it (qmqtt_client.cpp,               *)
(* qmqtt_client_p.cpp, qmqtt_network.cpp), the network path to the broker, *)
(* and the broker with its retained topics, last will and subscription.    *)
(*                                                                         *)
(* QMQTT emits its signals in the middle of its handlers, so a handler is  *)
(* here an action with a parameter: the frames that the slots connected to *)
(* the signal send before it returns.  Bridge supplies them.               *)
(*                                                                         *)
(* Only publications that are retained are kept: no one can look at the    *)
(* others later.  Frames to the client that nobody listens for (CONNACK,   *)
(* SUBACK, PUBACK, PINGRESP) are left out.                                 *)
(***************************************************************************)
EXTENDS Naturals, Sequences, FiniteSets, SequencesExt

CONSTANTS
  Commands,    \* payloads published once each to the command topic
  Faults,      \* which of the misfortunes in FaultKinds may happen
  MaxFrames    \* bound: frames under way to the broker

FaultKinds == {"refuse", "reject", "drop", "cut", "crash"}

Topics == {"availability", "client"}

ASSUME SessionAssumption ==
  /\ Faults \subseteq FaultKinds
  /\ MaxFrames \in Nat \ {0, 1}

VARIABLES
  msock,      \* state of Network's QTcpSocket
  keepalive,  \* ClientPrivate's timer runs
  refused,    \* history: the latest attempt to connect was refused
  path,       \* environment: "up"; "closed", the far side has ended the
              \* connection; "cut", nothing gets across and nobody says so
  toBroker,   \* frames written on the present connection, not read
  toClient,   \* commands delivered on it, not read
  broker      \* environment: session on the present connection, stale (that
              \* of an earlier one still counts), subscribed, unacked
              \* deliveries, and the retained payload of each topic

sessionVars == <<msock, keepalive, refused, path, toBroker, toClient, broker>>

---------------------------------------------------------------------------
(* Frames.                                                                 *)

\* Faulty: retain is left at its default.
WillUnretained == [topic |-> "availability", payload |-> "offline", retain |-> FALSE]

\* setWill in the bridge's constructor, sent with CONNECT.
Will == [topic |-> "availability", payload |-> "offline", retain |-> TRUE]

\* Faulty: the session is meant to outlive the connection.
CleanSessionOff == FALSE

\* setCleansess, "to prevent duplicates".
CleanSession == TRUE

Connect         == [type |-> "CONNECT"]
Subscribe       == [type |-> "SUBSCRIBE"]
Pingreq         == [type |-> "PINGREQ"]
Puback(c)       == [type |-> "PUBACK", command |-> c]
Retain(t, text) == [type |-> "PUBLISH", topic |-> t, payload |-> text]

Frame ==
  [type : {"CONNECT", "SUBSCRIBE", "PINGREQ"}]
    \cup [type : {"PUBACK"}, command : Commands]
    \cup [type : {"PUBLISH"}, topic : Topics,
          payload : {"online", "offline", "connected"}]

\* sendFrame(): written if the socket is connected, otherwise dropped.
SendFrames(frames) ==
  IF msock = "connected" THEN toBroker \o frames ELSE toBroker

---------------------------------------------------------------------------
(* The broker's records.                                                   *)

NoBroker == [session |-> "none", stale |-> FALSE, subscribed |-> FALSE,
             unacked |-> {}, retained |-> [t \in Topics |-> "none"]]

\* A session ends without a DISCONNECT, which the bridge never sends.
Bereaved(b) ==
  [b EXCEPT !.retained = IF Will.retain THEN [@ EXCEPT ![Will.topic] = Will.payload]
                         ELSE @,
            !.subscribed = (@ /\ ~CleanSession),
            !.unacked = IF CleanSession THEN {} ELSE @]

\* The client's end of the connection is gone.
Orphaned(b) ==
  [b EXCEPT !.stale = (@ \/ b.session = "open"), !.session = "none"]

---------------------------------------------------------------------------
SessionInit ==
  /\ msock = "connecting" /\ keepalive = FALSE /\ refused = FALSE
  /\ path = "up" /\ toBroker = <<>> /\ toClient = <<>>
  /\ broker = NoBroker

\* Room for what one handler sends.
Room == msock = "connected" => Len(toBroker) < MaxFrames

\* A handler that publishes.
SendOnly(frames) ==
  /\ Room
  /\ toBroker' = SendFrames(frames)
  /\ UNCHANGED <<msock, keepalive, refused, path, toClient, broker>>

\* Faulty: connected() is emitted before the CONNECT is sent.
GreetingLate(frames) == frames \o <<Connect>>

\* onConnected(): sendConnect, and only then connected().
Greeting(frames) == <<Connect>> \o frames

\* Faulty: the timer is set but not started.
KeepaliveNotStarted == UNCHANGED keepalive

StartKeepalive == keepalive' = TRUE

\* sockConnected and onConnected; frames: what the slots of connected() send.
SockConnected(frames) ==
  /\ msock = "connecting"
  /\ msock' = "connected" /\ path' = "up" /\ refused' = FALSE
  /\ StartKeepalive
  /\ toBroker' = Greeting(frames)
  /\ UNCHANGED <<toClient, broker>>

\* An attempt fails: the socket emits error, and disconnected() is not
\* emitted for a connection that never was.
SockRefused ==
  /\ "refuse" \in Faults
  /\ msock = "connecting"
  /\ msock' = "unconnected" /\ refused' = TRUE
  /\ UNCHANGED <<keepalive, path, toBroker, toClient, broker>>

\* sockDisconnected and onDisconnected.  The socket learns of a cut path by
\* what it has written and sees unacknowledged.
SockDisconnected ==
  /\ msock = "connected"
  /\ \/ path = "closed"
     \/ path = "cut" /\ toBroker # <<>>
  /\ msock' = "unconnected" /\ keepalive' = FALSE /\ path' = "up"
  /\ toBroker' = <<>> /\ toClient' = <<>>
  /\ broker' = Orphaned(broker)
  /\ UNCHANGED refused

\* connectTo(): of the bridge's reconnect timer.
ConnectTo ==
  /\ msock' = IF msock = "unconnected" THEN "connecting" ELSE msock
  /\ UNCHANGED <<keepalive, refused, path, toBroker, toClient, broker>>

\* The keepalive timer's ping(), once in 300 s: what was written before it has
\* long left, or is not leaving (then the socket learns of it without a ping).
Ping ==
  /\ keepalive
  /\ toBroker = <<>>
  /\ SendOnly(<<Pingreq>>)

\* onReceived and handlePublish of a command, delivered with QoS 1: it is
\* acknowledged before received() is emitted.
Received(c) ==
  /\ msock = "connected" /\ toClient # <<>> /\ Room
  /\ c = Head(toClient)
  /\ toClient' = Tail(toClient)
  /\ toBroker' = SendFrames(<<Puback(c)>>)
  /\ UNCHANGED <<msock, keepalive, refused, path, broker>>

\* The process ends, and the next one's constructor connects.
Restarted ==
  /\ msock' = "connecting" /\ keepalive' = FALSE /\ refused' = FALSE
  /\ path' = "up" /\ toBroker' = <<>> /\ toClient' = <<>>
  /\ broker' = Orphaned(broker)

---------------------------------------------------------------------------
(* The environment: the network and the broker.                            *)

Break ==
  /\ msock = "connected" /\ path = "up"
  /\ \/ "drop" \in Faults /\ path' = "closed"
     \/ "cut" \in Faults /\ path' = "cut"
  /\ UNCHANGED <<msock, keepalive, refused, toBroker, toClient, broker>>

\* What the broker makes of a frame within a session.
Digest(b, f) ==
  CASE f.type = "SUBSCRIBE" -> [b EXCEPT !.subscribed = TRUE]
    [] f.type = "PUBLISH" -> [b EXCEPT !.retained[f.topic] = f.payload]
    [] f.type = "PUBACK" -> [b EXCEPT !.unacked = @ \ {f.command}]
    [] OTHER -> b

\* The frame that gets across next.
Arrives(f) ==
  /\ path = "up" /\ toBroker # <<>>
  /\ f = Head(toBroker)
  /\ toBroker' = Tail(toBroker)
  /\ UNCHANGED <<msock, keepalive, refused>>

\* A new session with the client's name ends one that is left of an earlier
\* connection, whose will is published first.
BrokerAccepts ==
  LET b == IF broker.stale THEN Bereaved(broker) ELSE broker IN
  /\ broker.session = "none" /\ Arrives(Connect)
  /\ broker' = [b EXCEPT !.session = "open", !.stale = FALSE]
  /\ toClient' \in {toClient \o q : q \in SetToSeqs(b.unacked)}
  /\ UNCHANGED path

BrokerDigests ==
  /\ broker.session = "open"
  /\ \E f \in Frame :
       /\ Arrives(f) /\ f # Connect
       /\ broker' = Digest(broker, f)
  /\ UNCHANGED <<path, toClient>>

\* A connection must begin with CONNECT, have no other, and be welcome.
Unacceptable(f) ==
  \/ (f = Connect) = (broker.session = "open")
  \/ f = Connect /\ "reject" \in Faults

BrokerRejects ==
  /\ \E f \in Frame : Arrives(f) /\ Unacceptable(f)
  /\ path' = "closed"
  /\ UNCHANGED <<broker, toClient>>

\* The broker finds a connection dead, the present one or one before.
BrokerGivesUp ==
  /\ \/ broker.stale /\ broker' = [Bereaved(broker) EXCEPT !.stale = FALSE]
     \/ /\ broker.session = "open" /\ path # "up"
        /\ broker' = [Bereaved(broker) EXCEPT !.session = "none"]
  /\ UNCHANGED <<msock, keepalive, refused, path, toBroker, toClient>>

\* Someone publishes a command: it is delivered if the client subscribes, and
\* lost if not.
Delivered(c) ==
  /\ broker.subscribed
  /\ broker' = [broker EXCEPT !.unacked = @ \cup {c}]
  /\ toClient' = IF broker.session = "open" /\ path = "up"
                 THEN Append(toClient, c) ELSE toClient
  /\ UNCHANGED <<msock, keepalive, refused, path, toBroker>>
=============================================================================
