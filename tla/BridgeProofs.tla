----------------------------- MODULE BridgeProofs -----------------------------
(***************************************************************************)
(* Theorems about Bridge, with their proofs.                               *)
(*                                                                         *)
(* The inductive invariant comes in layers, each inductive given those     *)
(* before it: types and what the broker keeps (TypesHold), the connection  *)
(* (ConnectionHolds), then readiness, availability and commands, of which  *)
(* none needs another.                                                     *)
(***************************************************************************)
EXTENDS Bridge, SequenceTheorems, FiniteSetTheorems, TLAPS

\* The two things said of availability.
Online  == Retain("availability", "online")
Offline == Retain("availability", "offline")

\* Without a connection nothing is under way, and the broker's session is gone
\* or stale.
Idle ==
  msock # "connected" =>
    path = "up" /\ toBroker = <<>> /\ toClient = <<>> /\ broker.session = "none"

\* On a connection without a session something, the CONNECT, is still to be read.
Greeted ==
  msock = "connected" /\ path = "up" /\ broker.session = "none" => toBroker # <<>>

\* Of a session that ended the broker keeps nothing that could come true or be
\* delivered later.
Buried ==
  broker.session = "none" /\ ~broker.stale =>
    Availability # "online" /\ ~broker.subscribed /\ broker.unacked = {}

\* Of the frames s, "offline" is one; each "online" has one behind it.
SaysOffline(s) == \E j \in DOMAIN s : s[j] = Offline
Retracts(s) ==
  \A i \in DOMAIN s : s[i] = Online => \E j \in DOMAIN s : j > i /\ s[j] = Offline

\* Each "online" that is retained, or is still to be read, has an "offline"
\* behind it unless the link's status is ok.
TakenBack ==
  msock = "connected" /\ path = "up" /\ status # "ok" =>
    /\ Retracts(toBroker)
    /\ broker.session = "open" /\ Availability = "online" => SaysOffline(toBroker)

\* What updateServiceStatus reads is up to date.
Noticed == (msock = "connected" => mqttStatus = "ok") /\ (good => status = "ok")

\* A command under way to the client is there once, and was not passed on.
Undelivered ==
  /\ \A i, j \in DOMAIN toClient : toClient[i] = toClient[j] => i = j
  /\ \A i \in DOMAIN toClient : toClient[i] \in sent /\ given[toClient[i]] = 0

---------------------------------------------------------------------------
(* Frames.                                                                 *)

\* What the bridge's handlers send once CONNECT is sent.
Sendings ==
  {Subscribe, Pingreq, Online, Offline, Retain("client", "connected")}
    \cup {Puback(c) : c \in Commands}

LEMMA SendingsAreFrames == Sendings \subseteq Frame /\ Connect \in Frame
BY DEF Sendings, Frame, Subscribe, Pingreq, Online, Offline, Retain, Puback, Connect,
       Topics

\* Each is told from CONNECT by its type, and the two about availability by
\* what they say.
LEMMA SendingsDiffer ==
  /\ Connect \notin Sendings
  /\ Online # Offline
  /\ {Subscribe, Pingreq, Retain("client", "connected")} \cap {Online, Offline} = {}
  /\ \A c \in Commands : Puback(c) \notin {Online, Offline}
<1>1. Connect.type = "CONNECT" /\ Subscribe.type = "SUBSCRIBE" /\ Pingreq.type = "PINGREQ"
  BY DEF Connect, Subscribe, Pingreq
<1>2. \A c \in Commands : Puback(c).type = "PUBACK"
  BY DEF Puback
<1>3. /\ Online.type = "PUBLISH" /\ Online.topic = "availability" /\ Online.payload = "online"
      /\ Offline.type = "PUBLISH" /\ Offline.payload = "offline"
      /\ Retain("client", "connected").type = "PUBLISH"
      /\ Retain("client", "connected").topic = "client"
      /\ Offline.topic = "availability"
  BY DEF Online, Offline, Retain
<1> QED BY <1>1, <1>2, <1>3, Zenon DEF Sendings

\* What is under way once frames are sent.
LEMMA SendFramesType ==
  ASSUME toBroker \in Seq(Frame), NEW fs \in Seq(Frame)
  PROVE  SendFrames(fs) \in Seq(Frame)
BY DEF SendFrames

\* The broker's records.
Records ==
  [session : {"none", "open"}, stale : BOOLEAN, subscribed : BOOLEAN,
   unacked : SUBSET Commands,
   retained : [Topics -> {"none", "online", "offline", "connected"}]]

LEMMA BereavedType ==
  ASSUME NEW b \in Records
  PROVE  /\ Bereaved(b) \in Records
         /\ Bereaved(b).session = b.session /\ Bereaved(b).stale = b.stale
         /\ Bereaved(b).subscribed = FALSE /\ Bereaved(b).unacked = {}
         /\ Bereaved(b).retained["availability"] = "offline"
BY DEF Records, Bereaved, Will, CleanSession, Topics

LEMMA OrphanedType ==
  ASSUME NEW b \in Records
  PROVE  /\ Orphaned(b) \in Records
         /\ Orphaned(b).session = "none"
         /\ Orphaned(b).stale = (b.stale \/ b.session = "open")
         /\ Orphaned(b).subscribed = b.subscribed /\ Orphaned(b).unacked = b.unacked
         /\ Orphaned(b).retained = b.retained
BY DEF Records, Orphaned

\* A frame changes what the broker retains only if it is a publication.
LEMMA DigestType ==
  ASSUME NEW b \in Records, NEW f \in Frame
  PROVE  /\ Digest(b, f) \in Records
         /\ Digest(b, f).session = b.session /\ Digest(b, f).stale = b.stale
         /\ Digest(b, f).retained["availability"] =
              IF f.type = "PUBLISH" /\ f.topic = "availability" THEN f.payload
              ELSE b.retained["availability"]
<1>1. CASE f.type = "PUBLISH"
  <2>1. f.topic \in Topics /\ f.payload \in {"online", "offline", "connected"}
    BY <1>1 DEF Frame
  <2>2. Digest(b, f) = [b EXCEPT !.retained[f.topic] = f.payload]
    BY <1>1 DEF Digest
  <2> QED BY <1>1, <2>1, <2>2 DEF Records, Topics
<1>2. CASE f.type = "SUBSCRIBE"
  <2>1. Digest(b, f) = [b EXCEPT !.subscribed = TRUE]
    BY <1>2 DEF Digest
  <2> QED BY <1>2, <2>1 DEF Records
<1>3. CASE f.type = "PUBACK"
  <2>1. Digest(b, f) = [b EXCEPT !.unacked = @ \ {f.command}]
    BY <1>3 DEF Digest
  <2> QED BY <1>3, <2>1 DEF Records
<1>4. CASE f.type \notin {"PUBLISH", "SUBSCRIBE", "PUBACK"}
  <2>1. Digest(b, f) = b
    BY <1>4 DEF Digest
  <2> QED BY <1>4, <2>1
<1> QED BY <1>1, <1>2, <1>3, <1>4
---------------------------------------------------------------------------
(* Types.                                                                  *)

\* Room or not, what a handler sends leaves the frames under way a sequence
\* of frames.
LEMMA SendOnlyType ==
  ASSUME TypeOK, NEW f \in Sendings, SendOnly(<<f>>)
  PROVE  /\ toBroker' \in Seq(Frame)
         /\ UNCHANGED <<msock, keepalive, refused, path, toClient, broker>>
<1>1. <<f>> \in Seq(Frame)
  BY SendingsAreFrames
<1> QED BY <1>1, SendFramesType DEF SendOnly, TypeOK

\* MQTT's side.
LEMMA MqttTypes ==
  ASSUME TypeOK,
         \/ OnMqttConnect \/ MqttRefused \/ OnMqttDisconnected
         \/ ReconnectTimerTimeout \/ KeepaliveTimeout \/ OnMqttMessageReceived
  PROVE  TypeOK'
<1> USE DEF linkVars, bridgeVars
<1>1. CASE OnMqttConnect
  <2>1. toBroker' = <<Connect>> \o <<Subscribe>>
    BY <1>1 DEF OnMqttConnect, SockConnected, Greeting
  <2>2. toBroker' \in Seq(Frame)
    BY <2>1, SendingsAreFrames DEF Sendings
  <2> QED BY <1>1, <2>2 DEF TypeOK, OnMqttConnect, SockConnected, StartKeepalive, Noted,
                            UpdateServiceStatus
<1>2. CASE MqttRefused
  BY <1>2 DEF TypeOK, MqttRefused, SockRefused
<1>3. CASE OnMqttDisconnected
  <2>1. broker' \in Records
    BY <1>3, OrphanedType DEF TypeOK, OnMqttDisconnected, SockDisconnected, Records
  <2>2. ready' \in BOOLEAN
    BY <1>3, Zenon DEF OnMqttDisconnected, UpdateServiceStatus
  <2>3. UNCHANGED <<up, good, status, refused, sent, given>>
    BY <1>3 DEF OnMqttDisconnected, SockDisconnected
  <2>4. /\ msock' = "unconnected" /\ path' = "up" /\ mqttStatus' = "failed"
        /\ toBroker' = <<>> /\ toClient' = <<>> /\ keepalive' = FALSE /\ retryDue' = TRUE
    BY <1>3 DEF OnMqttDisconnected, SockDisconnected, StartRetry
  <2>5. <<>> \in Seq(Frame) /\ <<>> \in Seq(Commands)
    BY EmptySeq
  <2> QED BY <2>1, <2>2, <2>3, <2>4, <2>5, Zenon DEF TypeOK, Records
<1>4. CASE ReconnectTimerTimeout
  BY <1>4 DEF TypeOK, ReconnectTimerTimeout, ConnectTo
<1>5. CASE KeepaliveTimeout
  <2>1. toBroker' \in Seq(Frame)
        /\ UNCHANGED <<msock, keepalive, refused, path, toClient, broker>>
    BY <1>5, SendOnlyType DEF KeepaliveTimeout, Ping, Sendings
  <2> QED BY <1>5, <2>1 DEF TypeOK, KeepaliveTimeout
<1>6. CASE OnMqttMessageReceived
  <2> PICK c \in Commands :
        /\ Received(c)
        /\ given' = [given EXCEPT ![c] = IF CommandOf(c) = <<>> THEN @ ELSE @ + 1]
        /\ UNCHANGED <<linkVars, bridgeVars, sent>>
    BY <1>6 DEF OnMqttMessageReceived
  <2>1. given' \in [Commands -> Nat]
    BY DEF TypeOK
  <2>2. <<Puback(c)>> \in Seq(Frame)
    BY SendingsAreFrames DEF Sendings
  <2>3. toBroker' = SendFrames(<<Puback(c)>>) /\ toClient # <<>> /\ toClient' = Tail(toClient)
    BY DEF Received
  <2>4. toBroker \in Seq(Frame) /\ toClient \in Seq(Commands)
    BY DEF TypeOK
  <2>5. toBroker' \in Seq(Frame)
    BY <2>2, <2>3, <2>4, SendFramesType
  <2>6. toClient' \in Seq(Commands)
    BY <2>3, <2>4, HeadTailProperties
  <2>7. UNCHANGED <<msock, keepalive, refused, path, broker>>
    BY DEF Received
  <2> QED BY <2>1, <2>5, <2>6, <2>7 DEF TypeOK
<1> QED BY <1>1, <1>2, <1>3, <1>4, <1>5, <1>6

\* The link's side.
LEMMA LinkTypes ==
  ASSUME TypeOK,
         \/ OnIt100Connected \/ OnIt100Disconnected
         \/ OnIt100CommunicationsBegin \/ OnIt100CommunicationsTimeout
  PROVE  TypeOK'
<1> USE DEF linkVars, bridgeVars
<1>1. CASE OnIt100Connected
  <2>1. toBroker' \in Seq(Frame)
        /\ UNCHANGED <<msock, keepalive, refused, path, toClient, broker>>
    BY <1>1, SendOnlyType DEF OnIt100Connected, Sendings
  <2> QED BY <1>1, <2>1 DEF TypeOK, OnIt100Connected, LinkConnect
<1>2. CASE OnIt100Disconnected
  BY <1>2 DEF TypeOK, OnIt100Disconnected, LinkDisconnect, sessionVars
<1>3. CASE OnIt100CommunicationsBegin
  <2>1. toBroker' \in Seq(Frame)
        /\ UNCHANGED <<msock, keepalive, refused, path, toClient, broker>>
    BY <1>3, SendOnlyType DEF OnIt100CommunicationsBegin, Sendings, Online
  <2> QED BY <1>3, <2>1 DEF TypeOK, OnIt100CommunicationsBegin, LinkBegin,
                            UpdateServiceStatus
<1>4. CASE OnIt100CommunicationsTimeout
  <2>1. toBroker' \in Seq(Frame)
        /\ UNCHANGED <<msock, keepalive, refused, path, toClient, broker>>
    BY <1>4, SendOnlyType DEF OnIt100CommunicationsTimeout, TimeoutFrames, Sendings, Offline
  <2> QED BY <1>4, <2>1 DEF TypeOK, OnIt100CommunicationsTimeout, LinkTimeout,
                            UpdateServiceStatus
<1> QED BY <1>1, <1>2, <1>3, <1>4

\* The only way to arrange no command is to deliver none.
LEMMA NoneToRedeliver == SetToSeqs({}) = {<<>>}
<1>1. Cardinality({}) = 0
  BY FS_EmptySet
<1>2. 1..0 = {}
  OBVIOUS
<1>3. <<>> \in [1..0 -> {}]
  BY <1>2
<1>4. ASSUME NEW f \in [1..0 -> {}]
      PROVE  f = <<>>
  <2>1. f \in Seq({}) /\ Len(f) = 0
    OBVIOUS
  <2> QED BY <2>1, EmptySeq
<1> QED BY <1>1, <1>2, <1>3, <1>4 DEF SetToSeqs
\* What each step may do to the broker's records.
LEMMA BrokerSteps ==
  ASSUME [Next]_vars
  PROVE  \/ UNCHANGED broker
         \/ broker' = Orphaned(broker)
         \/ BrokerAccepts \/ BrokerDigests \/ BrokerGivesUp
         \/ \E c \in Commands : Delivered(c)
<1>1. CASE UNCHANGED vars
  BY <1>1 DEF vars, sessionVars
<1>2. CASE OnMqttConnect \/ MqttRefused \/ ReconnectTimerTimeout \/ OnMqttMessageReceived
           \/ PathBreaks
  BY <1>2, Zenon DEF OnMqttConnect, SockConnected, MqttRefused, SockRefused,
     ReconnectTimerTimeout, ConnectTo, OnMqttMessageReceived, Received, PathBreaks, Break
<1>3. CASE KeepaliveTimeout \/ OnIt100Connected \/ OnIt100CommunicationsBegin
           \/ OnIt100CommunicationsTimeout \/ OnIt100Disconnected
  BY <1>3, Zenon DEF KeepaliveTimeout, Ping, OnIt100Connected, OnIt100CommunicationsBegin,
     OnIt100CommunicationsTimeout, OnIt100Disconnected, SendOnly, sessionVars
<1>4. CASE OnMqttDisconnected \/ Restart
  BY <1>4, Zenon DEF OnMqttDisconnected, SockDisconnected, Restart, Restarted
<1>5. CASE BrokerReads \/ DeadFound
  BY <1>5, Zenon DEF BrokerReads, BrokerRejects, DeadFound
<1>6. CASE \E c \in Commands : Publish(c)
  BY <1>6, Zenon DEF Publish, sessionVars
<1> QED BY <1>1, <1>2, <1>3, <1>4, <1>5, <1>6, Zenon DEF Next

\* The broker's records stay records, and what it keeps of a session that
\* ended stays harmless.
LEMMA BrokerKept ==
  ASSUME TypeOK, Buried, [Next]_vars
  PROVE  broker' \in Records /\ Buried'
<1>1. broker \in Records
  BY Zenon DEF TypeOK, Records
<1>2. CASE UNCHANGED broker
  BY <1>1, <1>2 DEF Buried, Availability
<1>3. CASE broker' = Orphaned(broker)
  <2>1. broker.session \in {"none", "open"} /\ broker.stale \in BOOLEAN
    BY <1>1 DEF Records
  <2> QED BY <1>1, <1>3, <2>1, OrphanedType DEF Buried, Availability
<1>4. CASE BrokerAccepts
  <2> DEFINE b == IF broker.stale THEN Bereaved(broker) ELSE broker
  <2>1. b \in Records
    BY <1>1, BereavedType
  <2>2. broker' = [b EXCEPT !.session = "open", !.stale = FALSE]
    BY <1>4 DEF BrokerAccepts
  <2> HIDE DEF b
  <2>3. broker' \in Records /\ broker'.session = "open"
    BY <2>1, <2>2 DEF Records
  <2> QED BY <2>3 DEF Buried
<1>5. CASE BrokerDigests
  <2>1. PICK f \in Frame : broker' = Digest(broker, f)
    BY <1>5 DEF BrokerDigests
  <2>2. broker.session = "open"
    BY <1>5 DEF BrokerDigests
  <2>3. broker' \in Records /\ broker'.session = "open"
    BY <1>1, <2>1, <2>2, DigestType
  <2> QED BY <2>3 DEF Buried
<1>6. CASE BrokerGivesUp
  <2> DEFINE b == Bereaved(broker)
  <2>1. broker' = [b EXCEPT !.stale = FALSE] \/ broker' = [b EXCEPT !.session = "none"]
    BY <1>6 DEF BrokerGivesUp
  <2>2. /\ b \in Records /\ b.subscribed = FALSE /\ b.unacked = {}
        /\ b.retained["availability"] = "offline"
    BY <1>1, BereavedType
  <2> HIDE DEF b
  <2>3. /\ broker' \in Records /\ broker'.subscribed = FALSE /\ broker'.unacked = {}
        /\ broker'.retained["availability"] = "offline"
    BY <2>1, <2>2 DEF Records
  <2> QED BY <2>3 DEF Buried, Availability
<1>7. CASE \E c \in Commands : Delivered(c)
  <2>1. PICK c \in Commands :
          broker.subscribed /\ broker' = [broker EXCEPT !.unacked = @ \cup {c}]
    BY <1>7 DEF Delivered
  <2>2. /\ broker' \in Records /\ broker'.subscribed = broker.subscribed
        /\ broker'.session = broker.session /\ broker'.stale = broker.stale
    BY <1>1, <2>1 DEF Records
  <2>3. broker.session # "none" \/ broker.stale
    BY <2>1 DEF Buried
  <2> QED BY <2>2, <2>3 DEF Buried
<1> QED BY <1>2, <1>3, <1>4, <1>5, <1>6, <1>7, BrokerSteps, Zenon

\* A new session finds nothing of an earlier one to deliver again.
LEMMA NothingRedelivered ==
  ASSUME TypeOK, Buried, BrokerAccepts
  PROVE  /\ toClient' = toClient
         /\ broker' \in Records /\ broker'.session = "open"
         /\ broker'.retained["availability"] # "online"
         /\ toBroker # <<>> /\ Head(toBroker) = Connect /\ toBroker' = Tail(toBroker)
         /\ broker.session = "none" /\ path = "up"
         /\ UNCHANGED <<msock, keepalive, refused, path>>
<1> DEFINE b == IF broker.stale THEN Bereaved(broker) ELSE broker
<1>1. broker \in Records /\ toClient \in Seq(Commands)
  BY Zenon DEF TypeOK, Records
<1>2. broker.session = "none"
  BY DEF BrokerAccepts
<1>3. b \in Records /\ b.unacked = {} /\ b.retained["availability"] # "online"
  <2>1. CASE broker.stale
    BY <1>1, <2>1, BereavedType
  <2>2. CASE ~broker.stale
    BY <1>1, <1>2, <2>2 DEF Buried, Availability
  <2> QED BY <2>1, <2>2
<1>4. /\ broker' = [b EXCEPT !.session = "open", !.stale = FALSE]
      /\ toClient' \in {toClient \o q : q \in SetToSeqs(b.unacked)}
  BY DEF BrokerAccepts
<1>5. Arrives(Connect) /\ UNCHANGED path
  BY DEF BrokerAccepts
<1> HIDE DEF b
<1>6. /\ broker' \in Records /\ broker'.session = "open"
      /\ broker'.retained["availability"] # "online"
  BY <1>3, <1>4 DEF Records
<1>7. toClient' = toClient \o <<>>
  BY <1>3, <1>4, NoneToRedeliver
<1>8. toClient' = toClient
  BY <1>1, <1>7, ConcatEmptySeq
<1> QED BY <1>2, <1>5, <1>6, <1>8 DEF Arrives

\* The service manager's side, the network's and the broker's.
LEMMA OtherTypes ==
  ASSUME TypeOK, Buried, [Next]_vars,
         Restart \/ PathBreaks \/ BrokerReads \/ DeadFound \/ \E c \in Commands : Publish(c)
  PROVE  TypeOK'
<1> USE DEF linkVars, bridgeVars
<1>1. broker' \in Records
  BY BrokerKept
<1>2. /\ toBroker \in Seq(Frame) /\ toClient \in Seq(Commands)
      /\ <<>> \in Seq(Frame) /\ <<>> \in Seq(Commands)
  BY DEF TypeOK
<1>3. CASE Restart
  BY <1>1, <1>2, <1>3, Zenon DEF TypeOK, Records, Restart, Restarted
<1>4. CASE PathBreaks
  BY <1>1, <1>4, Zenon DEF TypeOK, Records, PathBreaks, Break
<1>5. CASE BrokerReads
  <2>1. toBroker # <<>> /\ toBroker' = Tail(toBroker)
    BY <1>5, Zenon DEF BrokerReads, BrokerAccepts, BrokerDigests, BrokerRejects, Arrives
  <2>2. toBroker' \in Seq(Frame)
    BY <1>2, <2>1, HeadTailProperties
  <2>3. UNCHANGED <<msock, keepalive, refused>> /\ (path' = path \/ path' = "closed")
    BY <1>5, Zenon DEF BrokerReads, BrokerAccepts, BrokerDigests, BrokerRejects, Arrives
  <2>4. toClient' = toClient
    BY <1>5, NothingRedelivered, Zenon DEF BrokerReads, BrokerDigests, BrokerRejects
  <2> QED BY <1>1, <1>5, <2>2, <2>3, <2>4, Zenon DEF TypeOK, Records, BrokerReads
<1>6. CASE DeadFound
  BY <1>1, <1>6, Zenon DEF TypeOK, Records, DeadFound, BrokerGivesUp
<1>7. CASE \E c \in Commands : Publish(c)
  <2> PICK c \in Commands : Publish(c)
    BY <1>7
  <2>1. toClient' = toClient \/ toClient' = Append(toClient, c)
    BY Zenon DEF Publish, Delivered, sessionVars
  <2>2. toClient' \in Seq(Commands)
    BY <1>2, <2>1
  <2>3. sent' \in SUBSET Commands
    BY DEF Publish, TypeOK
  <2>4. UNCHANGED <<msock, keepalive, refused, path, toBroker>>
    BY Zenon DEF Publish, Delivered, sessionVars
  <2>5. UNCHANGED <<linkVars, bridgeVars, given>>
    BY DEF Publish
  <2> QED BY <1>1, <2>2, <2>3, <2>4, <2>5, Zenon DEF TypeOK, Records
<1> QED BY <1>3, <1>4, <1>5, <1>6, <1>7

\* What the records and the types need of each other.
LEMMA TypesHold == Spec => [](TypeOK /\ Buried)
<1>1. Init => TypeOK /\ Buried
  <2> SUFFICES ASSUME Init PROVE TypeOK /\ Buried
    OBVIOUS
  <2>1. /\ broker \in Records /\ Availability = "none"
        /\ broker.subscribed = FALSE /\ broker.unacked = {}
    BY DEF Init, SessionInit, NoBroker, Records, Topics, Availability
  <2>2. <<>> \in Seq(Frame) /\ <<>> \in Seq(Commands)
    OBVIOUS
  <2>3. given \in [Commands -> Nat]
    BY DEF Init
  <2>4. TypeOK
    BY <2>1, <2>2, <2>3, Zenon DEF Init, LinkInit, SessionInit, TypeOK, Records
  <2> QED BY <2>1, <2>4 DEF Buried
<1>2. TypeOK /\ Buried /\ [Next]_vars => TypeOK' /\ Buried'
  <2> SUFFICES ASSUME TypeOK, Buried, [Next]_vars PROVE TypeOK' /\ Buried'
    OBVIOUS
  <2>1. Buried'
    BY BrokerKept
  <2>2. CASE UNCHANGED vars
    <3>1. /\ UNCHANGED <<up, good, status, msock, keepalive, refused, path, toBroker,
                       toClient, broker>>
          /\ UNCHANGED <<mqttStatus, retryDue, ready, sent, given>>
      BY <2>2 DEF vars, linkVars, sessionVars, bridgeVars
    <3> QED BY <3>1, <2>1, Zenon DEF TypeOK
  <2> QED BY <2>1, <2>2, MqttTypes, LinkTypes, OtherTypes, Zenon DEF Next
<1> QED BY <1>1, <1>2, PTL DEF Spec

\* Every variable keeps its type.
THEOREM TypeCorrect == Spec => []TypeOK
BY TypesHold, PTL

\* Whatever way the bridge disappears, its will takes "online" back: the broker
\* says so of nobody once the last session is found dead.
THEOREM WillIsKept == Spec => []WillCovers
<1>1. Buried => WillCovers
  BY DEF Buried, WillCovers
<1> QED BY <1>1, TypesHold, PTL
---------------------------------------------------------------------------
(* The connection to the broker.                                           *)

Connection == Idle /\ Greeted /\ ConnectFirst

\* A handler of the bridge sends at most one frame, and not CONNECT; nothing
\* else of the session changes.
Sends(f) ==
  /\ f \in Sendings
  /\ toBroker' = IF msock = "connected" THEN toBroker \o <<f>> ELSE toBroker
  /\ UNCHANGED <<msock, path, broker>>

\* What each step may do to the connection and the frames under way on it.
LEMMA ConnectionSteps ==
  ASSUME [Next]_vars
  PROVE  \/ UNCHANGED <<msock, path, toBroker, toClient, broker.session>>
         \/ UNCHANGED toClient /\ \E f \in Sendings : Sends(f)
         \/ OnMqttMessageReceived
         \/ OnMqttConnect
         \/ MqttRefused \/ ReconnectTimerTimeout
         \/ OnMqttDisconnected \/ Restart
         \/ PathBreaks \/ BrokerReads \/ DeadFound
         \/ \E c \in Commands : Publish(c)
<1>1. CASE UNCHANGED vars
  BY <1>1 DEF vars, sessionVars
<1>2. CASE OnIt100Disconnected
  BY <1>2 DEF OnIt100Disconnected, sessionVars
<1>3. ASSUME NEW f \in Sendings, SendOnly(<<f>>)
      PROVE  UNCHANGED toClient /\ Sends(f)
  BY <1>3, Zenon DEF SendOnly, SendFrames, Sends
<1>4. CASE KeepaliveTimeout \/ OnIt100Connected \/ OnIt100CommunicationsBegin
           \/ OnIt100CommunicationsTimeout
  <2>1. \E f \in {Pingreq, Online, Offline, Retain("client", "connected")} :
          SendOnly(<<f>>)
    BY <1>4, Zenon DEF KeepaliveTimeout, Ping, OnIt100Connected,
       OnIt100CommunicationsBegin, OnIt100CommunicationsTimeout, TimeoutFrames, Online,
       Offline
  <2> QED BY <1>3, <2>1, Zenon DEF Sendings
<1> QED BY <1>1, <1>2, <1>4, Zenon DEF Next

\* A frame that joins those under way leaves the CONNECT first and alone.
LEMMA JoinKeepsFirst ==
  ASSUME NEW s \in Seq(Frame), NEW f \in Sendings, NEW none \in BOOLEAN,
         none => s # <<>>,
         \A i \in DOMAIN s : (s[i] = Connect) <=> (i = 1 /\ none)
  PROVE  /\ s \o <<f>> # <<>>
         /\ \A i \in DOMAIN (s \o <<f>>) : ((s \o <<f>>)[i] = Connect) <=> (i = 1 /\ none)
<1> DEFINE r == s \o <<f>>
<1>1. f \in Frame /\ f # Connect
  BY SendingsAreFrames, SendingsDiffer
<1>2. <<f>> \in Seq(Frame) /\ Len(<<f>>) = 1 /\ <<f>>[1] = f
  BY <1>1
<1>3. /\ r \in Seq(Frame) /\ Len(r) = Len(s) + 1
      /\ \A i \in 1..Len(s) : r[i] = s[i]
      /\ r[Len(s) + 1] = f
      /\ Len(s) \in Nat /\ DOMAIN s = 1..Len(s) /\ DOMAIN r = 1..(Len(s) + 1)
  BY <1>2, ConcatProperties, LenProperties
<1>4. none => Len(s) # 0
  BY EmptySeq
<1> HIDE DEF r
<1>5. r # <<>>
  BY <1>3, EmptySeq
<1>6. \A i \in DOMAIN r : (r[i] = Connect) <=> (i = 1 /\ none)
  BY <1>1, <1>3, <1>4
<1> QED BY <1>5, <1>6 DEF r

\* Of the frames behind the first none is a CONNECT.
LEMMA TailHasNoConnect ==
  ASSUME NEW s \in Seq(Frame), s # <<>>, NEW none,
         \A i \in DOMAIN s : (s[i] = Connect) <=> (i = 1 /\ none)
  PROVE  \A i \in DOMAIN Tail(s) : Tail(s)[i] # Connect
<1>1. /\ Tail(s) \in Seq(Frame) /\ Len(Tail(s)) = Len(s) - 1
      /\ \A i \in 1..Len(Tail(s)) : Tail(s)[i] = s[i + 1]
      /\ Len(s) \in Nat /\ DOMAIN s = 1..Len(s) /\ DOMAIN Tail(s) = 1..Len(Tail(s))
  BY HeadTailProperties, LenProperties
<1> QED BY <1>1

LEMMA ConnectionKept ==
  ASSUME TypeOK, Buried, Connection, [Next]_vars
  PROVE  Connection'
<1>1. /\ toBroker \in Seq(Frame) /\ toClient \in Seq(Commands) /\ broker \in Records
      /\ broker.session \in {"none", "open"}
  BY DEF TypeOK, Records
<1>2. CASE UNCHANGED <<msock, path, toBroker, toClient, broker.session>>
  BY <1>2 DEF Connection, Idle, Greeted, ConnectFirst
<1>3. ASSUME NEW f \in Sendings, Sends(f), msock = "connected" \/ UNCHANGED toClient
      PROVE  Connection'
  <2>1. CASE msock = "connected"
    <3>1. toBroker' = toBroker \o <<f>> /\ UNCHANGED <<msock, path, broker>>
      BY <1>3, <2>1 DEF Sends
    <3>2. CASE path = "up"
      <4>1. (broker.session = "none") => toBroker # <<>>
        BY <2>1, <3>2 DEF Connection, Greeted
      <4>2. \A i \in DOMAIN toBroker :
              (toBroker[i] = Connect) <=> (i = 1 /\ broker.session = "none")
        BY <3>2 DEF Connection, ConnectFirst
      <4> DEFINE none == broker.session = "none"
      <4>3. none \in BOOLEAN
        OBVIOUS
      <4>4. /\ toBroker' # <<>>
            /\ \A i \in DOMAIN toBroker' : (toBroker'[i] = Connect) <=> (i = 1 /\ none)
        BY <1>1, <3>1, <4>1, <4>2, <4>3, JoinKeepsFirst, ZenonT(60)
      <4> QED BY <2>1, <3>1, <4>4 DEF Connection, Idle, Greeted, ConnectFirst
    <3>3. CASE path # "up"
      BY <2>1, <3>1, <3>3 DEF Connection, Idle, Greeted, ConnectFirst
    <3> QED BY <3>2, <3>3
  <2>2. CASE msock # "connected"
    BY <1>3, <2>2 DEF Sends, Connection, Idle, Greeted, ConnectFirst
  <2> QED BY <2>1, <2>2
<1>4. CASE OnMqttMessageReceived
  <2>1. PICK c \in Commands : Received(c)
    BY <1>4 DEF OnMqttMessageReceived
  <2>2. Puback(c) \in Sendings
    BY DEF Sendings
  <2>3. Sends(Puback(c)) /\ msock = "connected"
    BY <2>1, <2>2, Zenon DEF Received, SendFrames, Sends
  <2> QED BY <1>3, <2>2, <2>3
<1>5. CASE OnMqttConnect
  <2>1. /\ toBroker' = <<Connect>> \o <<Subscribe>>
        /\ msock = "connecting" /\ msock' = "connected" /\ broker' = broker
    BY <1>5 DEF OnMqttConnect, SockConnected, Greeting
  <2>2. /\ <<Connect>> \in Seq(Frame) /\ Subscribe \in Sendings /\ <<Connect>> # <<>>
        /\ \A i \in DOMAIN <<Connect>> : (<<Connect>>[i] = Connect) <=> (i = 1 /\ TRUE)
    BY SendingsAreFrames DEF Sendings
  <2>3. /\ toBroker' # <<>>
        /\ \A i \in DOMAIN toBroker' : (toBroker'[i] = Connect) <=> (i = 1 /\ TRUE)
    BY <2>1, <2>2, JoinKeepsFirst, ZenonT(60)
  <2>4. broker'.session = "none"
    BY <2>1 DEF Connection, Idle
  <2> QED BY <2>1, <2>3, <2>4 DEF Connection, Idle, Greeted, ConnectFirst
<1>6. CASE MqttRefused \/ ReconnectTimerTimeout
  <2>1. UNCHANGED <<path, toBroker, toClient, broker>>
    BY <1>6, Zenon DEF MqttRefused, SockRefused, ReconnectTimerTimeout, ConnectTo
  <2>2. msock' = msock \/ (msock # "connected" /\ msock' # "connected")
    BY <1>6 DEF MqttRefused, SockRefused, ReconnectTimerTimeout, ConnectTo
  <2> QED BY <2>1, <2>2 DEF Connection, Idle, Greeted, ConnectFirst
<1>7. CASE OnMqttDisconnected \/ Restart
  <2>1. /\ msock' # "connected" /\ path' = "up" /\ toBroker' = <<>> /\ toClient' = <<>>
        /\ broker' = Orphaned(broker)
    BY <1>7 DEF OnMqttDisconnected, SockDisconnected, Restart, Restarted
  <2>2. broker'.session = "none"
    BY <1>1, <2>1, OrphanedType
  <2> QED BY <2>1, <2>2 DEF Connection, Idle, Greeted, ConnectFirst
<1>8. CASE PathBreaks
  BY <1>8 DEF PathBreaks, Break, Connection, Idle, Greeted, ConnectFirst
<1>9. CASE BrokerReads
  <2>1. toBroker # <<>> /\ toBroker' = Tail(toBroker) /\ msock' = msock /\ path = "up"
    BY <1>9, Zenon DEF BrokerReads, BrokerAccepts, BrokerDigests, BrokerRejects, Arrives
  <2>2. msock' = "connected"
    BY <2>1 DEF Connection, Idle
  <2>3. CASE BrokerRejects
    <3>1. path' = "closed"
      BY <2>3 DEF BrokerRejects
    <3> QED BY <2>2, <3>1 DEF Connection, Idle, Greeted, ConnectFirst
  <2>4. CASE BrokerAccepts \/ BrokerDigests
    <3>1. broker'.session = "open" /\ path' = path
      <4>1. CASE BrokerAccepts
        BY <4>1, NothingRedelivered
      <4>2. CASE BrokerDigests
        BY <1>1, <4>2, DigestType DEF BrokerDigests
      <4> QED BY <2>4, <4>1, <4>2
    <3>2. \A i \in DOMAIN toBroker' : toBroker'[i] # Connect
      <4> DEFINE none == broker.session = "none"
      <4>1. \A i \in DOMAIN toBroker : (toBroker[i] = Connect) <=> (i = 1 /\ none)
        BY <2>1 DEF Connection, ConnectFirst
      <4> QED BY <1>1, <2>1, <4>1, TailHasNoConnect
    <3> QED BY <2>2, <3>1, <3>2 DEF Connection, Idle, Greeted, ConnectFirst
  <2> QED BY <1>9, <2>3, <2>4 DEF BrokerReads
<1>10. CASE DeadFound
  <2>1. UNCHANGED <<msock, path, toBroker, toClient>>
    BY <1>10 DEF DeadFound, BrokerGivesUp
  <2>2. broker'.session = broker.session \/ (broker'.session = "none" /\ path # "up")
    <3> DEFINE b == Bereaved(broker)
    <3>1. \/ broker' = [b EXCEPT !.stale = FALSE]
          \/ broker' = [b EXCEPT !.session = "none"] /\ path # "up"
      BY <1>10 DEF DeadFound, BrokerGivesUp
    <3>2. b \in Records /\ b.session = broker.session
      BY <1>1, BereavedType
    <3> HIDE DEF b
    <3> QED BY <3>1, <3>2 DEF Records
  <2> QED BY <2>1, <2>2 DEF Connection, Idle, Greeted, ConnectFirst
<1>11. CASE \E c \in Commands : Publish(c)
  <2> PICK c \in Commands : Publish(c)
    BY <1>11
  <2>1. UNCHANGED <<msock, path, toBroker>>
    BY Zenon DEF Publish, Delivered, sessionVars
  <2>2. broker'.session = broker.session
    <3>1. broker' = broker \/ broker' = [broker EXCEPT !.unacked = @ \cup {c}]
      BY Zenon DEF Publish, Delivered, sessionVars
    <3> QED BY <1>1, <3>1 DEF Records
  <2>3. toClient' = toClient \/ broker.session = "open"
    BY DEF Publish, Delivered, sessionVars
  <2> QED BY <2>1, <2>2, <2>3 DEF Connection, Idle, Greeted, ConnectFirst
<1>12. CASE UNCHANGED toClient /\ \E f \in Sendings : Sends(f)
  BY <1>3, <1>12
<1> QED BY <1>2, <1>4, <1>5, <1>6, <1>7, <1>8, <1>9, <1>10, <1>11, <1>12,
           ConnectionSteps, Zenon

LEMMA ConnectionHolds == Spec => []Connection
<1>1. Init => Connection
  BY DEF Init, SessionInit, NoBroker, Connection, Idle, Greeted, ConnectFirst
<1>2. TypeOK /\ Buried /\ Connection /\ [Next]_vars => Connection'
  BY ConnectionKept
<1> QED BY <1>1, <1>2, TypesHold, PTL DEF Spec

\* Whatever signals of the panel fall into the making of a connection, the
\* first frame on it is its CONNECT, and no other follows.
THEOREM GreetingIsFirst == Spec => []ConnectFirst
<1>1. Connection => ConnectFirst
  BY DEF Connection
<1> QED BY <1>1, ConnectionHolds, PTL
---------------------------------------------------------------------------
(* Readiness.                                                              *)

LEMMA NoticeKept ==
  ASSUME TypeOK, Noticed, ReadyWhenBothUp, [Next]_vars
  PROVE  Noticed' /\ ReadyWhenBothUp'
<1> USE DEF Noticed, ReadyWhenBothUp
<1>1. CASE OnMqttConnect
  <2>1. mqttStatus' = "ok" /\ good' = good /\ status' = status
        /\ ready' = (ready \/ (status = "ok" /\ mqttStatus' = "ok"))
    BY <1>1, Zenon DEF OnMqttConnect, Noted, UpdateServiceStatus, linkVars
  <2> QED BY <2>1
<1>2. CASE OnMqttDisconnected \/ Restart
  <2>1. msock' # "connected"
    BY <1>2 DEF OnMqttDisconnected, SockDisconnected, Restart, Restarted
  <2>2. good' => status' = "ok"
    BY <1>2 DEF OnMqttDisconnected, Restart, linkVars
  <2> QED BY <2>1, <2>2
<1>3. CASE OnIt100CommunicationsBegin
  <2>1. /\ msock' = msock /\ mqttStatus' = mqttStatus /\ status' = "ok"
        /\ ready' = (ready \/ (status' = "ok" /\ mqttStatus = "ok"))
    BY <1>3, Zenon DEF OnIt100CommunicationsBegin, SendOnly, LinkBegin, UpdateServiceStatus
  <2> QED BY <2>1
<1>4. CASE OnIt100CommunicationsTimeout
  <2>1. ~good' /\ msock' = msock /\ mqttStatus' = mqttStatus
    BY <1>4 DEF OnIt100CommunicationsTimeout, SendOnly, LinkTimeout
  <2> QED BY <2>1
<1>5. CASE OnIt100Disconnected
  <2>1. ~good' /\ msock' = msock /\ mqttStatus' = mqttStatus
    BY <1>5 DEF OnIt100Disconnected, sessionVars, bridgeVars, LinkDisconnect
  <2> QED BY <2>1
<1>6. CASE OnIt100Connected
  <2>1. UNCHANGED <<msock, mqttStatus, good, status, ready>>
    BY <1>6 DEF OnIt100Connected, SendOnly, bridgeVars, LinkConnect
  <2> QED BY <2>1
<1>7. CASE MqttRefused \/ ReconnectTimerTimeout
  <2>1. /\ UNCHANGED <<mqttStatus, good, status, ready>>
        /\ msock' = msock \/ msock' # "connected"
    BY <1>7 DEF MqttRefused, SockRefused, ReconnectTimerTimeout, ConnectTo, bridgeVars, linkVars
  <2> QED BY <2>1
<1>8. CASE KeepaliveTimeout \/ OnMqttMessageReceived \/ PathBreaks \/ BrokerReads
           \/ DeadFound \/ (\E c \in Commands : Publish(c)) \/ UNCHANGED vars
  <2>1. UNCHANGED msock
    BY <1>8, Zenon DEF KeepaliveTimeout, Ping, SendOnly, OnMqttMessageReceived, Received,
       PathBreaks, Break, BrokerReads, BrokerAccepts, BrokerDigests, BrokerRejects, Arrives,
       DeadFound, BrokerGivesUp, Publish, Delivered, vars, sessionVars
  <2>2. UNCHANGED <<linkVars, bridgeVars>>
    BY <1>8, Zenon DEF KeepaliveTimeout, OnMqttMessageReceived, PathBreaks, BrokerReads,
       DeadFound, Publish, vars
  <2>3. UNCHANGED <<mqttStatus, good, status, ready>>
    BY <2>2 DEF linkVars, bridgeVars
  <2> QED BY <2>1, <2>3
<1> QED BY <1>1, <1>2, <1>3, <1>4, <1>5, <1>6, <1>7, <1>8 DEF Next

LEMMA NoticeHolds == Spec => [](Noticed /\ ReadyWhenBothUp)
<1>1. Init => Noticed /\ ReadyWhenBothUp
  BY DEF Init, LinkInit, SessionInit, Noticed, ReadyWhenBothUp
<1>2. TypeOK /\ (Noticed /\ ReadyWhenBothUp) /\ [Next]_vars => (Noticed /\ ReadyWhenBothUp)'
  BY NoticeKept
<1> QED BY <1>1, <1>2, TypeCorrect, PTL DEF Spec

\* Whichever of the two sides comes up last, the service manager is told.
THEOREM ReadyIsTold == Spec => []ReadyWhenBothUp
BY NoticeHolds, PTL

---------------------------------------------------------------------------
(* Availability.                                                           *)

\* What each step may do to the link's status and to what is said of it.
LEMMA WordSteps ==
  ASSUME TypeOK, [Next]_vars
  PROVE  \/ UNCHANGED <<msock, path, toBroker, status, Availability, broker.session>>
         \/ status' = status /\ \E f \in Sendings \ {Online} : Sends(f)
         \/ status' = "ok"
         \/ Sends(Offline)
         \/ msock' # "connected" \/ path' # "up"
         \/ /\ status' = status
            /\ OnMqttConnect \/ BrokerAccepts \/ BrokerDigests \/ BrokerGivesUp
<1> USE DEF linkVars
<1>1. CASE OnMqttConnect
  BY <1>1 DEF OnMqttConnect, SockConnected
<1>2. CASE MqttRefused \/ OnMqttDisconnected \/ Restart \/ PathBreaks
  <2>1. msock' # "connected" \/ path' # "up"
    BY <1>2 DEF MqttRefused, SockRefused, OnMqttDisconnected, SockDisconnected, Restart,
                Restarted, PathBreaks, Break
  <2> QED BY <2>1
<1>3. CASE ReconnectTimerTimeout
  <2>1. /\ UNCHANGED <<path, toBroker, status, broker>>
        /\ msock' = msock \/ msock' # "connected"
    BY <1>3 DEF ReconnectTimerTimeout, ConnectTo
  <2> QED BY <2>1 DEF Availability
<1>4. ASSUME NEW f \in Sendings, SendOnly(<<f>>)
      PROVE  Sends(f)
  BY <1>4, Zenon DEF SendOnly, SendFrames, Sends
<1>5. CASE KeepaliveTimeout \/ OnIt100Connected
  <2>1. /\ status' = status
        /\ \E f \in {Pingreq, Retain("client", "connected")} : SendOnly(<<f>>)
    BY <1>5, Zenon DEF KeepaliveTimeout, Ping, OnIt100Connected, LinkConnect
  <2>2. {Pingreq, Retain("client", "connected")} \subseteq Sendings \ {Online}
    BY SendingsDiffer, Zenon DEF Sendings
  <2> QED BY <1>4, <2>1, <2>2, Zenon
<1>6. CASE OnMqttMessageReceived
  <2>1. PICK c \in Commands : Received(c) /\ status' = status
    BY <1>6, Zenon DEF OnMqttMessageReceived
  <2>2. Puback(c) \in Sendings \ {Online}
    BY SendingsDiffer, Zenon DEF Sendings
  <2>3. Sends(Puback(c))
    BY <2>1, <2>2, Zenon DEF Received, SendFrames, Sends
  <2> QED BY <2>1, <2>2, <2>3
<1>7. CASE OnIt100CommunicationsBegin
  BY <1>7 DEF OnIt100CommunicationsBegin, LinkBegin
<1>8. CASE OnIt100CommunicationsTimeout
  <2>1. Offline \in Sendings
    BY DEF Sendings
  <2> QED BY <1>4, <1>8, <2>1, Zenon DEF OnIt100CommunicationsTimeout, TimeoutFrames, Offline
<1>9. CASE OnIt100Disconnected \/ UNCHANGED vars
  <2>1. UNCHANGED <<msock, path, toBroker, status, broker>>
    BY <1>9 DEF OnIt100Disconnected, LinkDisconnect, vars, sessionVars
  <2> QED BY <2>1 DEF Availability
<1>10. CASE BrokerReads \/ DeadFound
  <2>1. status' = status
    BY <1>10 DEF BrokerReads, DeadFound
  <2>2. CASE BrokerRejects
    <3>1. path' # "up"
      BY <2>2 DEF BrokerRejects
    <3> QED BY <3>1
  <2> QED BY <1>10, <2>1, <2>2 DEF BrokerReads, DeadFound
<1>11. CASE \E c \in Commands : Publish(c)
  <2> PICK c \in Commands : Publish(c)
    BY <1>11
  <2>1. UNCHANGED <<msock, path, toBroker, status>>
    BY Zenon DEF Publish, Delivered, sessionVars
  <2>2. broker' = broker \/ broker' = [broker EXCEPT !.unacked = @ \cup {c}]
    BY Zenon DEF Publish, Delivered, sessionVars
  <2>3. broker'.session = broker.session /\ broker'.retained = broker.retained
    BY <2>2 DEF TypeOK
  <2> QED BY <2>1, <2>3 DEF Availability
<1> QED BY <1>1, <1>2, <1>3, <1>5, <1>6, <1>7, <1>8, <1>9, <1>10, <1>11 DEF Next
\* A frame that joins the others takes nothing from what they say in the end,
\* unless it is "online"; "offline" settles it.
LEMMA JoinedWords ==
  ASSUME NEW s \in Seq(Frame), NEW f \in Sendings
  PROVE  /\ f # Online /\ Retracts(s) => Retracts(s \o <<f>>)
         /\ SaysOffline(s) => SaysOffline(s \o <<f>>)
         /\ f = Offline => Retracts(s \o <<f>>) /\ SaysOffline(s \o <<f>>)
<1> DEFINE r == s \o <<f>>
<1>1. <<f>> \in Seq(Frame) /\ Len(<<f>>) = 1 /\ <<f>>[1] = f
  BY SendingsAreFrames
<1>2. /\ \A i \in 1..Len(s) : r[i] = s[i]
      /\ r[Len(s) + 1] = f
      /\ Len(s) \in Nat /\ DOMAIN s = 1..Len(s) /\ DOMAIN r = 1..(Len(s) + 1)
  BY <1>1, ConcatProperties, LenProperties
<1> HIDE DEF r
<1>3. ASSUME f # Online, Retracts(s) PROVE Retracts(r)
  BY <1>2, <1>3 DEF Retracts
<1>4. ASSUME SaysOffline(s) PROVE SaysOffline(r)
  BY <1>2, <1>4 DEF SaysOffline
<1>5. ASSUME f = Offline PROVE Retracts(r) /\ SaysOffline(r)
  <2>1. r[Len(s) + 1] # Online
    BY <1>2, <1>5, SendingsDiffer
  <2> QED BY <1>2, <1>5, <2>1 DEF Retracts, SaysOffline
<1> QED BY <1>3, <1>4, <1>5 DEF r

\* When the first frame is read, what the others say still holds: if it was
\* "online", there is an "offline" among them.
LEMMA ReadWords ==
  ASSUME NEW s \in Seq(Frame), s # <<>>, Retracts(s)
  PROVE  /\ Retracts(Tail(s))
         /\ Head(s) = Online => SaysOffline(Tail(s))
         /\ Head(s) # Offline /\ SaysOffline(s) => SaysOffline(Tail(s))
<1> DEFINE r == Tail(s)
<1>1. /\ \A i \in 1..Len(r) : r[i] = s[i + 1]
      /\ Len(r) = Len(s) - 1 /\ Len(s) \in Nat \ {0}
      /\ DOMAIN s = 1..Len(s) /\ DOMAIN r = 1..Len(r)
      /\ Head(s) = s[1]
  BY HeadTailProperties, LenProperties, EmptySeq
<1> HIDE DEF r
<1>2. \A j \in DOMAIN s : j > 1 => j - 1 \in DOMAIN r /\ r[j - 1] = s[j]
  BY <1>1
<1>3. Retracts(r)
  <2> SUFFICES ASSUME NEW i \in DOMAIN r, r[i] = Online
               PROVE  \E j \in DOMAIN r : j > i /\ r[j] = Offline
    BY DEF Retracts
  <2>1. i + 1 \in DOMAIN s /\ s[i + 1] = Online
    BY <1>1
  <2>2. PICK j \in DOMAIN s : j > i + 1 /\ s[j] = Offline
    BY <2>1 DEF Retracts
  <2>3. j - 1 \in DOMAIN r /\ r[j - 1] = Offline /\ j - 1 > i
    BY <1>1, <1>2, <2>2
  <2> QED BY <2>3
<1>4. ASSUME Head(s) = Online PROVE SaysOffline(r)
  <2>1. PICK j \in DOMAIN s : j > 1 /\ s[j] = Offline
    BY <1>1, <1>4 DEF Retracts
  <2> QED BY <1>2, <2>1 DEF SaysOffline
<1>5. ASSUME Head(s) # Offline, SaysOffline(s) PROVE SaysOffline(r)
  <2>1. PICK j \in DOMAIN s : s[j] = Offline
    BY <1>5 DEF SaysOffline
  <2>2. j > 1
    BY <1>1, <1>5, <2>1
  <2> QED BY <1>2, <2>1, <2>2 DEF SaysOffline
<1> QED BY <1>3, <1>4, <1>5 DEF r

\* A publication about availability is "online", "offline", or neither.
LEMMA AvailabilityFrames ==
  ASSUME NEW f \in Frame, f.type = "PUBLISH", f.topic = "availability"
  PROVE  /\ f.payload = "online" => f = Online
         /\ f = Offline => f.payload = "offline"
<1>1. f = [type |-> "PUBLISH", topic |-> "availability", payload |-> f.payload]
  BY DEF Frame
<1>2. Offline.payload = "offline"
  BY DEF Offline, Retain
<1> QED BY <1>1, <1>2 DEF Online, Retain

LEMMA TakenBackKept ==
  ASSUME TypeOK, Buried, Connection, TakenBack, [Next]_vars
  PROVE  TakenBack'
<1> SUFFICES ASSUME msock' = "connected", path' = "up", status' # "ok"
             PROVE  /\ Retracts(toBroker')
                    /\ broker'.session = "open" /\ Availability' = "online" =>
                         SaysOffline(toBroker')
  BY DEF TakenBack
<1>1. toBroker \in Seq(Frame) /\ broker \in Records
  BY Zenon DEF TypeOK, Records
<1>2. CASE UNCHANGED <<msock, path, toBroker, status, Availability, broker.session>>
  BY <1>2 DEF TakenBack
<1>3. CASE status' = status /\ \E f \in Sendings \ {Online} : Sends(f)
  <2> PICK f \in Sendings \ {Online} : Sends(f)
    BY <1>3
  <2>1. /\ toBroker' = toBroker \o <<f>>
        /\ UNCHANGED <<msock, path, broker>>
    BY DEF Sends
  <2>2. /\ Retracts(toBroker)
        /\ broker.session = "open" /\ Availability = "online" => SaysOffline(toBroker)
    BY <1>3, <2>1 DEF TakenBack
  <2>3. /\ Retracts(toBroker')
        /\ SaysOffline(toBroker) => SaysOffline(toBroker')
    BY <1>1, <2>1, <2>2, JoinedWords
  <2>4. Availability' = Availability
    BY <2>1 DEF Availability
  <2> QED BY <2>1, <2>2, <2>3, <2>4
<1>4. CASE Sends(Offline)
  <2>1. toBroker' = toBroker \o <<Offline>> /\ Offline \in Sendings
    BY <1>4 DEF Sends
  <2> QED BY <1>1, <2>1, JoinedWords
<1>5. CASE OnMqttConnect
  <2>1. toBroker' = <<Connect>> \o <<Subscribe>> /\ msock # "connected" /\ broker' = broker
    BY <1>5 DEF OnMqttConnect, SockConnected, Greeting
  <2>2. broker'.session = "none"
    BY <2>1 DEF Connection, Idle
  <2>3. Connect # Online /\ Subscribe # Online /\ Subscribe \in Sendings
    <3>1. Subscribe \in Sendings /\ Online \in Sendings
      BY DEF Sendings
    <3>2. Subscribe # Online
      BY SendingsDiffer, Zenon
    <3> QED BY <3>1, <3>2, SendingsDiffer, Zenon
  <2>4. <<Connect>> \in Seq(Frame) /\ Retracts(<<Connect>>)
    BY <2>3, SendingsAreFrames DEF Retracts
  <2>5. Retracts(toBroker')
    BY <2>1, <2>3, <2>4, JoinedWords
  <2> QED BY <2>2, <2>5
<1>6. CASE status' = status /\ BrokerAccepts
  <2>1. /\ toBroker # <<>> /\ toBroker' = Tail(toBroker) /\ UNCHANGED <<msock, path>>
        /\ broker'.retained["availability"] # "online"
    BY <1>6, NothingRedelivered
  <2>2. Retracts(toBroker)
    BY <1>6, <2>1 DEF TakenBack
  <2>3. Retracts(toBroker')
    BY <1>1, <2>1, <2>2, ReadWords
  <2> QED BY <2>1, <2>3 DEF Availability
<1>7. CASE status' = status /\ BrokerDigests
  <2>1. PICK f \in Frame : Arrives(f) /\ f # Connect /\ broker' = Digest(broker, f)
    BY <1>7 DEF BrokerDigests
  <2>2. /\ toBroker # <<>> /\ f = Head(toBroker) /\ toBroker' = Tail(toBroker)
        /\ UNCHANGED <<msock, path>> /\ broker.session = "open"
    BY <1>7, <2>1 DEF Arrives, BrokerDigests
  <2>3. /\ Retracts(toBroker)
        /\ Availability = "online" => SaysOffline(toBroker)
    BY <1>7, <2>2 DEF TakenBack
  <2>4. Retracts(toBroker')
    BY <1>1, <2>2, <2>3, ReadWords
  <2>5. ASSUME Availability' = "online" PROVE SaysOffline(toBroker')
    <3>1. Availability' = IF f.type = "PUBLISH" /\ f.topic = "availability" THEN f.payload
                          ELSE Availability
      BY <1>1, <2>1, DigestType DEF Availability
    <3>2. CASE f.type = "PUBLISH" /\ f.topic = "availability"
      <4>1. f = Online
        BY <2>5, <3>1, <3>2, AvailabilityFrames
      <4> QED BY <1>1, <2>2, <2>3, <4>1, ReadWords
    <3>3. CASE ~(f.type = "PUBLISH" /\ f.topic = "availability")
      <4>1. Offline.type = "PUBLISH" /\ Offline.topic = "availability"
        BY DEF Offline, Retain
      <4>2. f # Offline
        BY <3>3, <4>1
      <4>3. SaysOffline(toBroker)
        BY <2>3, <2>5, <3>1, <3>3
      <4> QED BY <1>1, <2>2, <2>3, <4>2, <4>3, ReadWords
    <3> QED BY <3>2, <3>3
  <2> QED BY <2>4, <2>5
<1>8. CASE status' = status /\ BrokerGivesUp
  <2>1. UNCHANGED <<msock, path, toBroker>>
    BY <1>8 DEF BrokerGivesUp
  <2>2. Retracts(toBroker)
    BY <1>8, <2>1 DEF TakenBack
  <2>3. broker.stale /\ broker' = [Bereaved(broker) EXCEPT !.stale = FALSE]
    BY <1>8, <2>1 DEF BrokerGivesUp
  <2> DEFINE b == Bereaved(broker)
  <2>4. b \in Records /\ b.retained["availability"] = "offline"
    BY <1>1, BereavedType
  <2>5. broker' = [b EXCEPT !.stale = FALSE]
    BY <2>3
  <2> HIDE DEF b
  <2>6. broker'.retained["availability"] = "offline"
    BY <2>4, <2>5 DEF Records
  <2> QED BY <2>1, <2>2, <2>6 DEF Availability
<1> QED BY <1>2, <1>3, <1>4, <1>5, <1>6, <1>7, <1>8, WordSteps, Zenon

LEMMA TakenBackHolds == Spec => []TakenBack
<1>1. Init => TakenBack
  BY DEF Init, SessionInit, TakenBack
<1>2. TypeOK /\ Buried /\ Connection /\ TakenBack /\ [Next]_vars => TakenBack'
  BY TakenBackKept
<1> QED BY <1>1, <1>2, TypesHold, ConnectionHolds, PTL DEF Spec

\* When all that was written has been read, "online" is retained only while the
\* link's status is ok, whatever was lost on the way and whoever's session it
\* was written in.
THEOREM OnlineIsMeant == Spec => []OnlineIsFounded
<1>1. TakenBack => OnlineIsFounded
  BY DEF TakenBack, SaysOffline, OnlineIsFounded, Settled
<1> QED BY <1>1, TakenBackHolds, PTL
---------------------------------------------------------------------------
(* Commands.                                                               *)

\* What each step may do to the commands.
LEMMA CommandSteps ==
  ASSUME TypeOK, Buried, [Next]_vars
  PROVE  \/ UNCHANGED <<toClient, sent, given>>
         \/ toClient' = <<>> /\ UNCHANGED <<sent, given>>
         \/ \E c \in Commands :
              /\ toClient # <<>> /\ c = Head(toClient) /\ toClient' = Tail(toClient)
              /\ sent' = sent
              /\ given' = given \/ given' = [given EXCEPT ![c] = given[c] + 1]
         \/ \E c \in Commands \ sent :
              /\ sent' = sent \cup {c} /\ given' = given
              /\ toClient' = toClient \/ toClient' = Append(toClient, c)
<1>1. CASE OnMqttConnect \/ MqttRefused \/ ReconnectTimerTimeout \/ PathBreaks \/ DeadFound
  BY <1>1, Zenon DEF OnMqttConnect, SockConnected, MqttRefused, SockRefused,
     ReconnectTimerTimeout, ConnectTo, PathBreaks, Break, DeadFound, BrokerGivesUp
<1>2. CASE KeepaliveTimeout \/ OnIt100Connected \/ OnIt100CommunicationsBegin
           \/ OnIt100CommunicationsTimeout \/ OnIt100Disconnected \/ UNCHANGED vars
  BY <1>2, Zenon DEF KeepaliveTimeout, Ping, OnIt100Connected, OnIt100CommunicationsBegin,
     OnIt100CommunicationsTimeout, OnIt100Disconnected, SendOnly, sessionVars, vars
<1>3. CASE OnMqttDisconnected \/ Restart
  BY <1>3, Zenon DEF OnMqttDisconnected, SockDisconnected, Restart, Restarted
<1>4. CASE BrokerReads
  <2>1. toClient' = toClient
    BY <1>4, NothingRedelivered, Zenon DEF BrokerReads, BrokerDigests, BrokerRejects
  <2> QED BY <1>4, <2>1 DEF BrokerReads
<1>5. CASE OnMqttMessageReceived
  <2> PICK c \in Commands :
        /\ Received(c)
        /\ given' = [given EXCEPT ![c] = IF CommandOf(c) = <<>> THEN @ ELSE @ + 1]
        /\ sent' = sent
    BY <1>5 DEF OnMqttMessageReceived
  <2>1. toClient # <<>> /\ c = Head(toClient) /\ toClient' = Tail(toClient)
    BY Zenon DEF Received
  <2>2. given' = given \/ given' = [given EXCEPT ![c] = given[c] + 1]
    BY DEF TypeOK
  <2> QED BY <2>1, <2>2
<1>6. CASE \E c \in Commands : Publish(c)
  <2> PICK c \in Commands : Publish(c)
    BY <1>6
  <2>1. toClient' = toClient \/ toClient' = Append(toClient, c)
    BY Zenon DEF Publish, Delivered, sessionVars
  <2>2. c \in Commands \ sent /\ sent' = sent \cup {c} /\ given' = given
    BY DEF Publish
  <2> QED BY <2>1, <2>2
<1> QED BY <1>1, <1>2, <1>3, <1>4, <1>5, <1>6, Zenon DEF Next

LEMMA CommandsKept ==
  ASSUME TypeOK, Buried, Undelivered, CommandAtMostOnce, [Next]_vars
  PROVE  Undelivered' /\ CommandAtMostOnce'
<1>1. /\ toClient \in Seq(Commands) /\ given \in [Commands -> Nat]
      /\ Len(toClient) \in Nat /\ DOMAIN toClient = 1..Len(toClient)
  BY DEF TypeOK
<1>2. CASE UNCHANGED <<toClient, sent, given>>
  BY <1>2 DEF Undelivered, CommandAtMostOnce
<1>3. CASE toClient' = <<>> /\ UNCHANGED <<sent, given>>
  BY <1>3 DEF Undelivered, CommandAtMostOnce
<1>4. ASSUME NEW c \in Commands,
             toClient # <<>>, c = Head(toClient), toClient' = Tail(toClient),
             sent' = sent, given' = given \/ given' = [given EXCEPT ![c] = given[c] + 1]
      PROVE  Undelivered' /\ CommandAtMostOnce'
  <2>1. /\ toClient' \in Seq(Commands) /\ Len(toClient') = Len(toClient) - 1
        /\ \A i \in 1..Len(toClient') : toClient'[i] = toClient[i + 1]
        /\ DOMAIN toClient' = 1..Len(toClient')
        /\ c = toClient[1] /\ Len(toClient) # 0
    BY <1>1, <1>4, HeadTailProperties, LenProperties, EmptySeq
  <2>2. 1 \in DOMAIN toClient /\ c \in sent /\ given[c] = 0
    BY <1>1, <2>1, SMTT(60) DEF Undelivered
  <2>3. ASSUME NEW i \in DOMAIN toClient'
        PROVE  /\ i + 1 \in DOMAIN toClient /\ toClient'[i] = toClient[i + 1]
               /\ toClient'[i] # c /\ toClient'[i] \in Commands
    <3>1. /\ i + 1 \in DOMAIN toClient /\ i + 1 # 1 /\ toClient'[i] = toClient[i + 1]
          /\ toClient[i + 1] \in Commands
      BY <1>1, <2>1, ElementOfSeq, SMTT(60)
    <3>2. toClient[i + 1] = toClient[1] => i + 1 = 1
      BY <2>2, <3>1, Zenon DEF Undelivered
    <3> QED BY <2>1, <3>1, <3>2
  <2>4. ASSUME NEW i \in DOMAIN toClient'
        PROVE  toClient'[i] \in sent' /\ given'[toClient'[i]] = 0
    <3>1. toClient[i + 1] \in sent /\ given[toClient[i + 1]] = 0
      BY <2>3 DEF Undelivered
    <3> QED BY <1>1, <1>4, <2>3, <3>1
  <2>5. ASSUME NEW i \in DOMAIN toClient', NEW j \in DOMAIN toClient',
               toClient'[i] = toClient'[j]
        PROVE  i = j
    <3>1. i + 1 = j + 1
      BY <2>3, <2>5 DEF Undelivered
    <3> QED BY <2>1, <3>1
  <2>6. ASSUME NEW d \in Commands
        PROVE  given'[d] <= IF d \in sent' THEN 1 ELSE 0
    <3>1. CASE d = c
      BY <1>1, <1>4, <2>2, <3>1
    <3>2. CASE d # c
      <4>1. given'[d] = given[d]
        BY <1>1, <1>4, <3>2
      <4> QED BY <1>4, <4>1 DEF CommandAtMostOnce
    <3> QED BY <3>1, <3>2
  <2> QED BY <2>4, <2>5, <2>6 DEF Undelivered, CommandAtMostOnce
<1>5. ASSUME NEW c \in Commands \ sent,
             sent' = sent \cup {c}, given' = given,
             toClient' = toClient \/ toClient' = Append(toClient, c)
      PROVE  Undelivered' /\ CommandAtMostOnce'
  <2>1. given[c] = 0
    BY <1>1 DEF CommandAtMostOnce
  <2>2. CommandAtMostOnce'
    BY <1>1, <1>5, <2>1 DEF CommandAtMostOnce
  <2>3. CASE toClient' = toClient
    <3>1. \A i, j \in DOMAIN toClient' : toClient'[i] = toClient'[j] => i = j
      BY <2>3 DEF Undelivered
    <3>2. \A i \in DOMAIN toClient' : toClient'[i] \in sent' /\ given'[toClient'[i]] = 0
      BY <1>5, <2>3 DEF Undelivered
    <3> QED BY <2>2, <3>1, <3>2 DEF Undelivered
  <2>4. CASE toClient' = Append(toClient, c)
    <3>1. /\ DOMAIN toClient' = 1..(Len(toClient) + 1)
          /\ \A i \in 1..Len(toClient) : toClient'[i] = toClient[i]
          /\ toClient'[Len(toClient) + 1] = c
      BY <1>1, <2>4
    <3>2. \A i \in DOMAIN toClient : toClient[i] # c
      BY DEF Undelivered
    <3>3. ASSUME NEW i \in DOMAIN toClient'
          PROVE  toClient'[i] \in sent' /\ given'[toClient'[i]] = 0
      BY <1>1, <1>5, <2>1, <3>1 DEF Undelivered
    <3>4. ASSUME NEW i \in DOMAIN toClient', NEW j \in DOMAIN toClient',
                 toClient'[i] = toClient'[j]
          PROVE  i = j
      BY <1>1, <3>1, <3>2, <3>4 DEF Undelivered
    <3> QED BY <3>3, <3>4, <2>2 DEF Undelivered
  <2> QED BY <1>5, <2>2, <2>3, <2>4
<1> QED BY <1>2, <1>3, <1>4, <1>5, CommandSteps, Zenon

\* Neither a lost acknowledgement, nor a lost connection, nor a restart makes the
\* bridge pass a command on twice, and it passes on none that was not published.
THEOREM NoCommandTwice == Spec => []CommandAtMostOnce
<1>1. Init => Undelivered /\ CommandAtMostOnce
  BY DEF Init, SessionInit, Undelivered, CommandAtMostOnce
<1>2. TypeOK /\ Buried /\ (Undelivered /\ CommandAtMostOnce) /\ [Next]_vars
        => (Undelivered /\ CommandAtMostOnce)'
  BY CommandsKept
<1> QED BY <1>1, <1>2, TypesHold, PTL DEF Spec
===============================================================================
