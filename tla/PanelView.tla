------------------------------ MODULE PanelView ------------------------------
(***************************************************************************)
(* What others can see of the panel: the panel, the way its reports take   *)
(* to the broker's retained topics (PanelReports), and the flood of a      *)
(* status answer, in which states are published but not as events.         *)
(*                                                                         *)
(* A line is handled as soon as the panel sends it: a later time would make *)
(* no difference to the topics.  The publications of one handler reach the *)
(* broker whole, or cut short by a failing connection, or not at all: what *)
(* MqttSession does with frames comes to this.                             *)
(***************************************************************************)
EXTENDS PanelReports, FiniteSets, SequencesExt

CONSTANTS
  Zones,     \* the zones of the panel
  LastZone,  \* the one whose report is the last of a status answer: zone 64
  Statuses,  \* which of the statuses in PartitionLine the partition may have
  Others,    \* which commands the panel sends that are not of a zone's being
             \* open or restored, nor of the partition's status: among them the
             \* panic key's, whose codes are the partition's
  Faults     \* which of the misfortunes in FaultKinds may happen

FaultKinds == {"mqtt", "link", "line"}

\* The line that reports each status of the partition.
PartitionLine ==
  LET L(c, n) == [command |-> c, at |-> n] IN
  [ARMED_AWAY  |-> L("PARTITION_ARMED_DESCRIPTIVE_MODE", 0),
   ARMED_STAY  |-> L("PARTITION_ARMED_DESCRIPTIVE_MODE", 1),
   DISARMED    |-> L("PARTITION_DISARMED", 0),
   ALARM       |-> L("PARTITION_IN_ALARM", 0),
   READY       |-> L("PARTITION_READY", 0),
   NOT_READY   |-> L("PARTITION_NOT_READY", 0),
   BUSY        |-> L("PARTITION_BUSY", 0),
   READY_FORCE_ARM |-> L("PARTITION_IN_READY_TO_FORCE_ALARM", 0),
   EXIT_DELAY  |-> L("EXIT_DELAY_IN_PROGRESS", 0),
   ENTRY_DELAY |-> L("ENTRY_DELAY_IN_PROGRESS", 0)]

ZoneLine(z, s) ==
  [command |-> IF s = "OPEN" THEN "ZONE_OPEN" ELSE "ZONE_RESTORED", at |-> z]

ASSUME ViewAssumption ==
  /\ Zones \subseteq 1..99 /\ LastZone \in Zones
  /\ Statuses \subseteq DOMAIN PartitionLine /\ "DISARMED" \in Statuses
  /\ Others \cap {"ZONE_OPEN", "ZONE_RESTORED"} = {}
  /\ \A s \in DOMAIN PartitionLine : PartitionLine[s].command \notin Others
  /\ Faults \subseteq FaultKinds

VARIABLES
  panel,     \* environment: of each zone and the partition what was last true,
             \* and whether the partition is armed
  link,      \* the connection to the panel stands
  flood,     \* _waitingForStatusUpdate
  asked,     \* the status request has not been answered yet
  todo,      \* what the status answer has still to report
  mqtt,      \* what is published reaches the broker
  shown,     \* what the broker retains, of the topics whose last retained
             \* publication was not lost; the others are left with an older one
  misled,    \* history: those of them that a line of the panic key wrote last
  early,     \* history: a report of LastZone not of the answer came before
             \* the end of this connection's answer
  unheard,   \* history: a line was lost on this connection
  panicked,  \* history: a line of the panic key was heard on this connection
  leaked     \* history: a report of this connection's answer was published
             \* as an event

vars == <<panel, link, flood, asked, todo, mqtt, shown, misled, early, unheard,
          panicked, leaked>>

---------------------------------------------------------------------------
(* Publishing.                                                             *)

\* The topics that these publications leave a payload in.
Written(pubs) == {p.topic : p \in {q \in Range(pubs) : q.retain}}

\* Of the publications of one handler, which writes no topic twice, the first
\* k reach the broker.
Shown(pubs, k) ==
  LET heard == Written(SubSeq(pubs, 1, k))
      known == (DOMAIN shown \ Written(pubs)) \cup heard
  IN [t \in known |->
        IF t \in heard
        THEN (CHOOSE p \in Range(pubs) : p.retain /\ p.topic = t).payload
        ELSE shown[t]]

\* If not all of them do, the MQTT connection is gone, whether the client has
\* noticed it or not.
Publish(pubs) ==
  \E k \in 0..Len(pubs) :
    /\ ~mqtt => k = 0
    /\ mqtt /\ k < Len(pubs) => "mqtt" \in Faults
    /\ mqtt' = (mqtt /\ k = Len(pubs))
    /\ shown' = Shown(pubs, k)

\* Who wrote what is shown after a line: the panic key, or another that is
\* taken for what it is.
Traces(l) ==
  LET written == Written(Publications(l, flood)) IN
  misled' = DOMAIN shown' \cap
    (IF l.command \in PanicKey THEN misled \cup written ELSE misled \ written)

\* A line that never arrives publishes nothing.
Lost(l) ==
  /\ shown' = Shown(Publications(l, flood), 0)
  /\ Traces(l)
  /\ UNCHANGED <<mqtt, flood, panicked>>

\* Faulty: the end is looked for among the open zones only.
EndsFloodOpen(l) == l.command = "ZONE_OPEN" /\ l.at = LastZone

\* The signals are emitted before the flood is ended.
EndsFlood(l) == l.command \in {"ZONE_OPEN", "ZONE_RESTORED"} /\ l.at = LastZone

\* processReceivedLine, with the slots that its signals call.
Heard(l) ==
  /\ Publish(Publications(l, flood))
  /\ Traces(l)
  /\ flood' = (flood /\ ~EndsFlood(l))
  /\ panicked' = (panicked \/ l.command \in PanicKey)

---------------------------------------------------------------------------
Init ==
  /\ panel \in [zone : [Zones -> {"RESTORED"}], partition : {"DISARMED"}, armed : {FALSE}]
  /\ link = FALSE /\ flood = FALSE /\ asked = FALSE /\ todo = {}
  /\ mqtt = TRUE /\ shown = << >> /\ misled = {}
  /\ early = FALSE /\ unheard = FALSE /\ panicked = FALSE /\ leaked = FALSE

\* "Prepare for the flood."
PrepareForFlood == flood' = TRUE

\* processTcpSocketConnected(): asks for the status.
Connected ==
  /\ ~link
  /\ link' = TRUE /\ asked' = TRUE
  /\ PrepareForFlood
  /\ early' = FALSE /\ unheard' = FALSE /\ panicked' = FALSE /\ leaked' = FALSE
  /\ UNCHANGED <<panel, todo, mqtt, shown, misled>>

\* The flood is not ended: the next connection begins it anew.
Disconnected ==
  /\ "link" \in Faults
  /\ link
  /\ link' = FALSE /\ asked' = FALSE /\ todo' = {}
  /\ UNCHANGED <<panel, flood, mqtt, shown, misled, early, unheard, panicked, leaked>>

---------------------------------------------------------------------------
(* The panel.                                                              *)

Things == Zones \cup {0}   \* 0 is the partition

LineOf(thing) ==
  IF thing = 0 THEN PartitionLine[panel.partition] ELSE ZoneLine(thing, panel.zone[thing])

AnswerBegins ==
  /\ asked
  /\ asked' = FALSE /\ todo' = Things
  /\ UNCHANGED <<panel, link, flood, mqtt, shown, misled, early, unheard, panicked, leaked>>

\* Whether publications have an event among them.
TellsEvent(pubs) == \E p \in Range(pubs) : p.topic[3] = "event"

\* The answer reports all things in some order, LastZone last.
AnswerReports(thing) ==
  /\ thing \in todo
  /\ thing = LastZone => todo = {LastZone}
  /\ todo' = todo \ {thing}
  /\ \/ /\ Heard(LineOf(thing))
        /\ leaked' = (leaked \/ TellsEvent(Publications(LineOf(thing), flood)))
        /\ UNCHANGED unheard
     \/ /\ "line" \in Faults
        /\ Lost(LineOf(thing))
        /\ unheard' = TRUE
        /\ UNCHANGED leaked
  /\ UNCHANGED <<panel, link, asked, early>>

\* A line of the panel's own accord, lost if there is no connection.
Sends(l) ==
  /\ \/ link /\ Heard(l) /\ UNCHANGED unheard
     \/ (link => "line" \in Faults) /\ Lost(l) /\ unheard' = link
  /\ early' = (early \/ (EndsFlood(l) /\ (asked \/ todo # {})))
  /\ UNCHANGED <<link, asked, todo, leaked>>

ZoneChanges(z) ==
  \E s \in {"OPEN", "RESTORED"} \ {panel.zone[z]} :
    /\ panel' = [panel EXCEPT !.zone[z] = s]
    /\ Sends(ZoneLine(z, s))

\* The partition arms from a status in which it is not armed; delays and
\* alarms leave it as it is; an entry delay is one of an armed partition, and
\* an exit delay of one that is not.
PartitionChanges(s) ==
  /\ s # panel.partition
  /\ panel.armed => s # "EXIT_DELAY"
  /\ ~panel.armed => s # "ENTRY_DELAY"
  /\ panel' = [panel EXCEPT !.partition = s,
                 !.armed = IF s \in {"ALARM", "EXIT_DELAY", "ENTRY_DELAY"} THEN @
                           ELSE s \in {"ARMED_AWAY", "ARMED_STAY"}]
  /\ Sends(PartitionLine[s])

OtherLine(l) == Sends(l) /\ UNCHANGED panel

\* A connection to the broker is lost between two handlers; one is made.
MqttFails ==
  /\ "mqtt" \in Faults
  /\ mqtt
  /\ mqtt' = FALSE
  /\ UNCHANGED <<panel, link, flood, asked, todo, shown, misled, early, unheard,
                 panicked, leaked>>

MqttReturns ==
  /\ ~mqtt
  /\ mqtt' = TRUE
  /\ UNCHANGED <<panel, link, flood, asked, todo, shown, misled, early, unheard,
                 panicked, leaked>>

Next ==
  \/ Connected \/ Disconnected
  \/ AnswerBegins
  \/ \E thing \in Things : AnswerReports(thing)
  \/ \E z \in Zones : ZoneChanges(z)
  \/ \E s \in Statuses : PartitionChanges(s)
  \/ \E c \in Others, z \in Zones : OtherLine([command |-> c, at |-> z])
  \/ MqttFails \/ MqttReturns

Spec == Init /\ [][Next]_vars

\* A connection that is asked for is made (It100Link!Reconnects), and the
\* panel answers, and goes on with its answer.
Fairness ==
  /\ WF_vars(Connected)
  /\ WF_vars(AnswerBegins)
  /\ \A thing \in Things : WF_vars(AnswerReports(thing))

FairSpec == Spec /\ Fairness

---------------------------------------------------------------------------
(* Properties.                                                             *)

\* The retained topics, and of each the values it may have (README.md from 43
\* on, where ready_force_arm and hass_state are missing).
Topics ==
  {"zone", "partition", "zone/PREFIX"} \X (0..99)
    \X {"state", "condition", "armed", "hass_state", "event"}

Values(tree, leaf) ==
  CASE tree = "zone" /\ leaf = "state" -> {"open", "closed"}
    [] tree = "zone" /\ leaf = "condition" -> {"alarm", "violated", "secure", "tamper"}
    [] tree = "zone/PREFIX" /\ leaf \in {"event", "condition"} -> {"fault"}
    [] tree = "partition" /\ leaf = "armed" -> {"0", "1"}
    [] tree = "partition" /\ leaf = "state" ->
         {"exit_delay", "entry_delay", "armed_away", "armed_stay", "disarmed", "alarm", "busy"}
    [] tree = "partition" /\ leaf = "hass_state" ->
         {"arming", "pending", "armed_away", "armed_home", "disarmed", "triggered"}
    [] tree = "partition" /\ leaf = "condition" ->
         {"not_ready", "busy", "ready_force_arm", "exit_delay", "entry_delay", "alarm"}
    [] OTHER -> {}

TypeOK ==
  /\ panel \in [zone : [Zones -> {"OPEN", "RESTORED"}], partition : Statuses,
                armed : BOOLEAN]
  /\ todo \subseteq Things
  /\ \A t \in DOMAIN shown : t \in Topics /\ shown[t] \in Values(t[1], t[3])
  /\ misled \subseteq DOMAIN shown
  /\ \A flag \in {link, flood, asked, mqtt, early, unheard, panicked, leaked} :
       flag \in BOOLEAN

\* What the panic key wrote is not counted.
Shows(topic, payload) == topic \in DOMAIN shown \ misled => shown[topic] = payload

\* README.md:48-59 and the values the bridge has for Home Assistant.
StateOf(s) ==
  CASE s \in {"ARMED_AWAY", "ARMED_STAY", "ALARM", "BUSY", "EXIT_DELAY", "ENTRY_DELAY"} ->
         [ARMED_AWAY |-> "armed_away", ARMED_STAY |-> "armed_stay", ALARM |-> "alarm",
          BUSY |-> "busy", EXIT_DELAY |-> "exit_delay", ENTRY_DELAY |-> "entry_delay"][s]
    [] OTHER -> "disarmed"

HassOf(s) ==
  CASE s \in {"ARMED_AWAY", "ARMED_STAY", "ALARM", "EXIT_DELAY", "ENTRY_DELAY"} ->
         [ARMED_AWAY |-> "armed_away", ARMED_STAY |-> "armed_home",
          ALARM |-> "triggered", EXIT_DELAY |-> "arming", ENTRY_DELAY |-> "pending"][s]
    [] OTHER -> "disarmed"

\* The retained topics are true of the panel and agree with each other, as far
\* as they reached the broker: armed stays what it is through delays and
\* alarms, whatever was lost before (it100mqtt.cpp:399-419, 503-657).  Only a
\* line of the panic key can make them say something else of the partition,
\* until a status that writes the same topic (it100commands.h:59-64).
RetainedIsTrue ==
  /\ \A z \in Zones :
       /\ Shows(Zone(z, "state"), IF panel.zone[z] = "OPEN" THEN "open" ELSE "closed")
       /\ Zone(z, "condition") \in DOMAIN shown =>
            shown[Zone(z, "condition")] #
              IF panel.zone[z] = "OPEN" THEN "secure" ELSE "violated"
  /\ Shows(Partition("armed"), IF panel.armed THEN "1" ELSE "0")
  /\ Shows(Partition("state"), StateOf(panel.partition))
  /\ Shows(Partition("hass_state"), HassOf(panel.partition))

\* What a status answer reports is not published as if it had just happened,
\* by none of the slots, except after a report of LastZone that came before the
\* answer's own (it100.cpp:144-147, 199, 211).
AnswersAreQuiet == leaked => early

\* Events are held back no longer than the answer takes, unless a line of the
\* connection was lost: then perhaps until LastZone is next reported
\* (it100.cpp:211).
FloodEndsWithAnswer == flood /\ link => asked \/ LastZone \in todo \/ unheard

\* Of zones everything, of the partition its state.
ToRestate ==
  {Zone(z, leaf) : z \in Zones, leaf \in {"state", "condition"}}
    \cup {Partition("state"), Partition("hass_state")}

\* Whatever was lost before, and whatever the panic key wrote, the answer to the
\* request made on connecting puts it right (it100.cpp:144-147), if neither
\* connection fails meanwhile and the key is not pressed again.
StatusRestates ==
  asked ~> ToRestate \subseteq DOMAIN shown \ misled
             \/ ~mqtt \/ ~link \/ unheard \/ panicked

\* README.md:43-47: "Partition Armed", the topic armed with the payload 0 or 1.
\* No misled topic is excused here.
ArmedIsTold ==
  Partition("armed") \in DOMAIN shown =>
    shown[Partition("armed")] = IF panel.armed THEN "1" ELSE "0"
=============================================================================
