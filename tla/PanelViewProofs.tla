--------------------------- MODULE PanelViewProofs ---------------------------
(***************************************************************************)
(* Theorems about PanelView, with their proofs: first of the flood of a    *)
(* status answer, then of what the broker retains.                         *)
(***************************************************************************)
EXTENDS PanelView, SequenceTheorems, TLAPS

---------------------------------------------------------------------------
(* The flood.                                                              *)

\* An answer is asked for before it is given, and both on a connection.
Answering ==
  /\ link \in BOOLEAN /\ flood \in BOOLEAN /\ asked \in BOOLEAN
  /\ early \in BOOLEAN /\ unheard \in BOOLEAN /\ leaked \in BOOLEAN
  /\ asked => link /\ todo = {}
  /\ todo # {} => link

\* The flood lasts as long as the answer, but for an early report of LastZone.
Covered == asked \/ todo # {} => flood \/ early

FloodInv == Answering /\ Covered /\ AnswersAreQuiet /\ FloodEndsWithAnswer

\* The partition is no zone, and its reports do not end the flood; nor do those
\* of other zones than the last, whose own do.
LEMMA WhoEndsFlood ==
  ASSUME NEW thing \in Things, panel.partition \in DOMAIN PartitionLine
  PROVE  EndsFlood(LineOf(thing)) <=> thing = LastZone
<1>1. LastZone # 0 /\ LastZone \in Zones /\ (thing # 0 => thing \in Zones)
  BY ViewAssumption DEF ViewAssumption, Things
<1>2. CASE thing = 0
  <2>1. \A s \in DOMAIN PartitionLine :
          PartitionLine[s].command \notin {"ZONE_OPEN", "ZONE_RESTORED"}
    BY DEF PartitionLine
  <2> QED BY <1>1, <1>2, <2>1 DEF LineOf, EndsFlood
<1>3. CASE thing # 0
  <2>1. LineOf(thing) = ZoneLine(thing, panel.zone[thing])
    BY <1>3 DEF LineOf
  <2>2. /\ ZoneLine(thing, panel.zone[thing]).at = thing
        /\ ZoneLine(thing, panel.zone[thing]).command \in {"ZONE_OPEN", "ZONE_RESTORED"}
    BY DEF ZoneLine
  <2> QED BY <2>1, <2>2 DEF EndsFlood
<1> QED BY <1>2, <1>3

\* What the panel says of the partition is all that its status brings about.
LEMMA PublicationsOfStatus ==
  ASSUME NEW s \in DOMAIN PartitionLine, NEW f
  PROVE  /\ s \in {"ARMED_AWAY", "ARMED_STAY"} =>
              Publications(PartitionLine[s], f) = ArmedPublications(PartitionLine[s].at, f)
         /\ s \notin {"ARMED_AWAY", "ARMED_STAY"} =>
              Publications(PartitionLine[s], f) = << >> \o PartitionPublications(s, f)
<1> DEFINE c == PartitionLine[s].command
<1>1. c \notin DOMAIN Trouble /\ c \notin DOMAIN ZoneStatus /\ c \notin DOMAIN UserEvent
  BY DEF PartitionLine, Trouble, ZoneStatus, UserEvent
<1>2. Accepts(c)
  BY <1>1 DEF Accepts
<1>3. CASE s \in {"ARMED_AWAY", "ARMED_STAY"}
  <2>1. c = "PARTITION_ARMED_DESCRIPTIVE_MODE"
    BY <1>3 DEF PartitionLine
  <2> QED BY <1>1, <1>2, <1>3, <2>1 DEF Publications
<1>4. CASE s \notin {"ARMED_AWAY", "ARMED_STAY"}
  <2>1. /\ c # "PARTITION_ARMED_DESCRIPTIVE_MODE"
        /\ c \in DOMAIN PartitionStatus /\ PartitionStatus[c] = s
        /\ s \in {"ALARM", "DISARMED", "READY", "NOT_READY",
                  "BUSY", "READY_FORCE_ARM", "EXIT_DELAY", "ENTRY_DELAY"}
    BY <1>4 DEF PartitionLine, PartitionStatus
  <2> HIDE DEF c
  <2>2. Publications(PartitionLine[s], f)
          = << >> \o PartitionPublications(PartitionStatus[c], f)
    BY <1>1, <1>2, <2>1 DEF Publications, c
  <2> QED BY <1>4, <2>1, <2>2
<1> QED BY <1>3, <1>4

\* No event.
Quiet(p) == p.topic[3] # "event"

\* The slots' publications in a flood, where none of the rest is an event.
LEMMA NoneOfTwoTells ==
  ASSUME NEW a, NEW b, Quiet(a), Quiet(b), NEW f, f = TRUE, NEW e
  PROVE  ~TellsEvent(Unless(f, e) \o <<a, b>>)
<1>1. ~TellsEvent(<<a, b>>)
  BY DEF TellsEvent, Range, Quiet
<1>2. Unless(f, e) = << >> /\ << >> \o <<a, b>> = <<a, b>>
  BY DEF Unless
<1> QED BY <1>1, <1>2, Zenon

LEMMA NoneOfThreeTells ==
  ASSUME NEW a, NEW b, NEW c, Quiet(a), Quiet(b), Quiet(c), NEW f, f = TRUE, NEW e
  PROVE  /\ ~TellsEvent(Unless(f, e) \o <<a, b, c>>)
         /\ ~TellsEvent(<< >> \o (Unless(f, e) \o <<a, b, c>>))
<1>1. ~TellsEvent(<<a, b, c>>)
  BY DEF TellsEvent, Range, Quiet
<1>2. Unless(f, e) = << >> /\ << >> \o <<a, b, c>> = <<a, b, c>>
  BY DEF Unless
<1> QED BY <1>1, <1>2, Zenon

LEMMA NoneOfFourTells ==
  ASSUME NEW a, NEW b, NEW c, NEW d, Quiet(a), Quiet(b), Quiet(c), Quiet(d),
         NEW f, f = TRUE, NEW e
  PROVE  ~TellsEvent(<< >> \o (Unless(f, e) \o <<a, b, c, d>>))
<1>1. ~TellsEvent(<<a, b, c, d>>)
  BY DEF TellsEvent, Range, Quiet
<1>2. Unless(f, e) = << >> /\ << >> \o <<a, b, c, d>> = <<a, b, c, d>>
  BY DEF Unless
<1> QED BY <1>1, <1>2, Zenon

\* No slot announces as an event, in a flood, that a zone is open or restored.
LEMMA ZoneIsQuiet ==
  ASSUME NEW z, NEW s, NEW f, f = TRUE
  PROVE  ~TellsEvent(Publications(ZoneLine(z, s), f))
<1>1. \A w : /\ Quiet(Keep(Zone(z, "state"), w))
             /\ Quiet(Keep(Zone(z, "condition"), w))
  BY DEF Keep, Zone, Quiet
<1>2. Publications(ZoneLine(z, s), f)
        = ZonePublications(z, IF s = "OPEN" THEN "OPEN" ELSE "RESTORED", f)
  <2> DEFINE c == IF s = "OPEN" THEN "ZONE_OPEN" ELSE "ZONE_RESTORED"
             l == ZoneLine(z, s)
  <2>1. /\ c \in DOMAIN ZoneStatus /\ c \notin DOMAIN Trouble /\ l.command = c
        /\ c # "PARTITION_ARMED_DESCRIPTIVE_MODE"
        /\ ZoneOf(l) = z /\ ZoneStatus[c] = IF s = "OPEN" THEN "OPEN" ELSE "RESTORED"
    BY DEF ZoneStatus, Trouble, ZoneLine, ZoneOf
  <2> HIDE DEF c, l
  <2>2. Publications(l, f) = ZonePublications(ZoneOf(l), ZoneStatus[c], f)
    BY ONLY <2>1 DEF Publications, Accepts
  <2> QED BY <2>1, <2>2 DEF l
<1>3. CASE s = "OPEN"
  <2>1. Publications(ZoneLine(z, s), f)
          = Unless(f, Say(Zone(z, "event"), "violated"))
              \o <<Keep(Zone(z, "state"), "open"), Keep(Zone(z, "condition"), "violated")>>
    BY <1>2, <1>3 DEF ZonePublications
  <2> QED BY <1>1, <2>1, NoneOfTwoTells, Zenon
<1>4. CASE s # "OPEN"
  <2>1. Publications(ZoneLine(z, s), f)
          = Unless(f, Say(Zone(z, "event"), "restored"))
              \o <<Keep(Zone(z, "state"), "closed"), Keep(Zone(z, "condition"), "secure")>>
    BY <1>2, <1>4 DEF ZonePublications
  <2> QED BY <1>1, <2>1, NoneOfTwoTells, Zenon
<1> QED BY <1>3, <1>4

\* Nor a status of the partition.
LEMMA PartitionIsQuiet ==
  ASSUME NEW s \in DOMAIN PartitionLine, NEW f, f = TRUE,
         NEW pubs, pubs = Publications(PartitionLine[s], f)
  PROVE  ~TellsEvent(pubs)
<1>1. \A w : /\ Quiet(State(w)) /\ Quiet(Hass(w))
             /\ Quiet(Armed(w)) /\ Quiet(Condition(w))
             /\ Quiet(Say(Partition("condition"), w))
  BY DEF State, Hass, Armed, Condition, Keep, Say, Partition, Quiet
<1>2. CASE s \in {"ARMED_AWAY", "ARMED_STAY"}
  <2>1. pubs = ArmedPublications(PartitionLine[s].at, f)
    BY <1>2, PublicationsOfStatus
  <2>2. PICK e, v, w : pubs = Unless(f, e) \o <<Armed("1"), State(v), Hass(w)>>
    BY <2>1, Zenon DEF ArmedPublications
  <2> QED BY ONLY f = TRUE, <1>1, <2>2, NoneOfThreeTells, Zenon
<1>3. CASE s \notin {"ARMED_AWAY", "ARMED_STAY"}
  <2>1. pubs = << >> \o PartitionPublications(s, f)
    BY <1>3, PublicationsOfStatus
  <2>2. s \in {"ALARM", "DISARMED", "READY", "NOT_READY", "BUSY", "READY_FORCE_ARM",
               "EXIT_DELAY", "ENTRY_DELAY"}
    BY <1>3 DEF PartitionLine
  <2>3. CASE s = "ALARM"
    <3>1. pubs = << >> \o (Unless(f, Event("alarm"))
                   \o <<State("alarm"), Hass("triggered"), Condition("alarm")>>)
      BY <2>1, <2>3 DEF PartitionPublications
    <3> QED BY ONLY f = TRUE, <1>1, <3>1, NoneOfThreeTells, Zenon
  <2>4. CASE s = "DISARMED"
    <3>1. pubs = << >> \o (Unless(f, Event("disarmed"))
                   \o <<Hass("disarmed"), Armed("0"), State("disarmed")>>)
      BY <2>1, <2>4 DEF PartitionPublications
    <3> QED BY ONLY f = TRUE, <1>1, <3>1, NoneOfThreeTells, Zenon
  <2>5. CASE s = "READY"
    <3>1. pubs = << >> \o (Unless(f, Event("disarmed"))
                   \o <<Armed("0"), Hass("disarmed"), State("disarmed"), Say(Partition("condition"), "ready")>>)
      BY <2>1, <2>5 DEF PartitionPublications
    <3> QED BY ONLY f = TRUE, <1>1, <3>1, NoneOfFourTells, Zenon
  <2>6. CASE s = "NOT_READY"
    <3>1. pubs = << >> \o (Unless(f, Event("not_ready"))
                   \o <<Armed("0"), Hass("disarmed"), State("disarmed"), Condition("not_ready")>>)
      BY <2>1, <2>6 DEF PartitionPublications
    <3> QED BY ONLY f = TRUE, <1>1, <3>1, NoneOfFourTells, Zenon
  <2>7. CASE s = "BUSY"
    <3>1. pubs = << >> \o (Unless(f, Event("busy"))
                   \o <<Armed("0"), Hass("disarmed"), State("busy"), Condition("busy")>>)
      BY <2>1, <2>7 DEF PartitionPublications
    <3> QED BY ONLY f = TRUE, <1>1, <3>1, NoneOfFourTells, Zenon
  <2>8. CASE s = "READY_FORCE_ARM"
    <3>1. pubs = << >> \o (Unless(f, Event("ready_force_arm"))
                   \o <<Armed("0"), Hass("disarmed"), State("disarmed"), Condition("ready_force_arm")>>)
      BY <2>1, <2>8 DEF PartitionPublications
    <3> QED BY ONLY f = TRUE, <1>1, <3>1, NoneOfFourTells, Zenon
  <2>9. CASE s = "EXIT_DELAY"
    <3>1. pubs = << >> \o (Unless(f, Event("exit_delay"))
                   \o <<Hass("arming"), State("exit_delay"), Condition("exit_delay")>>)
      BY <2>1, <2>9 DEF PartitionPublications
    <3> QED BY ONLY f = TRUE, <1>1, <3>1, NoneOfThreeTells, Zenon
  <2>10. CASE s = "ENTRY_DELAY"
    <3>1. pubs = << >> \o (Unless(f, Event("entry_delay"))
                   \o <<Hass("pending"), State("entry_delay"), Condition("entry_delay")>>)
      BY <2>1, <2>10 DEF PartitionPublications
    <3> QED BY ONLY f = TRUE, <1>1, <3>1, NoneOfThreeTells, Zenon
  <2> QED BY ONLY <2>2, <2>3, <2>4, <2>5, <2>6, <2>7, <2>8, <2>9, <2>10
<1> QED BY <1>2, <1>3

\* What a line of the panel's own accord does to the flood.
LEMMA SendsFlood ==
  ASSUME FloodInv, NEW l, Sends(l)
  PROVE  FloodInv'
<1>1. UNCHANGED <<link, asked, todo, leaked>>
      /\ early' = (early \/ (EndsFlood(l) /\ (asked \/ todo # {})))
  BY DEF Sends
<1>2. \/ link /\ flood' = (flood /\ ~EndsFlood(l)) /\ unheard' = unheard
      \/ flood' = flood /\ unheard' = link
  BY Zenon DEF Sends, Heard, Lost
<1>3. early' \in BOOLEAN /\ flood' \in BOOLEAN /\ unheard' \in BOOLEAN
  BY <1>1, <1>2, Zenon DEF FloodInv, Answering
<1>4. Answering'
  BY <1>1, <1>3, Zenon DEF FloodInv, Answering
<1>5. Covered'
  BY <1>1, <1>2, Zenon DEF FloodInv, Covered
<1>6. AnswersAreQuiet'
  BY <1>1, Zenon DEF FloodInv, AnswersAreQuiet
<1>7. FloodEndsWithAnswer'
  BY <1>1, <1>2, Zenon DEF FloodInv, FloodEndsWithAnswer
<1> QED BY <1>4, <1>5, <1>6, <1>7 DEF FloodInv

LEMMA AnswerFlood ==
  ASSUME FloodInv, panel.partition \in DOMAIN PartitionLine, NEW thing \in Things,
         AnswerReports(thing)
  PROVE  FloodInv'
<1> DEFINE l == LineOf(thing)
<1>1. /\ thing \in todo /\ (thing = LastZone => todo = {LastZone})
      /\ todo' = todo \ {thing} /\ UNCHANGED <<link, asked, early>>
  BY DEF AnswerReports
<1>2. \/ /\ flood' = (flood /\ ~EndsFlood(l))
         /\ leaked' \in BOOLEAN
         /\ leaked' => leaked \/ ~flood
         /\ unheard' = unheard
      \/ flood' = flood /\ unheard' = TRUE /\ leaked' = leaked
  <2>1. \/ /\ Heard(l) /\ leaked' = (leaked \/ TellsEvent(Publications(l, flood)))
           /\ unheard' = unheard
        \/ Lost(l) /\ unheard' = TRUE /\ leaked' = leaked
    BY Zenon DEF AnswerReports
  <2>2. leaked \in BOOLEAN /\ flood \in BOOLEAN
    BY DEF FloodInv, Answering
  <2>3. flood => ~TellsEvent(Publications(l, flood))
    BY <2>2, ZoneIsQuiet, PartitionIsQuiet DEF LineOf
  <2> HIDE DEF l
  <2> QED BY <2>1, <2>2, <2>3, Zenon DEF Heard, Lost
<1>3. EndsFlood(l) <=> thing = LastZone
  BY WhoEndsFlood
<1> HIDE DEF l
<1>4. link /\ ~asked
  BY <1>1 DEF FloodInv, Answering
<1>5. leaked' \in BOOLEAN /\ flood' \in BOOLEAN /\ unheard' \in BOOLEAN
  BY <1>2, Zenon DEF FloodInv, Answering
<1>6. Answering'
  BY <1>1, <1>4, <1>5, Zenon DEF FloodInv, Answering
<1>7. thing = LastZone => todo' = {}
  BY <1>1
<1>8. Covered'
  BY <1>1, <1>2, <1>3, <1>4, <1>7, Zenon DEF FloodInv, Covered
<1>9. flood \/ early
  BY <1>1 DEF FloodInv, Covered
<1>10. AnswersAreQuiet'
  BY <1>1, <1>2, <1>9, Zenon DEF FloodInv, AnswersAreQuiet
<1>11. thing # LastZone /\ LastZone \in todo => LastZone \in todo'
  BY <1>1
<1>12. FloodEndsWithAnswer'
  BY <1>1, <1>2, <1>3, <1>4, <1>11, Zenon DEF FloodInv, FloodEndsWithAnswer
<1> QED BY <1>6, <1>8, <1>10, <1>12 DEF FloodInv
---------------------------------------------------------------------------
(* The panel.                                                              *)

\* The partition's status says whether it is armed, unless it is one that an
\* armed partition and one that is not can both have.
PanelInv ==
  /\ panel \in [zone : [Zones -> {"OPEN", "RESTORED"}], partition : Statuses,
                armed : BOOLEAN]
  /\ panel.partition \notin {"ALARM", "EXIT_DELAY", "ENTRY_DELAY"} =>
       panel.armed = (panel.partition \in {"ARMED_AWAY", "ARMED_STAY"})

LEMMA PanelKept ==
  ASSUME PanelInv, [Next]_vars
  PROVE  PanelInv'
<1>1. CASE UNCHANGED panel
  BY <1>1 DEF PanelInv
<1>2. ASSUME NEW z \in Zones, ZoneChanges(z) PROVE PanelInv'
  <2> PICK s \in {"OPEN", "RESTORED"} : panel' = [panel EXCEPT !.zone[z] = s]
    BY <1>2 DEF ZoneChanges
  <2>1. /\ panel.zone \in [Zones -> {"OPEN", "RESTORED"}]
        /\ panel' = [panel EXCEPT !.zone = [panel.zone EXCEPT ![z] = s]]
        /\ [panel.zone EXCEPT ![z] = s] \in [Zones -> {"OPEN", "RESTORED"}]
    BY DEF PanelInv
  <2> QED BY <2>1 DEF PanelInv
<1>3. ASSUME NEW s \in Statuses, PartitionChanges(s) PROVE PanelInv'
  <2> DEFINE a == IF s \in {"ALARM", "EXIT_DELAY", "ENTRY_DELAY"} THEN panel.armed
                  ELSE s \in {"ARMED_AWAY", "ARMED_STAY"}
  <2>1. panel' = [panel EXCEPT !.partition = s, !.armed = a]
    BY <1>3 DEF PartitionChanges
  <2>2. a \in BOOLEAN
    <3>1. panel.armed \in BOOLEAN
      BY DEF PanelInv
    <3>2. CASE s \in {"ALARM", "EXIT_DELAY", "ENTRY_DELAY"}
      BY <3>1, <3>2
    <3>3. CASE s \notin {"ALARM", "EXIT_DELAY", "ENTRY_DELAY"}
      <4>1. CASE s \in {"ARMED_AWAY", "ARMED_STAY"}
        BY <3>3, <4>1
      <4>2. CASE s \notin {"ARMED_AWAY", "ARMED_STAY"}
        BY <3>3, <4>2
      <4> QED BY <4>1, <4>2, Zenon
    <3> QED BY <3>2, <3>3, Zenon
  <2>3. s \notin {"ALARM", "EXIT_DELAY", "ENTRY_DELAY"} =>
          a = (s \in {"ARMED_AWAY", "ARMED_STAY"})
    BY Zenon
  <2> HIDE DEF a
  <2>4. /\ panel' \in [zone : [Zones -> {"OPEN", "RESTORED"}], partition : Statuses,
                       armed : BOOLEAN]
        /\ panel'.partition = s /\ panel'.armed = a
    BY <2>1, <2>2 DEF PanelInv
  <2> QED BY <2>3, <2>4, Zenon DEF PanelInv
<1>4. ASSUME ~(\E z \in Zones : ZoneChanges(z)), ~(\E s \in Statuses : PartitionChanges(s))
      PROVE  UNCHANGED panel
  BY <1>4, Zenon DEF Next, Connected, Disconnected, AnswerBegins, AnswerReports, OtherLine,
     MqttFails, MqttReturns, vars
<1> QED BY <1>1, <1>2, <1>3, <1>4

LEMMA PanelHolds == Spec => []PanelInv
<1>1. Init => PanelInv
  <2> SUFFICES ASSUME Init PROVE PanelInv
    OBVIOUS
  <2>1. panel \in [zone : [Zones -> {"RESTORED"}], partition : {"DISARMED"}, armed : {FALSE}]
    BY DEF Init
  <2>2. PICK z \in [Zones -> {"RESTORED"}] :
          panel = [zone |-> z, partition |-> "DISARMED", armed |-> FALSE]
    BY <2>1
  <2>3. z \in [Zones -> {"OPEN", "RESTORED"}] /\ "DISARMED" \in Statuses
    BY ViewAssumption DEF ViewAssumption
  <2>4. /\ panel \in [zone : [Zones -> {"OPEN", "RESTORED"}], partition : Statuses,
                      armed : BOOLEAN]
        /\ panel.partition = "DISARMED" /\ panel.armed = FALSE
    BY <2>2, <2>3
  <2>5. (panel.partition \in {"ARMED_AWAY", "ARMED_STAY"}) = FALSE
    BY <2>4
  <2> QED BY <2>4, <2>5, Zenon DEF PanelInv
<1>2. PanelInv /\ [Next]_vars => PanelInv'
  BY PanelKept
<1> QED BY <1>1, <1>2, PTL DEF Spec

LEMMA FloodKept ==
  ASSUME PanelInv, FloodInv, [Next]_vars
  PROVE  FloodInv'
<1>1. CASE Connected
  <2>1. /\ link' = TRUE /\ asked' = TRUE /\ flood' = TRUE /\ todo' = todo /\ ~link
        /\ early' = FALSE /\ unheard' = FALSE /\ leaked' = FALSE
    BY <1>1 DEF Connected, PrepareForFlood
  <2> QED BY <2>1 DEF FloodInv, Answering, Covered, AnswersAreQuiet, FloodEndsWithAnswer
<1>2. CASE Disconnected
  <2>1. /\ link' = FALSE /\ asked' = FALSE /\ todo' = {}
        /\ UNCHANGED <<flood, early, unheard, leaked>>
    BY <1>2 DEF Disconnected
  <2> QED BY <2>1 DEF FloodInv, Answering, Covered, AnswersAreQuiet, FloodEndsWithAnswer
<1>3. CASE AnswerBegins
  <2>1. /\ asked /\ asked' = FALSE /\ todo' = Things
        /\ UNCHANGED <<link, flood, early, unheard, leaked>>
    BY <1>3 DEF AnswerBegins
  <2>2. LastZone \in Things
    BY ViewAssumption DEF ViewAssumption, Things
  <2> QED BY <2>1, <2>2 DEF FloodInv, Answering, Covered, AnswersAreQuiet, FloodEndsWithAnswer
<1>4. ASSUME NEW thing \in Things, AnswerReports(thing) PROVE FloodInv'
  <2>1. panel.partition \in DOMAIN PartitionLine
    BY ViewAssumption DEF ViewAssumption, PanelInv
  <2> QED BY <1>4, <2>1, AnswerFlood
<1>5. CASE MqttFails \/ MqttReturns \/ UNCHANGED vars
  <2>1. UNCHANGED <<link, flood, asked, todo, early, unheard, leaked>>
    BY <1>5, Zenon DEF MqttFails, MqttReturns, vars
  <2> QED BY <2>1 DEF FloodInv, Answering, Covered, AnswersAreQuiet, FloodEndsWithAnswer
<1>6. ASSUME NEW l, Sends(l) PROVE FloodInv'
  BY <1>6, SendsFlood
<1>7. CASE \/ \E z \in Zones : ZoneChanges(z)
           \/ \E s \in Statuses : PartitionChanges(s)
           \/ \E c \in Others, z \in Zones : OtherLine([command |-> c, at |-> z])
  BY <1>6, <1>7, Zenon DEF ZoneChanges, PartitionChanges, OtherLine
<1> QED BY <1>1, <1>2, <1>3, <1>4, <1>5, <1>7, Zenon DEF Next

LEMMA FloodHolds == Spec => []FloodInv
<1>1. Init => FloodInv
  BY DEF Init, FloodInv, Answering, Covered, AnswersAreQuiet, FloodEndsWithAnswer
<1>2. PanelInv /\ FloodInv /\ [Next]_vars => FloodInv'
  BY FloodKept
<1> QED BY <1>1, <1>2, PanelHolds, PTL DEF Spec

\* Nothing of a status answer is published as news, unless LastZone was reported
\* before the answer's end.
THEOREM AnswersStayQuiet == Spec => []AnswersAreQuiet
<1>1. FloodInv => AnswersAreQuiet
  BY DEF FloodInv
<1> QED BY <1>1, FloodHolds, PTL

\* News are held back until the answer's end, and no longer, unless a line of
\* this connection was lost.
THEOREM FloodIsOver == Spec => []FloodEndsWithAnswer
<1>1. FloodInv => FloodEndsWithAnswer
  BY DEF FloodInv
<1> QED BY <1>1, FloodHolds, PTL

---------------------------------------------------------------------------
(* Publications, and what they leave at the broker.                        *)

\* A handler's publications, whatever they are, are a sequence.
IsSequence(pubs) == pubs \in Seq(Range(pubs))

LEMMA SequenceOfRange ==
  ASSUME NEW S, NEW pubs \in Seq(S)
  PROVE  IsSequence(pubs)
BY DEF IsSequence, Range

\* Those that are retained.
Retained(pubs) == {p \in Range(pubs) : p.retain}

LEMMA WrittenAreRetained ==
  ASSUME NEW pubs
  PROVE  Written(pubs) = {p.topic : p \in Retained(pubs)}
BY DEF Written, Retained

\* A topic shows what a publication of the handler left there, or what it
\* showed before, and then the handler leaves nothing there.
LEMMA WhatIsShown ==
  ASSUME NEW pubs, IsSequence(pubs), NEW k \in 0..Len(pubs),
         NEW t \in DOMAIN Shown(pubs, k)
  PROVE  \/ \E p \in Retained(pubs) : p.topic = t /\ Shown(pubs, k)[t] = p.payload
         \/ /\ t \in DOMAIN shown /\ Shown(pubs, k)[t] = shown[t]
            /\ \A p \in Retained(pubs) : p.topic # t
<1> DEFINE heard == Written(SubSeq(pubs, 1, k))
           known == (DOMAIN shown \ Written(pubs)) \cup heard
<1>1. /\ DOMAIN Shown(pubs, k) = known
      /\ Shown(pubs, k)[t] = IF t \in heard
           THEN (CHOOSE p \in Range(pubs) : p.retain /\ p.topic = t).payload
           ELSE shown[t]
  BY DEF Shown
<1>2. CASE t \in heard
  <2>1. PICK i \in DOMAIN SubSeq(pubs, 1, k) :
          SubSeq(pubs, 1, k)[i].retain /\ SubSeq(pubs, 1, k)[i].topic = t
    BY <1>2 DEF Written, Range
  <2>2. i \in DOMAIN pubs /\ SubSeq(pubs, 1, k)[i] = pubs[i]
    <3>1. k = 0 => SubSeq(pubs, 1, k) = << >>
      BY SubSeqProperties DEF IsSequence
    <3>2. k # 0
      BY <2>1, <3>1
    <3> QED BY <2>1, <3>2, SubSeqProperties DEF IsSequence
  <2>3. \E p \in Range(pubs) : p.retain /\ p.topic = t
    BY <2>1, <2>2 DEF Range
  <2>4. PICK p \in Range(pubs) :
          /\ p = CHOOSE q \in Range(pubs) : q.retain /\ q.topic = t
          /\ p.retain /\ p.topic = t
    BY <2>3
  <2> QED BY <1>1, <1>2, <2>4 DEF Retained
<1>3. CASE t \notin heard
  <2>1. t \in DOMAIN shown /\ t \notin Written(pubs)
    BY <1>1, <1>3
  <2> QED BY <1>1, <1>3, <2>1, WrittenAreRetained
<1> QED BY <1>2, <1>3

LEMMA Made ==
  ASSUME NEW t, NEW payload
  PROVE  /\ ~Say(t, payload).retain
         /\ Keep(t, payload).retain
         /\ Keep(t, payload).topic = t /\ Keep(t, payload).payload = payload
BY DEF Say, Keep

LEMMA RetainedOfNone == IsSequence(<< >>) /\ Retained(<< >>) = {}
BY DEF Retained, Range, IsSequence

LEMMA RetainedOfOne ==
  ASSUME NEW a
  PROVE  IsSequence(<<a>>) /\ Retained(<<a>>) = {p \in {a} : p.retain}
BY DEF Retained, Range, IsSequence

LEMMA RetainedOfTwo ==
  ASSUME NEW a, NEW b
  PROVE  IsSequence(<<a, b>>) /\ Retained(<<a, b>>) = {p \in {a, b} : p.retain}
BY DEF Retained, Range, IsSequence

LEMMA RetainedOfThree ==
  ASSUME NEW a, NEW b, NEW c
  PROVE  IsSequence(<<a, b, c>>) /\ Retained(<<a, b, c>>) = {p \in {a, b, c} : p.retain}
BY DEF Retained, Range, IsSequence

LEMMA RetainedOfFour ==
  ASSUME NEW a, NEW b, NEW c, NEW d
  PROVE  /\ IsSequence(<<a, b, c, d>>)
         /\ Retained(<<a, b, c, d>>) = {p \in {a, b, c, d} : p.retain}
BY DEF Retained, Range, IsSequence

LEMMA RetainedOfBoth ==
  ASSUME NEW a, NEW b, IsSequence(a), IsSequence(b)
  PROVE  IsSequence(a \o b) /\ Retained(a \o b) = Retained(a) \cup Retained(b)
<1> DEFINE s == a \o b
           S == Range(a) \cup Range(b)
<1>1. a \in Seq(S) /\ b \in Seq(S)
  BY DEF IsSequence
<1>2. /\ s \in Seq(S) /\ Len(s) = Len(a) + Len(b)
      /\ \A i \in 1..Len(s) : s[i] = IF i <= Len(a) THEN a[i] ELSE b[i - Len(a)]
  BY <1>1, ConcatProperties
<1> HIDE DEF s, S
<1>3. ASSUME NEW p \in Retained(s) PROVE p \in Retained(a) \cup Retained(b)
  <2>1. PICK i \in 1..Len(s) : p = s[i] /\ p.retain
    BY <1>2 DEF Retained, Range
  <2>2. CASE i <= Len(a)
    <3>1. i \in DOMAIN a /\ p = a[i]
      BY <1>1, <1>2, <2>1, <2>2
    <3> QED BY <2>1, <3>1 DEF Retained, Range
  <2>3. CASE ~(i <= Len(a))
    <3>1. i - Len(a) \in DOMAIN b /\ p = b[i - Len(a)]
      BY <1>1, <1>2, <2>1, <2>3
    <3> QED BY <2>1, <3>1 DEF Retained, Range
  <2> QED BY <2>2, <2>3
<1>4. ASSUME NEW p \in Retained(a) PROVE p \in Retained(s)
  <2>1. PICK i \in 1..Len(a) : p = a[i] /\ p.retain
    BY <1>1 DEF Retained, Range
  <2>2. i \in DOMAIN s /\ p = s[i]
    BY <1>1, <1>2, <2>1
  <2> QED BY <2>1, <2>2 DEF Retained, Range
<1>5. ASSUME NEW p \in Retained(b) PROVE p \in Retained(s)
  <2>1. PICK i \in 1..Len(b) : p = b[i] /\ p.retain
    BY <1>1 DEF Retained, Range
  <2>2. i + Len(a) \in 1..Len(s) /\ ~(i + Len(a) <= Len(a)) /\ (i + Len(a)) - Len(a) = i
    BY <1>1, <1>2, <2>1
  <2>3. i + Len(a) \in DOMAIN s /\ p = s[i + Len(a)]
    BY <1>2, <2>1, <2>2
  <2> QED BY <2>1, <2>3 DEF Retained, Range
<1>6. IsSequence(s)
  BY <1>2, SequenceOfRange
<1> QED BY <1>3, <1>4, <1>5, <1>6 DEF s

\* An event that is not retained makes no difference, whether the flood holds it
\* back or not.
LEMMA RetainedBehindEvent ==
  ASSUME NEW f, NEW e, NEW rest, IsSequence(rest)
  PROVE  /\ IsSequence(Unless(f, e) \o rest)
         /\ Retained(rest) \subseteq Retained(Unless(f, e) \o rest)
         /\ Retained(Unless(f, e) \o rest)
              \subseteq Retained(rest) \cup {p \in {e} : p.retain}
<1>1. Unless(f, e) \in {<< >>, <<e>>}
  BY DEF Unless
<1>2. /\ IsSequence(Unless(f, e))
      /\ Retained(Unless(f, e)) \subseteq {p \in {e} : p.retain}
  BY <1>1, RetainedOfNone, RetainedOfOne
<1> HIDE <1>1
<1> QED BY <1>2, RetainedOfBoth

\* A publication that says nothing of a zone's being open or restored.
Harmless(p, z) ==
  \/ p.topic = Zone(z, "condition") /\ p.payload \in {"alarm", "tamper"}
  \/ p.topic \in {Misnamed("event"), Misnamed("condition")} /\ p.payload = "fault"

\* A zone's state and condition follow its being open or restored; all else
\* leaves them but for a condition that is neither's.
LEMMA RetainedOfZone ==
  ASSUME NEW z \in Nat, NEW f, NEW s \in DOMAIN ZoneStatus,
         NEW pubs, pubs = ZonePublications(z, ZoneStatus[s], f)
  PROVE  /\ IsSequence(pubs)
         /\ s = "ZONE_OPEN" => Retained(pubs) =
              {Keep(Zone(z, "state"), "open"), Keep(Zone(z, "condition"), "violated")}
         /\ s = "ZONE_RESTORED" => Retained(pubs) =
              {Keep(Zone(z, "state"), "closed"), Keep(Zone(z, "condition"), "secure")}
         /\ s \notin {"ZONE_OPEN", "ZONE_RESTORED"} =>
              \A p \in Retained(pubs) : Harmless(p, z)
<1> USE DEF Harmless
<1> DEFINE e(w) == Say(Zone(z, "event"), w)
           k(leaf, w) == Keep(Zone(z, leaf), w)
<1>1. ASSUME NEW w PROVE ~e(w).retain
  BY Made
<1>2. ASSUME NEW w
      PROVE  IsSequence(Unless(f, e(w))) /\ Retained(Unless(f, e(w))) = {}
  <2> HIDE DEF e
  <2>1. Unless(f, e(w)) = << >> \/ Unless(f, e(w)) = <<e(w)>>
    BY DEF Unless
  <2> QED BY <1>1, <2>1, RetainedOfNone, RetainedOfOne
<1>3. ASSUME NEW w, NEW a, a.retain
       PROVE  /\ IsSequence(Unless(f, e(w)) \o <<a>>)
              /\ Retained(Unless(f, e(w)) \o <<a>>) = {a}
  <2> HIDE DEF e
  <2>1. {p \in {a} : p.retain} = {a} /\ {p \in {e(w)} : p.retain} = {}
    BY <1>1, <1>3
  <2> QED BY <2>1, RetainedOfOne, RetainedBehindEvent
<1>4. ASSUME NEW w, NEW a, NEW b, a.retain, b.retain
       PROVE  /\ IsSequence(Unless(f, e(w)) \o <<a, b>>)
              /\ Retained(Unless(f, e(w)) \o <<a, b>>) = {a, b}
  <2> HIDE DEF e
  <2>1. {p \in {a, b} : p.retain} = {a, b} /\ {p \in {e(w)} : p.retain} = {}
    BY <1>1, <1>4
  <2> QED BY <2>1, RetainedOfTwo, RetainedBehindEvent
<1>5. CASE s = "ZONE_OPEN"
  <2>1. pubs = Unless(f, e("violated"))
           \o <<k("state", "open"), k("condition", "violated")>>
    BY <1>5 DEF ZonePublications, ZoneStatus
  <2>2. k("state", "open").retain /\ k("condition", "violated").retain
    BY Made
  <2> HIDE DEF e, k
  <2>3. /\ IsSequence(pubs)
        /\ Retained(pubs) = {k("state", "open"), k("condition", "violated")}
    BY <1>4, <2>1, <2>2
  <2> QED BY <1>5, <2>3 DEF k
<1>6. CASE s = "ZONE_RESTORED"
  <2>1. pubs = Unless(f, e("restored"))
           \o <<k("state", "closed"), k("condition", "secure")>>
    BY <1>6 DEF ZonePublications, ZoneStatus
  <2>2. k("state", "closed").retain /\ k("condition", "secure").retain
    BY Made
  <2> HIDE DEF e, k
  <2>3. /\ IsSequence(pubs)
        /\ Retained(pubs) = {k("state", "closed"), k("condition", "secure")}
    BY <1>4, <2>1, <2>2
  <2> QED BY <1>6, <2>3 DEF k
<1>7. CASE s = "ZONE_ALARM"
  <2>1. pubs = Unless(f, e("alarm"))
           \o <<k("condition", "alarm")>>
    BY <1>7 DEF ZonePublications, ZoneStatus
  <2>2. /\ k("condition", "alarm").retain
        /\ k("condition", "alarm").topic = Zone(z, "condition")
        /\ k("condition", "alarm").payload = "alarm"
    BY Made
  <2> HIDE DEF e, k
  <2>3. IsSequence(pubs) /\ Retained(pubs) = {k("condition", "alarm")}
    BY <1>3, <2>1, <2>2
  <2> QED BY <1>7, <2>2, <2>3
<1>8. CASE s = "ZONE_TAMPER"
  <2>1. pubs = Unless(f, e("tamper"))
           \o <<k("condition", "tamper")>>
    BY <1>8 DEF ZonePublications, ZoneStatus
  <2>2. /\ k("condition", "tamper").retain
        /\ k("condition", "tamper").topic = Zone(z, "condition")
        /\ k("condition", "tamper").payload = "tamper"
    BY Made
  <2> HIDE DEF e, k
  <2>3. IsSequence(pubs) /\ Retained(pubs) = {k("condition", "tamper")}
    BY <1>3, <2>1, <2>2
  <2> QED BY <1>8, <2>2, <2>3
<1>9. CASE s = "ZONE_ALARM_RESTORE"
  <2>1. pubs = <<Say(Zone(z, "event"), "alarm_restored"),
                 Say(<<"alarm", 0, "event">>, "alarm_restored")>>
    BY <1>9 DEF ZonePublications, ZoneStatus
  <2> QED BY <1>9, <2>1, Made, RetainedOfTwo
<1>10. CASE s \in {"ZONE_TAMPER_RESTORE", "ZONE_FAULT_RESTORE"}
  <2>1. \/ pubs = Unless(f, e("tamper_restored")) \/ pubs = Unless(f, e("fault_restored"))
    BY <1>10 DEF ZonePublications, ZoneStatus
  <2> HIDE DEF e, k
  <2>2. IsSequence(pubs) /\ Retained(pubs) = {}
    BY <1>2, <2>1
  <2> QED BY <1>10, <2>2
<1>11. CASE s = "ZONE_FAULT"
  <2>1. pubs = Unless(f, Keep(Misnamed("event"), "fault"))
           \o <<Keep(Misnamed("condition"), "fault")>>
    BY <1>11 DEF ZonePublications, ZoneStatus
  <2>2. /\ IsSequence(<<Keep(Misnamed("condition"), "fault")>>)
        /\ Retained(<<Keep(Misnamed("condition"), "fault")>>)
             \subseteq {Keep(Misnamed("condition"), "fault")}
    BY RetainedOfOne
  <2>3. /\ IsSequence(pubs)
        /\ Retained(pubs) \subseteq
             {Keep(Misnamed("condition"), "fault"), Keep(Misnamed("event"), "fault")}
    BY <2>1, <2>2, RetainedBehindEvent
  <2> QED BY <1>11, <2>3, Made
<1> QED BY <1>5, <1>6, <1>7, <1>8, <1>9, <1>10, <1>11 DEF ZoneStatus

LEMMA EmptyBefore ==
  ASSUME NEW pubs, IsSequence(pubs)
  PROVE  << >> \o pubs = pubs
BY ConcatEmptySeq DEF IsSequence

\* The statuses that say nothing of the partition's being armed.
Indifferent == {"ALARM", "EXIT_DELAY", "ENTRY_DELAY"}
ArmedOf(s) == IF s \in {"ARMED_AWAY", "ARMED_STAY"} THEN "1" ELSE "0"

\* The conditions of the partition that are retained.
Conditions == {"not_ready", "busy", "ready_force_arm", "exit_delay", "entry_delay", "alarm"}

\* A status of the partition writes state and hass_state, and armed where it
\* says something of that, each with the value that is true of it, and no other
\* retained topic but the condition.
LEMMA RetainedOfPartition ==
  ASSUME NEW s \in DOMAIN PartitionLine, NEW f,
         NEW pubs, pubs = Publications(PartitionLine[s], f)
  PROVE  /\ IsSequence(pubs)
         /\ State(StateOf(s)) \in Retained(pubs) /\ Hass(HassOf(s)) \in Retained(pubs)
         /\ s \notin Indifferent => Armed(ArmedOf(s)) \in Retained(pubs)
         /\ \A p \in Retained(pubs) :
              \/ p \in {State(StateOf(s)), Hass(HassOf(s))}
              \/ s \notin Indifferent /\ p = Armed(ArmedOf(s))
              \/ \E w \in Conditions : p = Condition(w)
<1>1. \A w : /\ ~Event(w).retain /\ ~Say(Partition("condition"), w).retain
             /\ State(w).retain /\ Hass(w).retain /\ Armed(w).retain /\ Condition(w).retain
  BY Made DEF Event, State, Hass, Armed, Condition
<1>2. ASSUME NEW w, NEW a, NEW b, NEW c, a.retain, b.retain, c.retain,
             \/ pubs = Unless(f, Event(w)) \o <<a, b, c>>
             \/ pubs = << >> \o (Unless(f, Event(w)) \o <<a, b, c>>)
      PROVE  IsSequence(pubs) /\ Retained(pubs) = {a, b, c}
  <2>1. /\ {p \in {a, b, c} : p.retain} = {a, b, c}
        /\ {p \in {Event(w)} : p.retain} = {}
    BY <1>1, <1>2
  <2>2. /\ IsSequence(Unless(f, Event(w)) \o <<a, b, c>>)
        /\ Retained(Unless(f, Event(w)) \o <<a, b, c>>) = {a, b, c}
    BY <2>1, RetainedOfThree, RetainedBehindEvent
  <2> QED BY <1>2, <2>2, EmptyBefore
<1>3. ASSUME NEW w, NEW a, NEW b, NEW c, NEW d, a.retain, b.retain, c.retain,
             pubs = << >> \o (Unless(f, Event(w)) \o <<a, b, c, d>>)
      PROVE  /\ IsSequence(pubs)
             /\ Retained(pubs) = IF d.retain THEN {a, b, c, d} ELSE {a, b, c}
  <2>1. /\ {p \in {a, b, c, d} : p.retain} = IF d.retain THEN {a, b, c, d} ELSE {a, b, c}
        /\ {p \in {Event(w)} : p.retain} = {}
    BY <1>1, <1>3
  <2>2. /\ IsSequence(Unless(f, Event(w)) \o <<a, b, c, d>>)
        /\ Retained(Unless(f, Event(w)) \o <<a, b, c, d>>)
             = IF d.retain THEN {a, b, c, d} ELSE {a, b, c}
    BY <2>1, RetainedOfFour, RetainedBehindEvent
  <2> QED BY <1>3, <2>2, EmptyBefore
<1>4. CASE s = "ARMED_AWAY"
  <2>1. /\ State("armed_away") = State(StateOf(s)) /\ Hass("armed_away") = Hass(HassOf(s))
        /\ s \notin Indifferent /\ Armed("1") = Armed(ArmedOf(s))
    BY <1>4 DEF StateOf, HassOf, Indifferent, ArmedOf
  <2>2. pubs = Unless(f, Event("armed_away"))
                 \o <<Armed("1"), State("armed_away"), Hass("armed_away")>>
    <3>1. PartitionLine[s].at = 0
      BY <1>4 DEF PartitionLine
    <3> QED BY <1>4, <3>1, PublicationsOfStatus, SMTT(60) DEF ArmedPublications
  <2>3. Armed("1").retain /\ State("armed_away").retain /\ Hass("armed_away").retain
    BY <1>1
  <2>4. IsSequence(pubs) /\ Retained(pubs) = {Armed("1"), State("armed_away"), Hass("armed_away")}
    BY <1>2, <2>2, <2>3
  <2> QED BY <1>1, <2>1, <2>4
<1>5. CASE s = "ARMED_STAY"
  <2>1. /\ State("armed_stay") = State(StateOf(s)) /\ Hass("armed_home") = Hass(HassOf(s))
        /\ s \notin Indifferent /\ Armed("1") = Armed(ArmedOf(s))
    BY <1>5 DEF StateOf, HassOf, Indifferent, ArmedOf
  <2>2. pubs = Unless(f, Event("armed_stay"))
                 \o <<Armed("1"), State("armed_stay"), Hass("armed_home")>>
    <3>1. PartitionLine[s].at = 1
      BY <1>5 DEF PartitionLine
    <3> QED BY <1>5, <3>1, PublicationsOfStatus DEF ArmedPublications
  <2>3. Armed("1").retain /\ State("armed_stay").retain /\ Hass("armed_home").retain
    BY <1>1
  <2>4. IsSequence(pubs) /\ Retained(pubs) = {Armed("1"), State("armed_stay"), Hass("armed_home")}
    BY <1>2, <2>2, <2>3
  <2> QED BY <1>1, <2>1, <2>4
<1>6. CASE s = "ALARM"
  <2>1. /\ State("alarm") = State(StateOf(s)) /\ Hass("triggered") = Hass(HassOf(s))
        /\ s \in Indifferent
    BY <1>6 DEF StateOf, HassOf, Indifferent
  <2>2. pubs = << >> \o (Unless(f, Event("alarm"))
                 \o <<State("alarm"), Hass("triggered"), Condition("alarm")>>)
    BY <1>6, PublicationsOfStatus DEF PartitionPublications
  <2>3. State("alarm").retain /\ Hass("triggered").retain /\ Condition("alarm").retain
    BY <1>1
  <2>4. IsSequence(pubs) /\ Retained(pubs) = {State("alarm"), Hass("triggered"), Condition("alarm")}
    BY <1>2, <2>2, <2>3
  <2> QED BY <1>1, <2>1, <2>4 DEF Conditions
<1>7. CASE s = "DISARMED"
  <2>1. /\ State("disarmed") = State(StateOf(s)) /\ Hass("disarmed") = Hass(HassOf(s))
        /\ s \notin Indifferent /\ Armed("0") = Armed(ArmedOf(s))
    BY <1>7 DEF StateOf, HassOf, Indifferent, ArmedOf
  <2>2. pubs = << >> \o (Unless(f, Event("disarmed"))
                 \o <<Hass("disarmed"), Armed("0"), State("disarmed")>>)
    BY <1>7, PublicationsOfStatus DEF PartitionPublications
  <2>3. Hass("disarmed").retain /\ Armed("0").retain /\ State("disarmed").retain
    BY <1>1
  <2>4. IsSequence(pubs) /\ Retained(pubs) = {Hass("disarmed"), Armed("0"), State("disarmed")}
    BY <1>2, <2>2, <2>3
  <2> QED BY <1>1, <2>1, <2>4
<1>8. CASE s = "READY"
  <2>1. /\ State("disarmed") = State(StateOf(s)) /\ Hass("disarmed") = Hass(HassOf(s))
        /\ s \notin Indifferent /\ Armed("0") = Armed(ArmedOf(s))
    BY <1>8 DEF StateOf, HassOf, Indifferent, ArmedOf
  <2>2. pubs = << >> \o (Unless(f, Event("disarmed"))
                 \o <<Armed("0"), Hass("disarmed"), State("disarmed"), Say(Partition("condition"), "ready")>>)
    BY <1>8, PublicationsOfStatus DEF PartitionPublications
  <2>3. Armed("0").retain /\ Hass("disarmed").retain /\ State("disarmed").retain
    BY <1>1
  <2>4. ~Say(Partition("condition"), "ready").retain
    BY <1>1
  <2>5. /\ IsSequence(pubs)
        /\ Retained(pubs) = {Armed("0"), Hass("disarmed"), State("disarmed")}
    BY <1>3, <2>2, <2>3, <2>4
  <2> QED BY <1>1, <2>1, <2>5
<1>9. CASE s = "NOT_READY"
  <2>1. /\ State("disarmed") = State(StateOf(s)) /\ Hass("disarmed") = Hass(HassOf(s))
        /\ s \notin Indifferent /\ Armed("0") = Armed(ArmedOf(s))
    BY <1>9 DEF StateOf, HassOf, Indifferent, ArmedOf
  <2>2. pubs = << >> \o (Unless(f, Event("not_ready"))
                 \o <<Armed("0"), Hass("disarmed"), State("disarmed"), Condition("not_ready")>>)
    BY <1>9, PublicationsOfStatus DEF PartitionPublications
  <2>3. Armed("0").retain /\ Hass("disarmed").retain /\ State("disarmed").retain
    BY <1>1
  <2>4. Condition("not_ready").retain
    BY <1>1
  <2>5. /\ IsSequence(pubs)
        /\ Retained(pubs) = {Armed("0"), Hass("disarmed"), State("disarmed"), Condition("not_ready")}
    BY <1>3, <2>2, <2>3, <2>4
  <2> QED BY <1>1, <2>1, <2>5 DEF Conditions
<1>10. CASE s = "BUSY"
  <2>1. /\ State("busy") = State(StateOf(s)) /\ Hass("disarmed") = Hass(HassOf(s))
        /\ s \notin Indifferent /\ Armed("0") = Armed(ArmedOf(s))
    BY <1>10 DEF StateOf, HassOf, Indifferent, ArmedOf
  <2>2. pubs = << >> \o (Unless(f, Event("busy"))
                 \o <<Armed("0"), Hass("disarmed"), State("busy"), Condition("busy")>>)
    BY <1>10, PublicationsOfStatus DEF PartitionPublications
  <2>3. Armed("0").retain /\ Hass("disarmed").retain /\ State("busy").retain
    BY <1>1
  <2>4. Condition("busy").retain
    BY <1>1
  <2>5. /\ IsSequence(pubs)
        /\ Retained(pubs) = {Armed("0"), Hass("disarmed"), State("busy"), Condition("busy")}
    BY <1>3, <2>2, <2>3, <2>4
  <2> QED BY <1>1, <2>1, <2>5 DEF Conditions
<1>11. CASE s = "READY_FORCE_ARM"
  <2>1. /\ State("disarmed") = State(StateOf(s)) /\ Hass("disarmed") = Hass(HassOf(s))
        /\ s \notin Indifferent /\ Armed("0") = Armed(ArmedOf(s))
    BY <1>11 DEF StateOf, HassOf, Indifferent, ArmedOf
  <2>2. pubs = << >> \o (Unless(f, Event("ready_force_arm"))
                 \o <<Armed("0"), Hass("disarmed"), State("disarmed"), Condition("ready_force_arm")>>)
    BY <1>11, PublicationsOfStatus DEF PartitionPublications
  <2>3. Armed("0").retain /\ Hass("disarmed").retain /\ State("disarmed").retain
    BY <1>1
  <2>4. Condition("ready_force_arm").retain
    BY <1>1
  <2>5. /\ IsSequence(pubs)
        /\ Retained(pubs) = {Armed("0"), Hass("disarmed"), State("disarmed"), Condition("ready_force_arm")}
    BY <1>3, <2>2, <2>3, <2>4
  <2> QED BY <1>1, <2>1, <2>5 DEF Conditions
<1>12. CASE s = "EXIT_DELAY"
  <2>1. /\ State("exit_delay") = State(StateOf(s)) /\ Hass("arming") = Hass(HassOf(s))
        /\ s \in Indifferent
    BY <1>12 DEF StateOf, HassOf, Indifferent
  <2>2. pubs = << >> \o (Unless(f, Event("exit_delay"))
                 \o <<Hass("arming"), State("exit_delay"), Condition("exit_delay")>>)
    BY <1>12, PublicationsOfStatus DEF PartitionPublications
  <2>3. Hass("arming").retain /\ State("exit_delay").retain /\ Condition("exit_delay").retain
    BY <1>1
  <2>4. IsSequence(pubs) /\ Retained(pubs) = {Hass("arming"), State("exit_delay"), Condition("exit_delay")}
    BY <1>2, <2>2, <2>3
  <2> QED BY <1>1, <2>1, <2>4 DEF Conditions
<1>13. CASE s = "ENTRY_DELAY"
  <2>1. /\ State("entry_delay") = State(StateOf(s)) /\ Hass("pending") = Hass(HassOf(s))
        /\ s \in Indifferent
    BY <1>13 DEF StateOf, HassOf, Indifferent
  <2>2. pubs = << >> \o (Unless(f, Event("entry_delay"))
                 \o <<Hass("pending"), State("entry_delay"), Condition("entry_delay")>>)
    BY <1>13, PublicationsOfStatus DEF PartitionPublications
  <2>3. Hass("pending").retain /\ State("entry_delay").retain /\ Condition("entry_delay").retain
    BY <1>1
  <2>4. IsSequence(pubs) /\ Retained(pubs) = {Hass("pending"), State("entry_delay"), Condition("entry_delay")}
    BY <1>2, <2>2, <2>3
  <2> QED BY <1>1, <2>1, <2>4 DEF Conditions
<1> QED BY <1>4, <1>5, <1>6, <1>7, <1>8, <1>9, <1>10, <1>11, <1>12, <1>13 DEF PartitionLine

\* The lines that are no status of a zone or of the partition leave nothing of
\* theirs but a zone's condition.
LEMMA RetainedOfOther ==
  ASSUME NEW c, c \notin {"ZONE_OPEN", "ZONE_RESTORED"}, c \notin PanicKey,
         \A s \in DOMAIN PartitionLine : PartitionLine[s].command # c,
         NEW n \in Nat, NEW f,
         NEW pubs, pubs = Publications([command |-> c, at |-> n], f)
  PROVE  /\ IsSequence(pubs)
         /\ \A p \in Retained(pubs) : \E z \in {n, n \div 10} : Harmless(p, z)
<1> DEFINE l == [command |-> c, at |-> n]
<1>1. CASE ~Accepts(c)
  <2>1. pubs = << >>
    BY <1>1 DEF Publications
  <2> QED BY <2>1, RetainedOfNone
<1>2. CASE Accepts(c) /\ c \in DOMAIN ZoneStatus
  <2>1. pubs = ZonePublications(ZoneOf(l), ZoneStatus[c], f)
    BY <1>2 DEF Publications, Trouble, ZoneStatus
  <2>2. ZoneOf(l) \in {n, n \div 10} /\ ZoneOf(l) \in Nat
    BY DEF ZoneOf
  <2> HIDE DEF l
  <2>3. /\ IsSequence(pubs)
        /\ \A p \in Retained(pubs) : Harmless(p, ZoneOf(l))
    BY <1>2, <2>1, <2>2, RetainedOfZone
  <2> QED BY <2>2, <2>3
<1>3. CASE Accepts(c) /\ c \notin DOMAIN ZoneStatus /\ c \in DOMAIN Trouble
  <2>1. c # "PARTITION_ARMED_DESCRIPTIVE_MODE"
    BY <1>3 DEF Trouble
  <2>2. pubs = <<Say(System("event"), Trouble[c])>>
    BY <1>3, <2>1 DEF Publications
  <2> QED BY <2>2, Made, RetainedOfOne
<1>4. CASE Accepts(c) /\ c \notin DOMAIN ZoneStatus /\ c \notin DOMAIN Trouble
  <2>1. PartitionLine["ARMED_AWAY"].command = "PARTITION_ARMED_DESCRIPTIVE_MODE"
        /\ "ARMED_AWAY" \in DOMAIN PartitionLine
    BY DEF PartitionLine
  <2>2. c # "PARTITION_ARMED_DESCRIPTIVE_MODE"
    BY <2>1
  <2>3. c \in DOMAIN PartitionStatus =>
          PartitionStatus[c] \in {"USER_CLOSING", "PARTIAL_CLOSING", "INVALID_ACCESS_CODE",
                                  "FUNCTION_NOT_AVAILABLE"}
    BY DEF PartitionStatus, PartitionLine, PanicKey
  <2> DEFINE user == IF c \in DOMAIN UserEvent THEN UserPublications(UserEvent[c]) ELSE << >>
             closing == IF c \in DOMAIN PartitionStatus
                        THEN ClosingPublications(PartitionStatus[c]) ELSE << >>
  <2>4. pubs = user \o closing
    BY <1>4, <2>2, <2>3 DEF Publications
  <2>5. IsSequence(user) /\ Retained(user) = {}
    <3>1. \E a, b, u, v : user \in {<< >>, <<Say(a, u), Say(b, v)>>}
      BY DEF UserPublications
    <3> HIDE DEF user
    <3> QED BY <3>1, Made, RetainedOfNone, RetainedOfTwo
  <2>6. IsSequence(closing) /\ Retained(closing) = {}
    <3>1. \E w : closing \in {<< >>, <<Event(w)>>}
      BY <2>3 DEF ClosingPublications
    <3> HIDE DEF closing
    <3> QED BY <3>1, Made, RetainedOfNone, RetainedOfOne DEF Event
  <2> HIDE DEF user, closing
  <2>7. /\ IsSequence(user \o closing)
        /\ Retained(user \o closing) = Retained(user) \cup Retained(closing)
    BY <2>5, <2>6, RetainedOfBoth
  <2> QED BY <2>4, <2>5, <2>6, <2>7
<1> QED BY <1>1, <1>2, <1>3, <1>4

\* The panic key's lines bring about what those of the same code do.
LEMMA PublicationsOfPanicKey ==
  ASSUME NEW c \in PanicKey, NEW n, NEW f
  PROVE  \E s \in {"READY", "NOT_READY"} :
           Publications([command |-> c, at |-> n], f) = Publications(PartitionLine[s], f)
<1> DEFINE s == IF c = "P_KEY_RESTORAL" THEN "READY" ELSE "NOT_READY"
<1>1. /\ c \notin DOMAIN Trouble /\ c \notin DOMAIN ZoneStatus /\ c \notin DOMAIN UserEvent
      /\ c # "PARTITION_ARMED_DESCRIPTIVE_MODE"
      /\ c \in DOMAIN PartitionStatus /\ PartitionStatus[c] = s
  BY DEF PanicKey, Trouble, ZoneStatus, UserEvent, PartitionStatus
<1>2. /\ s \in DOMAIN PartitionLine /\ s \in {"READY", "NOT_READY"}
      /\ s \notin {"ARMED_AWAY", "ARMED_STAY"}
  BY DEF PartitionLine
<1> HIDE DEF s
<1>3. Publications([command |-> c, at |-> n], f) = << >> \o PartitionPublications(s, f)
  BY ONLY <1>1, <1>2 DEF Publications, Accepts
<1> QED BY <1>2, <1>3, PublicationsOfStatus

---------------------------------------------------------------------------
(* What the broker shows after a line.                                     *)

\* Each topic shows what the handler left there, and is misled if that is the
\* panic key's, or else is as it was before.
Follows(pubs, key) ==
  /\ misled' \subseteq DOMAIN shown'
  /\ \A t \in DOMAIN shown' :
       \/ /\ \E p \in Retained(pubs) : p.topic = t /\ shown'[t] = p.payload
          /\ t \in misled' <=> key
       \/ /\ t \in DOMAIN shown /\ shown'[t] = shown[t]
          /\ t \in misled' <=> t \in misled
          /\ \A p \in Retained(pubs) : p.topic # t

\* Whether a line is heard or lost, whole or in part.
LEMMA LineFollows ==
  ASSUME NEW l, IsSequence(Publications(l, flood)), Heard(l) \/ Lost(l)
  PROVE  Follows(Publications(l, flood), l.command \in PanicKey)
<1> DEFINE pubs == Publications(l, flood)
           key == l.command \in PanicKey
<1>1. 0 \in 0..Len(pubs)
  BY DEF IsSequence
<1>2. PICK k \in 0..Len(pubs) : shown' = Shown(pubs, k)
  BY <1>1, Zenon DEF Heard, Lost, Publish
<1>3. misled' = DOMAIN shown' \cap
        (IF key THEN misled \cup Written(pubs) ELSE misled \ Written(pubs))
  BY Zenon DEF Heard, Lost, Traces
<1> HIDE DEF pubs
<1>4. ASSUME NEW t \in DOMAIN shown'
      PROVE  \/ \E p \in Retained(pubs) : p.topic = t /\ shown'[t] = p.payload
             \/ /\ t \in DOMAIN shown /\ shown'[t] = shown[t]
                /\ \A p \in Retained(pubs) : p.topic # t
  BY <1>2, WhatIsShown DEF pubs
<1>5. ASSUME NEW t PROVE t \in Written(pubs) <=> \E p \in Retained(pubs) : p.topic = t
  BY WrittenAreRetained
<1> HIDE DEF key
<1>6. misled' \subseteq DOMAIN shown'
  BY <1>3
<1>7. ASSUME NEW t \in DOMAIN shown', \E p \in Retained(pubs) : p.topic = t
      PROVE  t \in misled' <=> key
  BY <1>3, <1>5, <1>7
<1>8. ASSUME NEW t \in DOMAIN shown', \A p \in Retained(pubs) : p.topic # t
      PROVE  t \in misled' <=> t \in misled
  BY <1>3, <1>5, <1>8
<1>9. Follows(pubs, key)
  BY <1>4, <1>6, <1>7, <1>8, Zenon DEF Follows
<1> QED BY <1>9 DEF pubs, key

ZoneShown(z) ==
  /\ Shows(Zone(z, "state"), IF panel.zone[z] = "OPEN" THEN "open" ELSE "closed")
  /\ Zone(z, "condition") \in DOMAIN shown =>
       shown[Zone(z, "condition")] #
         IF panel.zone[z] = "OPEN" THEN "secure" ELSE "violated"

PartitionShown ==
  /\ Shows(Partition("armed"), IF panel.armed THEN "1" ELSE "0")
  /\ Shows(Partition("state"), StateOf(panel.partition))
  /\ Shows(Partition("hass_state"), HassOf(panel.partition))

\* A topic of the bridge's, and what it may have.
Proper(topic, payload) ==
  /\ topic \in Topics
  /\ payload \in Values(topic[1], topic[3])

ShownTyped ==
  /\ misled \subseteq DOMAIN shown
  /\ \A t \in DOMAIN shown : Proper(t, shown[t])

\* All that is retained is under a topic of the right kind, with a value of that
\* topic's, and true, but for what the panic key wrote.
ShownInv == ShownTyped /\ (\A z \in Zones : ZoneShown(z)) /\ PartitionShown

LEMMA ValuesByTopic ==
  /\ Values("zone", "state") = {"open", "closed"}
  /\ Values("zone", "condition") = {"alarm", "violated", "secure", "tamper"}
  /\ Values("zone/PREFIX", "event") = {"fault"}
  /\ Values("zone/PREFIX", "condition") = {"fault"}
  /\ Values("partition", "armed") = {"0", "1"}
  /\ Values("partition", "state") =
       {"exit_delay", "entry_delay", "armed_away", "armed_stay", "disarmed", "alarm", "busy"}
  /\ Values("partition", "hass_state") =
       {"arming", "pending", "armed_away", "armed_home", "disarmed", "triggered"}
  /\ Values("partition", "condition") = Conditions
BY DEF Values, Conditions

LEMMA ProperByTopic ==
  ASSUME NEW tree \in {"zone", "partition", "zone/PREFIX"}, NEW n \in 0..99,
         NEW leaf \in {"state", "condition", "armed", "hass_state", "event"}, NEW w \in Values(tree, leaf)
  PROVE  Proper(<<tree, n, leaf>>, w)
<1> DEFINE t == <<tree, n, leaf>>
<1>1. t \in Topics
  BY DEF Topics
<1>2. t[1] = tree /\ t[3] = leaf
  OBVIOUS
<1> QED BY <1>1, <1>2, Zenon DEF Proper

LEMMA ProperOfZone ==
  ASSUME NEW z \in 0..99
  PROVE  /\ \A w \in {"open", "closed"} : Proper(Zone(z, "state"), w)
         /\ \A w \in {"alarm", "violated", "secure", "tamper"} : Proper(Zone(z, "condition"), w)
BY ValuesByTopic, ProperByTopic DEF Zone

LEMMA ProperOfOthers ==
  /\ Proper(Misnamed("event"), "fault") /\ Proper(Misnamed("condition"), "fault")
  /\ \A w \in {"0", "1"} : Proper(Partition("armed"), w)
  /\ \A w \in Conditions : Proper(Partition("condition"), w)
  /\ \A s \in DOMAIN PartitionLine : /\ Proper(Partition("state"), StateOf(s))
                                     /\ Proper(Partition("hass_state"), HassOf(s))
<1>1. 0 \in 0..99 /\ 1 \in 0..99
  OBVIOUS
<1>2. Proper(Misnamed("event"), "fault") /\ Proper(Misnamed("condition"), "fault")
  BY <1>1, ValuesByTopic, ProperByTopic DEF Misnamed
<1>3. /\ \A w \in {"0", "1"} : Proper(Partition("armed"), w)
      /\ \A w \in Conditions : Proper(Partition("condition"), w)
  BY <1>1, ValuesByTopic, ProperByTopic DEF Partition
<1>4. ASSUME NEW s \in DOMAIN PartitionLine
      PROVE  /\ Proper(Partition("state"), StateOf(s))
             /\ Proper(Partition("hass_state"), HassOf(s))
  <2>1. StateOf(s) \in Values("partition", "state")
    BY ValuesByTopic DEF StateOf, PartitionLine
  <2>2. HassOf(s) \in Values("partition", "hass_state")
    BY ValuesByTopic DEF HassOf, PartitionLine
  <2> QED BY <1>1, <2>1, <2>2, ProperByTopic DEF Partition
<1> QED BY <1>2, <1>3, <1>4

LEMMA TypedKept ==
  ASSUME ShownTyped, NEW pubs, NEW key, Follows(pubs, key),
         \A p \in Retained(pubs) : Proper(p.topic, p.payload)
  PROVE  ShownTyped'
<1>1. ASSUME NEW t \in DOMAIN shown' PROVE Proper(t, shown'[t])
  BY DEF ShownTyped, Follows
<1>2. misled' \subseteq DOMAIN shown'
  BY DEF Follows
<1> QED BY <1>1, <1>2 DEF ShownTyped

\* What a status of the partition leaves is proper.
LEMMA PartitionIsProper ==
  ASSUME NEW s \in DOMAIN PartitionLine, NEW f,
         NEW p \in Retained(Publications(PartitionLine[s], f))
  PROVE  Proper(p.topic, p.payload)
<1>1. \A w : /\ State(w).topic = Partition("state") /\ State(w).payload = w
             /\ Hass(w).topic = Partition("hass_state") /\ Hass(w).payload = w
             /\ Armed(w).topic = Partition("armed") /\ Armed(w).payload = w
             /\ Condition(w).topic = Partition("condition") /\ Condition(w).payload = w
  BY Made DEF State, Hass, Armed, Condition
<1>2. \/ p \in {State(StateOf(s)), Hass(HassOf(s))}
      \/ p = Armed(ArmedOf(s))
      \/ \E w \in Conditions : p = Condition(w)
  BY RetainedOfPartition
<1>3. ArmedOf(s) \in {"0", "1"}
  BY DEF ArmedOf
<1> QED BY <1>1, <1>2, <1>3, ProperOfOthers

\* A zone that is open or restored is reported so, and no other thing is.
LEMMA ZoneLineShown ==
  ASSUME ShownInv, NEW z \in Zones, panel'.zone[z] \in {"OPEN", "RESTORED"},
         \A y \in Zones \ {z} : panel'.zone[y] = panel.zone[y],
         panel'.partition = panel.partition, panel'.armed = panel.armed,
         Heard(ZoneLine(z, panel'.zone[z])) \/ Lost(ZoneLine(z, panel'.zone[z]))
  PROVE  ShownInv'
<1> DEFINE s == panel'.zone[z]
           c == IF s = "OPEN" THEN "ZONE_OPEN" ELSE "ZONE_RESTORED"
           l == ZoneLine(z, s)
           pubs == Publications(l, flood)
<1>1. /\ c \in DOMAIN ZoneStatus /\ c \notin DOMAIN Trouble
      /\ l.command = c /\ ZoneOf(l) = z /\ z \in 1..99
  BY ViewAssumption DEF ViewAssumption, ZoneStatus, Trouble, ZoneLine, ZoneOf
<1>2. pubs = ZonePublications(z, ZoneStatus[c], flood)
  BY <1>1 DEF Publications, Accepts, ZoneStatus, Trouble
<1> DEFINE state == Keep(Zone(z, "state"), IF s = "OPEN" THEN "open" ELSE "closed")
           condition == Keep(Zone(z, "condition"), IF s = "OPEN" THEN "violated" ELSE "secure")
<1> HIDE DEF pubs
<1>3. IsSequence(pubs) /\ Retained(pubs) = {state, condition}
  BY <1>1, <1>2, RetainedOfZone
<1>4. Follows(pubs, FALSE)
  <2>1. Follows(pubs, c \in PanicKey)
    BY <1>1, <1>3, LineFollows DEF pubs
  <2>2. (c \in PanicKey) = FALSE
    BY DEF PanicKey
  <2> QED BY <2>1, <2>2
<1>5. /\ state.topic = Zone(z, "state")
      /\ state.payload = IF s = "OPEN" THEN "open" ELSE "closed"
      /\ condition.topic = Zone(z, "condition")
      /\ condition.payload = IF s = "OPEN" THEN "violated" ELSE "secure"
  BY Made
<1> HIDE DEF state, condition
<1>6. Zone(z, "state") # Zone(z, "condition")
  BY DEF Zone
<1>7. ShownTyped'
  <2>1. \A p \in Retained(pubs) : Proper(p.topic, p.payload)
    <3>1. Proper(state.topic, state.payload) /\ Proper(condition.topic, condition.payload)
      <4>1. z \in 0..99
        BY <1>1
      <4>2. state.payload \in {"open", "closed"} /\ condition.payload \in {"violated", "secure"}
        BY <1>5
      <4>3. /\ Proper(Zone(z, "state"), state.payload)
            /\ Proper(Zone(z, "condition"), condition.payload)
        BY <4>1, <4>2, ProperOfZone, Zenon
      <4> QED BY <1>5, <4>3, Zenon
    <3> QED BY <1>3, <3>1
  <2> QED BY <1>4, <2>1, TypedKept DEF ShownInv
<1>8. ZoneShown(z)'
  BY <1>3, <1>4, <1>5, <1>6 DEF Follows, ZoneShown, Shows
<1>9. ASSUME NEW y \in Zones \ {z} PROVE ZoneShown(y)'
  <2>1. Zone(y, "state") \notin {Zone(z, "state"), Zone(z, "condition")}
        /\ Zone(y, "condition") \notin {Zone(z, "state"), Zone(z, "condition")}
    BY DEF Zone
  <2>2. ZoneShown(y)
    BY DEF ShownInv
  <2> QED BY <1>3, <1>4, <1>5, <2>1, <2>2 DEF Follows, ZoneShown, Shows
<1>10. PartitionShown'
  <2>1. \A leaf : Partition(leaf) \notin {Zone(z, "state"), Zone(z, "condition")}
    BY DEF Zone, Partition
  <2>2. PartitionShown
    BY DEF ShownInv
  <2> QED BY <1>3, <1>4, <1>5, <2>1, <2>2 DEF Follows, PartitionShown, Shows
<1> QED BY <1>7, <1>8, <1>9, <1>10 DEF ShownInv

\* A status of the partition is reported with what it says of the partition's
\* being armed; one that says nothing leaves that as it was.
LEMMA PartitionLineShown ==
  ASSUME ShownInv, PanelInv', panel'.partition \in DOMAIN PartitionLine,
         panel'.zone = panel.zone,
         panel'.partition \in Indifferent => panel'.armed = panel.armed,
         Heard(PartitionLine[panel'.partition]) \/ Lost(PartitionLine[panel'.partition])
  PROVE  ShownInv'
<1> DEFINE s == panel'.partition
           pubs == Publications(PartitionLine[s], flood)
<1>1. /\ IsSequence(pubs)
      /\ State(StateOf(s)) \in Retained(pubs) /\ Hass(HassOf(s)) \in Retained(pubs)
      /\ s \notin Indifferent => Armed(ArmedOf(s)) \in Retained(pubs)
      /\ \A p \in Retained(pubs) :
           \/ p \in {State(StateOf(s)), Hass(HassOf(s))}
           \/ s \notin Indifferent /\ p = Armed(ArmedOf(s))
           \/ \E w \in Conditions : p = Condition(w)
  BY RetainedOfPartition
<1>2. Follows(pubs, FALSE)
  <2>1. Follows(pubs, PartitionLine[s].command \in PanicKey)
    BY <1>1, LineFollows
  <2>2. (PartitionLine[s].command \in PanicKey) = FALSE
    BY DEF PanicKey, PartitionLine
  <2> QED BY <2>1, <2>2
<1>3. \A w : /\ State(w).topic = Partition("state") /\ State(w).payload = w
             /\ Hass(w).topic = Partition("hass_state") /\ Hass(w).payload = w
             /\ Armed(w).topic = Partition("armed") /\ Armed(w).payload = w
             /\ Condition(w).topic = Partition("condition")
  BY Made DEF State, Hass, Armed, Condition
<1>4. s \notin Indifferent => ArmedOf(s) = IF panel'.armed THEN "1" ELSE "0"
  BY DEF PanelInv, ArmedOf, Indifferent
<1> HIDE DEF pubs
<1>5. \A p \in Retained(pubs) :
        \/ p.topic = Partition("state") /\ p.payload = StateOf(s)
        \/ p.topic = Partition("hass_state") /\ p.payload = HassOf(s)
        \/ s \notin Indifferent /\ p.topic = Partition("armed") /\ p.payload = ArmedOf(s)
        \/ p.topic = Partition("condition")
  BY <1>1, <1>3
<1>6. /\ Partition("state") # Partition("hass_state")
      /\ Partition("state") # Partition("armed")
      /\ Partition("state") # Partition("condition")
      /\ Partition("hass_state") # Partition("armed")
      /\ Partition("hass_state") # Partition("condition")
      /\ Partition("armed") # Partition("condition")
  BY DEF Partition
<1>7. ShownTyped'
  <2>1. \A p \in Retained(pubs) : Proper(p.topic, p.payload)
    BY PartitionIsProper DEF pubs
  <2> QED BY <1>2, <2>1, TypedKept DEF ShownInv
<1>8. PartitionShown'
  <2>1. Partition("state") \in DOMAIN shown' => shown'[Partition("state")] = StateOf(s)
    <3>1. \E p \in Retained(pubs) : p.topic = Partition("state")
      BY <1>1, <1>3 DEF pubs
    <3> QED BY <1>2, <1>5, <1>6, <3>1 DEF Follows
  <2>2. Partition("hass_state") \in DOMAIN shown' =>
          shown'[Partition("hass_state")] = HassOf(s)
    <3>1. \E p \in Retained(pubs) : p.topic = Partition("hass_state")
      BY <1>1, <1>3 DEF pubs
    <3> QED BY <1>2, <1>5, <1>6, <3>1 DEF Follows
  <2>3. CASE s \in Indifferent
    <3>1. Shows(Partition("armed"), IF panel.armed THEN "1" ELSE "0")
      BY DEF ShownInv, PartitionShown
    <3>2. Partition("armed") \in DOMAIN shown' \ misled' =>
            shown'[Partition("armed")] = IF panel'.armed THEN "1" ELSE "0"
      BY <1>2, <1>5, <1>6, <2>3, <3>1 DEF Follows, Shows
    <3> QED BY <2>1, <2>2, <3>2 DEF PartitionShown, Shows
  <2>4. CASE s \notin Indifferent
    <3>1. \E p \in Retained(pubs) : p.topic = Partition("armed")
      BY <1>1, <1>3, <2>4 DEF pubs
    <3>2. Partition("armed") \in DOMAIN shown' => shown'[Partition("armed")] = ArmedOf(s)
      BY <1>2, <1>5, <1>6, <3>1 DEF Follows
    <3> QED BY <1>4, <2>1, <2>2, <2>4, <3>2 DEF PartitionShown, Shows
  <2> QED BY <2>3, <2>4
<1>9. ASSUME NEW y \in Zones PROVE ZoneShown(y)'
  <2>1. \A leaf, other : Partition(leaf) # Zone(y, other)
    BY DEF Zone, Partition
  <2>2. ZoneShown(y)
    BY DEF ShownInv
  <2> QED BY <1>2, <1>5, <2>1, <2>2 DEF Follows, ZoneShown, Shows
<1> QED BY <1>7, <1>8, <1>9 DEF ShownInv

\* The panic key's lines mislead about the partition, and about nothing else.
LEMMA PanicLineShown ==
  ASSUME ShownInv, UNCHANGED panel, NEW c \in PanicKey, NEW n,
         Heard([command |-> c, at |-> n]) \/ Lost([command |-> c, at |-> n])
  PROVE  ShownInv'
<1> DEFINE pubs == Publications([command |-> c, at |-> n], flood)
<1>1. PICK s \in {"READY", "NOT_READY"} : pubs = Publications(PartitionLine[s], flood)
  BY PublicationsOfPanicKey
<1>2. s \in DOMAIN PartitionLine
  BY DEF PartitionLine
<1>3. /\ IsSequence(pubs)
      /\ \A p \in Retained(pubs) :
           \/ \E w : p \in {State(w), Hass(w), Armed(w), Condition(w)}
  BY <1>1, <1>2, RetainedOfPartition
<1>4. Follows(pubs, TRUE)
  <2>1. Follows(pubs, c \in PanicKey)
    BY <1>3, LineFollows
  <2>2. (c \in PanicKey) = TRUE
    OBVIOUS
  <2> QED BY <2>1, <2>2
<1>5. \A p \in Retained(pubs) : Proper(p.topic, p.payload)
  BY <1>1, <1>2, PartitionIsProper
<1> HIDE DEF pubs
<1>6. \A p \in Retained(pubs) : \E leaf : p.topic = Partition(leaf)
  BY <1>3, Made DEF State, Hass, Armed, Condition
<1>7. ShownTyped'
  BY <1>4, <1>5, TypedKept DEF ShownInv
<1>8. ASSUME NEW y \in Zones PROVE ZoneShown(y)'
  <2>1. \A leaf, other : Partition(leaf) # Zone(y, other)
    BY DEF Zone, Partition
  <2>2. ZoneShown(y)
    BY DEF ShownInv
  <2> QED BY <1>4, <1>6, <2>1, <2>2 DEF Follows, ZoneShown, Shows
<1>9. PartitionShown'
  <2>1. PartitionShown
    BY DEF ShownInv
  <2> QED BY <1>4, <2>1 DEF Follows, PartitionShown, Shows
<1> QED BY <1>7, <1>8, <1>9 DEF ShownInv

LEMMA OtherLineShown ==
  ASSUME ShownInv, UNCHANGED panel, NEW c \in Others \ PanicKey, NEW z \in Zones,
         Heard([command |-> c, at |-> z]) \/ Lost([command |-> c, at |-> z])
  PROVE  ShownInv'
<1> DEFINE pubs == Publications([command |-> c, at |-> z], flood)
<1>1. /\ c \notin {"ZONE_OPEN", "ZONE_RESTORED"} /\ z \in Nat
      /\ \A s \in DOMAIN PartitionLine : PartitionLine[s].command # c
      /\ z \in 0..99 /\ z \div 10 \in 0..99
  BY ViewAssumption DEF ViewAssumption
<1>2. /\ IsSequence(pubs)
      /\ \A p \in Retained(pubs) : \E y \in {z, z \div 10} : Harmless(p, y)
  BY <1>1, RetainedOfOther
<1>3. Follows(pubs, FALSE)
  <2>1. Follows(pubs, c \in PanicKey)
    BY <1>2, LineFollows
  <2>2. (c \in PanicKey) = FALSE
    OBVIOUS
  <2> QED BY <2>1, <2>2
<1> HIDE DEF pubs
<1>4. ShownTyped'
  <2>1. \A p \in Retained(pubs) : Proper(p.topic, p.payload)
    BY <1>1, <1>2, ProperOfZone, ProperOfOthers DEF Harmless
  <2> QED BY <1>3, <2>1, TypedKept DEF ShownInv
<1>5. ASSUME NEW y \in Zones PROVE ZoneShown(y)'
  <2>1. /\ \A x, leaf : Zone(y, "state") # Zone(x, "condition") /\ Zone(y, leaf) # Misnamed("event")
                        /\ Zone(y, leaf) # Misnamed("condition")
    BY DEF Zone, Misnamed
  <2>2. ZoneShown(y)
    BY DEF ShownInv
  <2> QED BY <1>2, <1>3, <2>1, <2>2 DEF Follows, ZoneShown, Shows, Harmless
<1>6. PartitionShown'
  <2>1. \A leaf, x, other : Partition(leaf) # Zone(x, other) /\ Partition(leaf) # Misnamed(other)
    BY DEF Zone, Partition, Misnamed
  <2>2. PartitionShown
    BY DEF ShownInv
  <2> QED BY <1>2, <1>3, <2>1, <2>2 DEF Follows, PartitionShown, Shows, Harmless
<1> QED BY <1>4, <1>5, <1>6 DEF ShownInv

LEMMA ShownKept ==
  ASSUME PanelInv, PanelInv', ShownInv, [Next]_vars
  PROVE  ShownInv'
<1>1. CASE UNCHANGED <<panel, shown, misled>>
  <2>1. panel' = panel /\ shown' = shown /\ misled' = misled
    BY <1>1
  <2> QED BY <2>1 DEF ShownInv, ShownTyped, ZoneShown, PartitionShown, Shows
<1>2. ASSUME NEW thing \in Things, AnswerReports(thing) PROVE ShownInv'
  <2>1. panel' = panel /\ (Heard(LineOf(thing)) \/ Lost(LineOf(thing)))
    BY <1>2, Zenon DEF AnswerReports
  <2>2. CASE thing = 0
    <3>1. panel.partition \in DOMAIN PartitionLine
      BY ViewAssumption DEF ViewAssumption, PanelInv
    <3>2. LineOf(thing) = PartitionLine[panel.partition]
      BY <2>2 DEF LineOf
    <3> QED BY <2>1, <3>1, <3>2, PartitionLineShown
  <2>3. CASE thing # 0
    <3>1. thing \in Zones /\ LineOf(thing) = ZoneLine(thing, panel.zone[thing])
      BY <2>3 DEF LineOf, Things
    <3>2. panel.zone[thing] \in {"OPEN", "RESTORED"}
      BY <3>1 DEF PanelInv
    <3> QED BY <2>1, <3>1, <3>2, ZoneLineShown
  <2> QED BY <2>2, <2>3
<1>3. ASSUME NEW z \in Zones, ZoneChanges(z) PROVE ShownInv'
  <2>1. PICK s \in {"OPEN", "RESTORED"} :
          panel' = [panel EXCEPT !.zone[z] = s] /\ Sends(ZoneLine(z, s))
    BY <1>3 DEF ZoneChanges
  <2>2. /\ panel' = [panel EXCEPT !.zone = [panel.zone EXCEPT ![z] = s]]
        /\ panel.zone \in [Zones -> {"OPEN", "RESTORED"}]
        /\ panel \in [zone : [Zones -> {"OPEN", "RESTORED"}], partition : Statuses,
                      armed : BOOLEAN]
    BY <2>1 DEF PanelInv
  <2>3. /\ panel'.zone[z] = s /\ \A y \in Zones \ {z} : panel'.zone[y] = panel.zone[y]
        /\ panel'.partition = panel.partition /\ panel'.armed = panel.armed
    BY <2>2
  <2>4. Heard(ZoneLine(z, s)) \/ Lost(ZoneLine(z, s))
    BY <2>1, Zenon DEF Sends
  <2> QED BY <2>3, <2>4, ZoneLineShown
<1>4. ASSUME NEW s \in Statuses, PartitionChanges(s) PROVE ShownInv'
  <2> DEFINE a == IF s \in Indifferent THEN panel.armed ELSE s \in {"ARMED_AWAY", "ARMED_STAY"}
  <2>1. panel' = [panel EXCEPT !.partition = s, !.armed = a] /\ Sends(PartitionLine[s])
    BY <1>4 DEF PartitionChanges, Indifferent
  <2>2. s \in Indifferent => a = panel.armed
    OBVIOUS
  <2> HIDE DEF a
  <2>3. panel'.partition = s /\ panel'.zone = panel.zone /\ panel'.armed = a
    BY <2>1 DEF PanelInv
  <2>4. Heard(PartitionLine[s]) \/ Lost(PartitionLine[s])
    BY <2>1, Zenon DEF Sends
  <2>5. s \in DOMAIN PartitionLine
    BY ViewAssumption DEF ViewAssumption
  <2> QED BY <2>2, <2>3, <2>4, <2>5, PartitionLineShown
<1>5. ASSUME NEW c \in Others, NEW z \in Zones, OtherLine([command |-> c, at |-> z])
      PROVE  ShownInv'
  <2>1. /\ UNCHANGED panel
        /\ Heard([command |-> c, at |-> z]) \/ Lost([command |-> c, at |-> z])
    BY <1>5, Zenon DEF OtherLine, Sends
  <2> QED BY <2>1, OtherLineShown, PanicLineShown
<1>6. CASE Connected \/ Disconnected \/ AnswerBegins \/ MqttFails \/ MqttReturns
           \/ UNCHANGED vars
  <2>1. UNCHANGED <<panel, shown, misled>>
    BY <1>6, Zenon DEF Connected, Disconnected, AnswerBegins, MqttFails, MqttReturns, vars
  <2> QED BY <1>1, <2>1
<1> QED BY <1>2, <1>3, <1>4, <1>5, <1>6, Zenon DEF Next

LEMMA ShownHolds == Spec => []ShownInv
<1>1. Init => ShownInv
  <2> SUFFICES ASSUME Init PROVE ShownInv
    OBVIOUS
  <2>1. DOMAIN shown = {} /\ misled = {}
    BY DEF Init
  <2> QED BY <2>1 DEF ShownInv, ShownTyped, ZoneShown, PartitionShown, Shows
<1>2. PanelInv /\ PanelInv' /\ ShownInv /\ [Next]_vars => ShownInv'
  BY ShownKept
<1> QED BY <1>1, <1>2, PanelHolds, PTL DEF Spec

\* Whatever is lost on the way, of lines or of publications, in whatever order,
\* and whatever else the panel sends: what the broker retains is true of the
\* panel where its last retained publication arrived and is not the panic key's,
\* and armed agrees with the panel through delays and alarms.
THEOREM RetainedStaysTrue == Spec => []RetainedIsTrue
<1>1. ShownInv => RetainedIsTrue
  BY DEF ShownInv, ZoneShown, PartitionShown, RetainedIsTrue
<1> QED BY <1>1, ShownHolds, PTL

\* No line the panel can send, cut short or not, leaves a retained topic other
\* than the bridge's, nor under one of those a value that is another's.
THEOREM TypeCorrect == Spec => []TypeOK
<1> DEFINE Rest == todo \subseteq Things /\ mqtt \in BOOLEAN /\ panicked \in BOOLEAN
<1>1. Init => Rest
  BY DEF Init
<1>2. Rest /\ [Next]_vars => Rest'
  <2> SUFFICES ASSUME Rest, [Next]_vars PROVE Rest'
    OBVIOUS
  <2>1. \A pubs : Publish(pubs) => mqtt' \in BOOLEAN
    BY DEF Publish
  <2>2. mqtt' \in BOOLEAN
    BY <2>1, Zenon DEF Next, Connected, Disconnected, AnswerBegins, AnswerReports, ZoneChanges,
       PartitionChanges, OtherLine, Sends, Heard, Lost, MqttFails, MqttReturns, vars
  <2>3. panicked' \in {panicked, FALSE} \/ \E l : panicked' = (panicked \/ l.command \in PanicKey)
    BY DEF Next, Connected, Disconnected, AnswerBegins, AnswerReports, ZoneChanges,
       PartitionChanges, OtherLine, Sends, Heard, Lost, MqttFails, MqttReturns, vars
  <2>4. panicked' \in BOOLEAN
    BY <2>3
  <2>5. todo' \in {todo, {}, Things} \/ \E thing \in Things : todo' = todo \ {thing}
    BY DEF Next, Connected, Disconnected, AnswerBegins, AnswerReports, ZoneChanges,
       PartitionChanges, OtherLine, Sends, MqttFails, MqttReturns, vars
  <2>6. todo' \subseteq Things
    BY <2>5
  <2> QED BY <2>2, <2>4, <2>6
<1>3. PanelInv /\ FloodInv /\ ShownInv /\ Rest => TypeOK
  BY DEF PanelInv, FloodInv, Answering, ShownInv, ShownTyped, Proper, TypeOK
<1> QED BY <1>1, <1>2, <1>3, PanelHolds, FloodHolds, ShownHolds, PTL DEF Spec
=============================================================================
