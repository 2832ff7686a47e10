---------------------------- MODULE PanelReports ----------------------------
(***************************************************************************)
(* The lines of the IT-100 module, what IT100 makes of them (it100.cpp,    *)
(* processReceivedLine: signals), and what the bridge's slots make of      *)
(* those (it100mqtt.cpp: publications).                                    *)
(*                                                                         *)
(* A line is a command, by the name the source has for it, and what its    *)
(* data say: a zone, or the mode of PARTITION_ARMED_DESCRIPTIVE_MODE.  The *)
(* partition is always the first: its number goes into topics, and into    *)
(* nothing else.  The code compares numbers, and two of them have two      *)
(* names each (it100commands.h:59-64): see PartitionStatus.                *)
(***************************************************************************)
EXTENDS Naturals, Sequences

---------------------------------------------------------------------------
(* Decoding.                                                               *)

\* The commands that become zoneStatusChanged, and the status it carries.
ZoneStatus ==
  [ZONE_OPEN   |-> "OPEN",   ZONE_RESTORED       |-> "RESTORED",
   ZONE_TAMPER |-> "TAMPER", ZONE_TAMPER_RESTORE |-> "TAMPER_RESTORED",
   ZONE_FAULT  |-> "FAULT",  ZONE_FAULT_RESTORE  |-> "FAULT_RESTORED",
   ZONE_ALARM  |-> "ALARM",  ZONE_ALARM_RESTORE  |-> "ALARM_RESTORED"]

\* A zone's number has three digits, of which zoneOpen and its like, where it
\* is all the data, drop the first.  An alarm, where it follows the partition,
\* takes the first two.
ZoneOf(l) ==
  IF l.command \in {"ZONE_ALARM", "ZONE_ALARM_RESTORE"} THEN l.at \div 10 ELSE l.at

\* The panic key's lines.  Their codes, 625 and 626, are also those by which
\* the code knows that the partition is not ready and that it is ready.
PanicKey == {"P_KEY_ALARM", "P_KEY_RESTORAL"}

\* The commands that become partitionStatusChanged, the panic key's by their
\* codes.  (If the module sends those without data, they are too short to be
\* accepted, and are as if they had not come.)
PartitionStatus ==
  [PARTITION_DISARMED |-> "DISARMED", PARTITION_IN_ALARM |-> "ALARM",
   PARTITION_IN_READY_TO_FORCE_ALARM |-> "READY_FORCE_ARM",
   PARTITION_READY |-> "READY", PARTITION_NOT_READY |-> "NOT_READY",
   P_KEY_RESTORAL  |-> "READY", P_KEY_ALARM         |-> "NOT_READY",
   PARTITION_BUSY |-> "BUSY",
   EXIT_DELAY_IN_PROGRESS |-> "EXIT_DELAY", ENTRY_DELAY_IN_PROGRESS |-> "ENTRY_DELAY",
   USER_CLOSING |-> "USER_CLOSING", PARTIAL_CLOSING |-> "PARTIAL_CLOSING",
   SPECIAL_CLOSING |-> "PARTIAL_CLOSING",
   INVALID_ACCESS_CODE |-> "INVALID_ACCESS_CODE",
   FUNCTION_NOT_AVAILABLE |-> "FUNCTION_NOT_AVAILABLE"]

\* Those that become userEvent, before any partitionStatusChanged: an invalid
\* code is announced as a closing, by user -1.
UserEvent ==
  [USER_CLOSING |-> "UserClosing", USER_OPENING |-> "UserOpening",
   INVALID_ACCESS_CODE |-> "UserClosing"]

\* Those that become troubleEvent and are published.  The telephone line, FTC,
\* event buffer, key battery and home automation troubles are not.
Trouble ==
  [PANEL_BATTERY_TROUBLE  |-> "trouble_panel_battery",
   PANEL_BATTERY_TROUBLE_RESTORE |-> "trouble_panel_battery_restore",
   PANEL_AC_TROUBLE       |-> "trouble_panel_ac",
   PANEL_AC_RESTORE       |-> "trouble_panel_ac_restore",
   SYSTEM_BELL_TROUBLE    |-> "trouble_panel_bell",
   SYSTEM_BELL_TROUBLE_RESTORAL  |-> "trouble_panel_bell_restore",
   GENERAL_SYSTEM_TAMPER  |-> "trouble_general_tamper",
   GENERAL_SYSTEM_TAMPER_RESTORE |-> "trouble_general_tamper_restore",
   GENERAL_DEVICE_LOW_BATTERY    |-> "trouble_general_device_low_battery",
   GENERAL_DEVICE_LOW_BATTERY_RESTORE |-> "trouble_general_device_low_battery_restore"]

\* The low batteries of devices carry data; the others are too short a line.
Accepts(command) ==
  command \in DOMAIN Trouble =>
    command \in {"GENERAL_DEVICE_LOW_BATTERY", "GENERAL_DEVICE_LOW_BATTERY_RESTORE"}

---------------------------------------------------------------------------
(* Publications.  The slots write them in the order given.  A definition   *)
(* whose comment says "Faulty" is a slip in the one after it.              *)

Say(topic, payload) == [topic |-> topic, payload |-> payload, retain |-> FALSE]

\* Faulty: retain is left at its default.
KeepNot(topic, payload) == Say(topic, payload)

Keep(topic, payload) == [topic |-> topic, payload |-> payload, retain |-> TRUE]

\* A topic is a tree, a number in it (or 0), and a leaf.
Zone(z, leaf)  == <<"zone", z, leaf>>
Misnamed(leaf) == <<"zone/PREFIX", 0, leaf>>
System(leaf)   == <<"", 0, leaf>>

\* Faulty: %1 stands twice in the topic's pattern.
PartitionMisnamed(leaf) == <<"partition/PREFIX", 0, leaf>>

Partition(leaf) == <<"partition", 1, leaf>>

\* Faulty: a slot does not ask for the flood.
UnlessNever(flood, event) == <<event>>

\* An event, unless the flood of a status answer is under way.
Unless(flood, event) == IF flood THEN <<>> ELSE <<event>>

\* onIt100ZoneStatusChange.  The fault's topics have no zone: %1 stands twice
\* in them, and is the prefix.
ZonePublications(z, s, flood) ==
  CASE s = "ALARM" ->
         Unless(flood, Say(Zone(z, "event"), "alarm")) \o <<Keep(Zone(z, "condition"), "alarm")>>
    [] s = "ALARM_RESTORED" ->
         <<Say(Zone(z, "event"), "alarm_restored"), Say(<<"alarm", 0, "event">>, "alarm_restored")>>
    [] s = "OPEN" ->
         Unless(flood, Say(Zone(z, "event"), "violated"))
           \o <<Keep(Zone(z, "state"), "open"), Keep(Zone(z, "condition"), "violated")>>
    [] s = "RESTORED" ->
         Unless(flood, Say(Zone(z, "event"), "restored"))
           \o <<Keep(Zone(z, "state"), "closed"), Keep(Zone(z, "condition"), "secure")>>
    [] s = "TAMPER" ->
         Unless(flood, Say(Zone(z, "event"), "tamper")) \o <<Keep(Zone(z, "condition"), "tamper")>>
    [] s = "TAMPER_RESTORED" -> Unless(flood, Say(Zone(z, "event"), "tamper_restored"))
    [] s = "FAULT" ->
         Unless(flood, Keep(Misnamed("event"), "fault"))
           \o <<Keep(Misnamed("condition"), "fault")>>
    [] s = "FAULT_RESTORED" -> Unless(flood, Say(Zone(z, "event"), "fault_restored"))

\* The retained topics of a partition that are written with a status.
Armed(payload)     == Keep(Partition("armed"), payload)
State(payload)     == Keep(Partition("state"), payload)
Hass(payload)      == Keep(Partition("hass_state"), payload)
Condition(payload) == Keep(Partition("condition"), payload)
Event(payload)     == Say(Partition("event"), payload)

\* onIt100PartitionStatusChange, the statuses a partition has.  The condition
\* "ready" is not retained.
PartitionPublications(s, flood) ==
  CASE s = "ALARM" ->
         Unless(flood, Event("alarm"))
           \o <<State("alarm"), Hass("triggered"), Condition("alarm")>>
    [] s = "DISARMED" ->
         Unless(flood, Event("disarmed"))
           \o <<Hass("disarmed"), Armed("0"), State("disarmed")>>
    [] s = "READY" ->
         Unless(flood, Event("disarmed"))
           \o <<Armed("0"), Hass("disarmed"), State("disarmed"),
                Say(Partition("condition"), "ready")>>
    [] s = "NOT_READY" ->
         Unless(flood, Event("not_ready"))
           \o <<Armed("0"), Hass("disarmed"), State("disarmed"), Condition("not_ready")>>
    [] s = "BUSY" ->
         Unless(flood, Event("busy"))
           \o <<Armed("0"), Hass("disarmed"), State("busy"), Condition("busy")>>
    [] s = "READY_FORCE_ARM" ->
         Unless(flood, Event("ready_force_arm"))
           \o <<Armed("0"), Hass("disarmed"), State("disarmed"),
                Condition("ready_force_arm")>>
    [] s = "EXIT_DELAY" ->
         Unless(flood, Event("exit_delay"))
           \o <<Hass("arming"), State("exit_delay"), Condition("exit_delay")>>
    [] s = "ENTRY_DELAY" ->
         Unless(flood, Event("entry_delay"))
           \o <<Hass("pending"), State("entry_delay"), Condition("entry_delay")>>

\* The same, the statuses that are events only.  USER_CLOSING has no case.
ClosingPublications(s) ==
  CASE s = "PARTIAL_CLOSING" -> <<Event("partial_closing")>>
    [] s = "SPECIAL_CLOSING" -> <<Event("special_closing")>>
    [] s = "INVALID_ACCESS_CODE" -> <<Event("invalid_access_code")>>
    [] s = "FUNCTION_NOT_AVAILABLE" -> <<Event("function_not_available")>>
    [] s = "USER_CLOSING" -> <<>>

\* Faulty: the flag is left to the partition's status.
ArmedPublicationsNoFlag(mode, flood) ==
  LET name == IF mode \in {1, 3} THEN "armed_stay" ELSE "armed_away"
      hass == IF mode \in {1, 3} THEN "armed_home" ELSE "armed_away"
  IN Unless(flood, Event(name)) \o <<State(name), Hass(hass)>>

\* onIt100PartitionArmedDescriptive: modes 1 and 3 are "stay".
ArmedPublications(mode, flood) ==
  LET name == IF mode \in {1, 3} THEN "armed_stay" ELSE "armed_away"
      hass == IF mode \in {1, 3} THEN "armed_home" ELSE "armed_away"
  IN Unless(flood, Event(name)) \o <<Armed("1"), State(name), Hass(hass)>>

\* processIt100UserEvent
UserPublications(type) ==
  <<Say(Partition(IF type = "UserOpening" THEN "user_disarmed" ELSE "user_armed"), "user"),
    Say(Partition("user_event"), type)>>

\* All a line brings about, while flood: the slots in the order of the signals.
Publications(l, flood) ==
  LET c == l.command IN
  IF ~Accepts(c) THEN <<>>
  ELSE
  CASE c \in DOMAIN ZoneStatus -> ZonePublications(ZoneOf(l), ZoneStatus[c], flood)
    [] c = "PARTITION_ARMED_DESCRIPTIVE_MODE" -> ArmedPublications(l.at, flood)
    [] c \in DOMAIN Trouble -> <<Say(System("event"), Trouble[c])>>
    [] OTHER ->
         (IF c \in DOMAIN UserEvent THEN UserPublications(UserEvent[c]) ELSE <<>>)
           \o (IF c \notin DOMAIN PartitionStatus THEN <<>>
               ELSE IF PartitionStatus[c] \in {"ALARM", "DISARMED", "READY", "NOT_READY",
                         "BUSY", "READY_FORCE_ARM", "EXIT_DELAY", "ENTRY_DELAY"}
                    THEN PartitionPublications(PartitionStatus[c], flood)
                    ELSE ClosingPublications(PartitionStatus[c]))
=============================================================================
