---------------------------- MODULE MCPanelView ----------------------------
(***************************************************************************)
(* Instances of PanelView for TLC: the zone that ends an answer, and the   *)
(* partition beside it.                                                    *)
(***************************************************************************)
EXTENDS PanelView

MCZones == {64}

\* Those that are published each in a way of its own: the flag is set, reset or
\* left alone, and the state with it.  ARMED_STAY differs from ARMED_AWAY, and
\* the rest from DISARMED, in payloads; the lines of the panic key are published
\* as those of NOT_READY are.
MCStatuses == {"DISARMED", "ARMED_AWAY", "ALARM", "EXIT_DELAY", "ENTRY_DELAY"}

\* P_KEY_RESTORAL differs from P_KEY_ALARM in the condition alone.
MCOthers == {"ZONE_TAMPER", "P_KEY_ALARM"}

MCArmedOrNot == {"DISARMED", "ARMED_AWAY"}
=============================================================================
