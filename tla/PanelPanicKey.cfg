CONSTANTS
  Zones <- MCZones
  LastZone = 64
  Statuses <- MCArmedOrNot
  Others = {"P_KEY_ALARM"}
  Faults = {}
SPECIFICATION Spec
INVARIANTS
  ArmedIsTold
