CONSTANTS
  Commands = {}
  Faults = {"refuse", "drop", "lose"}
  MaxPending = 3
  MaxInFlight = 1
SPECIFICATION Spec
INVARIANTS
  TypeOK
  NoIdleBacklog
  PingPong
  KeyBreakFollows
  ProbeBeforeTimeout
  GoodIsCurrent
PROPERTIES
  ImplementsPipe
  ImplementsSignals
CHECK_DEADLOCK FALSE
