CONSTANTS
  Commands <- MCCommands
  Faults = {"refuse"}
  MaxPending = 1
  MaxInFlight = 1
SPECIFICATION FairSpec
PROPERTY
  NeverGiveUp
CHECK_DEADLOCK FALSE
