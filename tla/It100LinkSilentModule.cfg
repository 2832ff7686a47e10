CONSTANTS
  Commands <- MCCommands
  Faults = {"mute"}
  MaxPending = 1
  MaxInFlight = 1
SPECIFICATION FairSpec
PROPERTY
  FailureSignalled
