CONSTANTS
  Commands <- MCCommands
  Faults = {"drop", "mute"}
  MaxPending = 2
  MaxInFlight = 1
SPECIFICATION FairSpec
PROPERTIES
  Reconnects
  CommandSent
  FloodEnds
  FailureFound
  SilenceDetected
