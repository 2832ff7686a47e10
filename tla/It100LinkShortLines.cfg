CONSTANTS
  Commands <- MCCommands
  Faults = {}
  MaxPending = 1
  MaxInFlight = 1
SPECIFICATION FairSpec
PROPERTY
  RejectsOnlyShort
