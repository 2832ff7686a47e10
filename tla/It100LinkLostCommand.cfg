CONSTANTS
  Commands <- MCCommands
  Faults = {"lose"}
  MaxPending = 1
  MaxInFlight = 1
SPECIFICATION FairSpec
PROPERTY
  PollGoesOut
