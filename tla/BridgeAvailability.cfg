CONSTANTS
  Commands <- MCOneCommand
  Faults = {"drop"}
  MaxFrames = 3
SPECIFICATION Spec
INVARIANTS
  OnlineWhenCommunicating
