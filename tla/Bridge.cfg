CONSTANTS
  Commands <- MCCommands
  Faults = {"refuse", "reject", "drop", "cut", "crash"}
  MaxFrames = 3
SPECIFICATION FairSpec
INVARIANTS
  TypeOK
  ConnectFirst
  WillCovers
  OnlineIsFounded
  ReadyWhenBothUp
  CommandAtMostOnce
PROPERTIES
  DeadPathFound
  MqttReturns
  AvailabilityFallsBack
