CONSTANTS
  Base = 4
  PUBLISH = 3
  Messages <- MCMessages
  Answers <- MCAnswers
  MaxFrames = 2
SPECIFICATION FairSpec
INVARIANTS
  TypeOK
  FramesAsSent
  AcksNameTheirMessage
PROPERTIES
  FramesArrive
