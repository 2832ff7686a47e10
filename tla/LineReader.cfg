CONSTANTS
  Messages <- MCMessages
  MaxPackets = 4
SPECIFICATION Spec
INVARIANTS
  TypeOK
  LinesAreSent
  LinesVerify
