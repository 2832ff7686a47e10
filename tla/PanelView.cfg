CONSTANTS
  Zones <- MCZones
  LastZone = 64
  Statuses <- MCStatuses
  Others <- MCOthers
  Faults = {"mqtt", "link", "line"}
SPECIFICATION FairSpec
INVARIANTS
  TypeOK
  RetainedIsTrue
  AnswersAreQuiet
  FloodEndsWithAnswer
PROPERTIES
  StatusRestates
