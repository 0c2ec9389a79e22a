SPECIFICATION Spec
CONSTANTS
  NEvents = 2
  MaxMsgs = 3
  MaxBuilders = 2
  MaxProducers = 2
  MaxFailures = 1
  TempChoices = {TRUE, FALSE}
  CrashAt <- CrashPoints
INVARIANTS EventsConserved TempsAccounted IdleStationEmpty OnlyDetachDeadlocks NoGhostAttachment
PROPERTY ImplementsContract
CHECK_DEADLOCK FALSE
