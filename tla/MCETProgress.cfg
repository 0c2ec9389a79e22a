SPECIFICATION Spec
CONSTANTS
  NEvents = 2
  MaxMsgs = 3
  MaxBuilders = 2
  MaxProducers = 1
  MaxFailures = 1
  TempChoices = {TRUE, FALSE}
  CrashAt <- CrashPoints
PROPERTIES NewReturns BuilderLeaves
CHECK_DEADLOCK FALSE
