SPECIFICATION Spec
CONSTANTS
  NEvents = 2
  MaxMsgs = 2
  MaxBuilders = 1
  MaxProducers = 1
  MaxFailures = 0
  TempChoices = {TRUE}
  CrashAt = {}
PROPERTY SentinelThenQuit
CHECK_DEADLOCK FALSE
