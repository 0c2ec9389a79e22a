SPECIFICATION FairSpec
CONSTANTS
  NEvents = 2
  NumberOfGates = 2
  NChannels = 1
  BlockLengths = {1000}
  GlobalGate0 = 7
  MaxRuns = 1
  MetadataFiles = {"SAMPY"}
  FileNames = {"fresh"}
  WaitForReady = TRUE
  Faults = {"HW", "File", "DB", "Crash"}
  EBFaults = FALSE
INVARIANTS QuitsAtSentinel MetadataMatchesHeaders
PROPERTIES QuitLeadsToExit SentinelStopsBuilder SignalStopsBuilder
