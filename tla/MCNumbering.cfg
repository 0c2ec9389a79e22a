SPECIFICATION Spec
CONSTANTS
  NEvents = 1
  NumberOfGates = 2
  NChannels = 1
  BlockLengths = {1000}
  GlobalGate0 = 9
  MaxRuns = 2
  MetadataFiles = {}
  FileNames = {"fresh"}
  WaitForReady = TRUE
  Faults = {"HW", "File", "DB", "Crash"}
  EBFaults = FALSE
INVARIANTS GlobalGatesIncrease RunRangesMeetAtMostOnce DBRowCoversHeaders
