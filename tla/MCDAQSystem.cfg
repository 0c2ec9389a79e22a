SPECIFICATION Spec
CONSTANTS
  NEvents = 2
  NumberOfGates = 2
  NChannels = 2
  BlockLengths = {1000}
  GlobalGate0 = 7
  MaxRuns = 2
  MetadataFiles = {}
  FileNames = {"fresh", "reused"}
  WaitForReady = TRUE
  Faults = {"HW", "Crash"}
  EBFaults = TRUE
INVARIANTS TypeOK RawIsPrefix SentinelMeansComplete StreamInOrder SentinelIsComing
PROPERTY RawFileIsRunRecord
