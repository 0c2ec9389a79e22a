SPECIFICATION Spec
CONSTANTS
  NEvents = 2
  NumberOfGates = 1
  NChannels = 1
  BlockLengths = {1000, 70000}
  GlobalGate0 = 7
  MaxRuns = 1
  MetadataFiles = {}
  FileNames = {"fresh"}
  WaitForReady = TRUE
  Faults = {}
  EBFaults = FALSE
INVARIANT BlocksWhole
