SPECIFICATION FairSpec
CONSTANTS
  NCrims = 2
  NChannels = 2
  CrimOf <- MCCrimOf
  RunModes = {"NuMIBeam", "MixedBeamPedestal", "OneShot"}
  NumberOfGates = 2
  MaxRuns = 2
  MaxSpills = 2
  VMEFaults = TRUE
INVARIANTS TypeOK GateCoherent LatchedWhileReading GatesReadOnceInOrder
PROPERTIES QuitEndsRun AllGatesRead
