SPECIFICATION FairSpec
CONSTANTS
  NCrims = 2
  NChannels = 2
  CrimOf <- MCCrimOf
  RunModes = {"NuMIBeam"}
  NumberOfGates = 1
  MaxRuns = 1
  MaxSpills = 1
  VMEFaults = TRUE
PROPERTY BusErrorEndsRun
