SPECIFICATION FairSpec
CONSTANTS
  NChannels = 2
  MaxFEBs = 2
  Chains <- MCChains
  Requests <- MCRequests
  FrameLengths = {40, 130}
  UShort = 200
  HeaderFaults = TRUE
  MaxRuns = 2
  MaxGates = 2
INVARIANTS TypeOK AvailableMeansPresent SequencersMatchBoards BlocksMatchBoards FramesRecovered
PROPERTY LoopsEnd
