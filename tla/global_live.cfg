SPECIFICATION FairSpec
CONSTANTS
  r1 = r1
  r2 = r2
  tagA = tagA
  tagB = tagB
  None = None
  Ranks <- MCTwoRanks
  Root = r1
  Tags <- MCOneTag
  Supported = TRUE
  SendModes = {"buffer", "wait"}
  MaxThreads = 2
  MaxCalls = 2
PROPERTIES
  
  CallEnds
  FinalizeEndsUnlessUnwanted
CHECK_DEADLOCK FALSE
