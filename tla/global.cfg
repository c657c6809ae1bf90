SPECIFICATION Spec
CONSTANTS
  r1 = r1
  r2 = r2
  tagA = tagA
  tagB = tagB
  None = None
  Ranks <- MCTwoRanks
  Root = r1
  Tags <- MCTwoTags
  Supported = TRUE
  SendModes = {"buffer", "wait"}
  MaxThreads = 2
  MaxCalls = 2
INVARIANTS
  TypeOK
  
  
  FullHasEveryRank
  CommFreedAfterMonitor
CHECK_DEADLOCK FALSE
