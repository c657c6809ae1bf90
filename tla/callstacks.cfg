SPECIFICATION Spec
CONSTANTS
  LocalStacks <- MCLocal
  RemoteStacks <- MCRemote
  MaxStacks = 3
INVARIANTS
  TreeMatchesStacks
  PackRoundTrip
  
  CleanupKeepsCounts
  CleanupCombines
CHECK_DEADLOCK FALSE
