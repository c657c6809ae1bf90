SPECIFICATION Spec
CONSTANTS
  LocalStacks <- MCAliased
  RemoteStacks <- MCNoStacks
  MaxStacks = 4
INVARIANT
  CleanupKeepsCounts
CHECK_DEADLOCK FALSE
