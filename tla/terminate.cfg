SPECIFICATION FairSpec
CONSTANTS
  t1 = t1
  t2 = t2
  NoThread = NoThread
  Threads <- MCThreads
  Main = t1
  ThrowException = FALSE
  SignalPoints <- MCAnywhere
  MaxFailures = 2
INVARIANTS
  TypeOK
  OneReport
  
  
CHECK_DEADLOCK FALSE
PROPERTIES
  FailureEndsUnlessOwnerInterrupted
