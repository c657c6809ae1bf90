SPECIFICATION FairSpec
CONSTANTS
  t1 = t1
  t2 = t2
  t3 = t3
  NoThread = NoThread
  Frames = 1
  MaxPending = 1
  Threads <- MCThreads
  Tracers <- MCTwoThreads
  Listers <- MCNobody
INVARIANTS
  TypeOK
  
  TraceOfTargetUnlessLate
PROPERTIES
  TraceLockReleased
