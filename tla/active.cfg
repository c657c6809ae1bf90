SPECIFICATION Spec
CONSTANTS
  t1 = t1
  t2 = t2
  t3 = t3
  NoThread = NoThread
  Frames = 2
  MaxPending = 2
  Threads <- MCThreads
  Tracers <- MCNobody
  Listers <- MCTwoThreads
SYMMETRY MCCallers
INVARIANTS
  FatalOnlyIfLate
  
