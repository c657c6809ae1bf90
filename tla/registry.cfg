SPECIFICATION Spec
CONSTANTS
  t1 = t1
  t2 = t2
  t3 = t3
  NoThread = NoThread
  Capacity = 2
  Threads <- MCThreads
  ById <- MCById
  Readers <- MCReaders
INVARIANTS
  TypeOK
  NoDuplicates
  NoDeadSelfRegistered
  CopyCompleteUnlessUnregister
PROPERTIES
  ImplementsSet
