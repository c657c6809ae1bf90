SPECIFICATION FairSpec
CONSTANTS
  u1 = u1
  u2 = u2
  d1 = d1
  Nobody = Nobody
  Users <- MCUsers
  Decoders <- MCDecoders
  Callers <- MCDecoders
  PopenFails = TRUE
  MaxCalls = 2
INVARIANTS
  EmptyOnlyAfterFailure
  RestoredUnlessOverlap
  HandlerOnlyOnOverlap
PROPERTIES
  MutexReleased
CHECK_DEADLOCK FALSE
