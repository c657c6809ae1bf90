SPECIFICATION Spec
CONSTANTS
  d1 = d1
  d2 = d2
  Decoder = d1
  Others <- MCOthers
  Objects <- MCObjects
  Unreadable <- MCUnreadable
  Room <- MCRoom
  ListSize = 2
  WindowSize = 2
  MaxLength = 5
INVARIANTS
  LinesOfTheirEntry
  DecodedUnlessCommandFull
  SigintRestoredUnlessOverlap
CHECK_DEADLOCK FALSE
