SPECIFICATION EntrySpec
CONSTANTS
  MinSize = 2
  MaxSize = 3
  MaxAddress = 2
  Symbols <- MCMakeShared
  ObjectWidths <- MCWidths
  FunctionSize = 24
INVARIANTS
  MakeSharedAbbreviated
CHECK_DEADLOCK FALSE
