SPECIFICATION EntrySpec
CONSTANTS
  MinSize = 2
  MaxSize = 5
  MaxAddress = 4
  Symbols <- MCSymbols
  ObjectWidths <- MCWidths
  FunctionSize = 24
INVARIANTS
  
  
  LineReadBack
PROPERTIES
  SearchEnds
CHECK_DEADLOCK FALSE
