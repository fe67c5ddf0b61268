SPECIFICATION Spec
CONSTANTS
  a = a
  b = b
  wide = wide
  replacement = replacement
  MaxSize = 8
  Chars <- SomeChars
  Replacement = replacement
  Pages <- SomePages
  Target = 4
  Shared = 1
  Prefix = 2
CHECK_DEADLOCK FALSE
INVARIANTS TypeOK NothingLost RowsAreWindows PositionsHold
