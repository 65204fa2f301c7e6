SPECIFICATION LocatorSpec
CONSTANTS
  MaxRollback = 16
  Reach = 13
  BlockPageSize = 15
  Start = 18
  CursorLen = 14
  MaxLag = 3
  MaxHeight = 28
INVARIANT ReorgHandled
CHECK_DEADLOCK FALSE
