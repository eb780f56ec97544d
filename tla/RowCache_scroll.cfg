SPECIFICATION Spec
CONSTANTS
  MaxRows = 4
  MaxSize = 2
  FetchMax = {1, 2, 3}
  INT_MAX = 1000
  Faulty = TRUE
  Risky = {}
INVARIANTS CursorKnown RowsetCached
PROPERTY Transparent
CHECK_DEADLOCK FALSE
