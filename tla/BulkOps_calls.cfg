SPECIFICATION BulkSpec
CONSTANTS
  RowsetSize = 3
  MaxLate = 2
  MaxOps = 2
  RiskyCalls = {}
INVARIANTS RowsOnce AutocommitBack
CHECK_DEADLOCK FALSE
