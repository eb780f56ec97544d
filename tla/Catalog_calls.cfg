SPECIFICATION Spec
CONSTANTS
  MaxRows = 2
  MaxCalls = 2
  Risky = {}
INVARIANTS ReleasedOnce SuccessComplete
CHECK_DEADLOCK FALSE
