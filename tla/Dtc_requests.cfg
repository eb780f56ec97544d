SPECIFICATION Spec
CONSTANTS
  OwnXid <- MCOwnXid
  ForeignGid <- MCForeignGid
  ScanCount = 1
  MaxFaults = 2
  MaxCalls = 2
  None = none
  Risky = {}
CHECK_DEADLOCK FALSE
INVARIANTS Atomic NoUseAfterFree
PROPERTIES Answered Resolved
