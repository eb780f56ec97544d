SPECIFICATION Spec
CONSTANTS
  Threads = {t1, t2}
  Stmts = {s1, s2}
  None = none
  MaxCalls = 3
  MaxAsks = 1
  Risky = {}
CHECK_DEADLOCK FALSE
INVARIANTS NoLockLeft
PROPERTIES ErrorUndone CallsReturn
