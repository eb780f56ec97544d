SPECIFICATION ColInfoSpec
CONSTANTS
  t1 = t1
  tmp = tmp
  Tables = {t1, tmp}
  TempTables = {tmp}
  Stmts = {s1, s2}
  Queries <- MCQueries
  COLI_INCR = 2
  COLI_RECYCLE = 1
  MaxEntries = 3
  MaxTables = 2
  MaxChanges = 1
  MaxTime = 1
  None = none
  Risky = {}
INVARIANTS OwnTable NoneLost
PROPERTIES Fresh
SYMMETRY Symmetry
