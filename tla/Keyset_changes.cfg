SPECIFICATION Spec
CONSTANTS
  N = 2
  MaxTid = 4
  MaxLog = 2
  Window = 1
  Size = 2
  MaxOther = 1
  Kinds = {"static", "keyset", "cursor"}
  Risky = {}
INVARIANTS KeysTrue DataTrue
PROPERTY PosHits
CHECK_DEADLOCK FALSE
