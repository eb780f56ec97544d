SPECIFICATION Spec
CONSTANTS
  Threads = {t1, t2}
  Envs = {e1, e2}
  Conns = {c1, c2}
  Stmts = {s1, s2, s3}
  Descs = {d1, d2}
  None = None
  Risky = {}
SYMMETRY Symmetry
INVARIANTS NoUseAfterFree NothingLost
