SPECIFICATION FairSpec
CONSTANTS
  h1 = h1 h2 = h2
  Handles = {h1, h2}
  StmtList <- TwoStmts
  NoHandle = NoHandle
  Modes = {0, 1, 2}
  DirectOps = {"begin", "commit", "savepoint", "rollback_to", "write"}
  PreparedOps = {"write"}
  Risky = {}
  Lossy = TRUE
  MaxWrites <- Writes
  MaxUserSvp = 1 MaxSvp = 2 MaxDiscard = 1
INVARIANTS StatementAtomic ManualMeansTrans CursorsAgree
PROPERTIES UserSavepointKept CallsReturn
