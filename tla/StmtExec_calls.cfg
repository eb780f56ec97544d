SPECIFICATION FairSpec
CONSTANTS
  MaxRows = 3
  NumParams = 2
  Binary = {2}
  Configs <- AllConfigs
  Bindings <- SmallArrays
  Risky = {}
INVARIANTS RowsExact OwnData CounterExact StatusTruth
PROPERTIES CallReturns
