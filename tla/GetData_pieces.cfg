CONSTANTS
  NumCols = 2
  NumRows = 2
  Length <- TwoRows
  Converted = {2}
  BufSizes = {0, 2, 5}
  BindTypes = {"char"}
  BindSizes = {2}
  AskTypes = {"wchar", "ard"}
  RowsetSizes = {2}
  MaxSetups = 2
  RiskyGets = {}
SPECIFICATION GetDataSpec
INVARIANTS PiecesExact InPlace
