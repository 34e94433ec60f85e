CONSTANTS
  Kind <- CstrKind
  ColumnValues <- LongTextColumnValues
  InitRecord <- CstrInitRecord
  MaxRows = 2
  BufSize = 2
  SizeMod = 8
  StoreOutcomes = {"result_set"}
  NULL = NULL
  NL = NL
  NoRow = NoRow
SPECIFICATION Spec
INVARIANT ReadMatchesRow
