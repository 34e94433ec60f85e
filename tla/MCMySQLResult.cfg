CONSTANTS
  Kind <- MCKind
  ColumnValues <- MCColumnValues
  InitRecord <- MCInitRecord
  MaxRows = 2
  BufSize = 3
  SizeMod = 8
  StoreOutcomes = {"result_set"}
  NULL = NULL
  NL = NL
  NoRow = NoRow
SPECIFICATION Spec
INVARIANTS TypeOK ReadMatchesRow RowsRemaining
PROPERTIES CursorRefinement
