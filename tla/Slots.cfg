SPECIFICATION Spec
CONSTANTS
  PageSize = 13
  HeaderSize = 3
  IntBits = 7
  Lengths = {13, 9}
  Bytes = {1, 2}
  Stale = {0, 9}
INVARIANTS
  LayoutIsTight
  RecordsKeep
  HeaderCoversRecords
CHECK_DEADLOCK FALSE
