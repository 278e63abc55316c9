SPECIFICATION Spec
CONSTANTS
  Keys = {0, 1, 2, 3, 4}
  Entries <- ScanEntries
  a = a
  b = b
  Ranges <- SomeRanges
  MaxStray = 2
INVARIANTS
  ScanIsExact
  NothingMissed
  ChainEnds
PROPERTIES
  ShowsWhatIsThere
