SPECIFICATION Spec
CONSTANTS
  Keys <- SomeKeys
  Values <- SomeValues
  BufSize = 4
  MaxBytes = 13
  MaxTrouble = 2
INVARIANTS
  FlushedIsThere
  LosesOnlyTheTail
PROPERTIES
  CompactKeepsMap
