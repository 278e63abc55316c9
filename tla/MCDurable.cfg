SPECIFICATION Spec
CONSTANTS
  MaxPages = 3
  ChunkPages = 2
  FreeListCapacity = 1
  InPlace = TRUE
  Values = {v}
  Fresh = fresh
  MaxCheckpoint = 3
  MaxTrouble = 2
PROPERTIES
  ImplementsDurable
INVARIANTS
  CommittedIntact
