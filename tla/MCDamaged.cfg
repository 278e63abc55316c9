SPECIFICATION DamagedSpec
CONSTANTS
  MaxPages = 3
  ChunkPages = 3
  FreeListCapacity = 2
  InPlace = FALSE
  Values = {}
  Fresh = fresh
  MaxCheckpoint = 1
  MaxTrouble = 0
INVARIANTS
  VerifyPasses
PROPERTIES
  CallsReturn
