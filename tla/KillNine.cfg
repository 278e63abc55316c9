SPECIFICATION KSpec
CONSTANTS
  MaxPages = 5
  ChunkPages = 2
  FreeListCapacity = 2
  InPlace = FALSE
  Values = {1, 2, 3, 4, 5, 6, 7, 8, 9}
  Fresh = fresh
  MaxCheckpoint = 8
  MaxTrouble = 3
INVARIANTS
  NeverBehind
  RootIsStamped
PROPERTY KeepsGoing
