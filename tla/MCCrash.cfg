SPECIFICATION Spec
CONSTANTS
  MaxPages = 4
  ChunkPages = 3
  FreeListCapacity = 1
  InPlace = FALSE
  Values = {}
  Fresh = fresh
  MaxCheckpoint = 3
  MaxTrouble = 2
INVARIANTS
  TypeOK
  SlicesInBounds
  VerifyPasses
  BelievesTheDrive
  NothingLeaks
  RecoversTheCheckpoint
  OpenNeverRefuses
PROPERTIES
  PoisonedIsSilent
  FullOnlyWhenFull
