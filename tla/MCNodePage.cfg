SPECIFICATION Spec
CONSTANTS
  PageSize = 25
  SlotArrayStart = 4
  SlotSize = 4
  LeafSuffix = 2
  InternalSuffix = 1
  Keys <- ShortKeys
  Bytes = {7}
  Links = {1}
  MaxDamage = 2
INVARIANTS
  ReadsBack
  ValidIffAscending
  FillsToMaxKeys
  ValidateIsSound
  LookupsAgree
CHECK_DEADLOCK FALSE
