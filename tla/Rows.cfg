SPECIFICATION Spec
CONSTANTS
  ByteBits = 3
  WordBits = 9
  MantissaBits = 5
  Schema <- FiveFields
  Values <- SomeValues
  Room = 14
  MaxDamage = 1
  MaxTerms = 2
  Thirty = 40
INVARIANTS
  RowsReadBack
  DecodingIsExact
  KeysKeepOrder
  LogicIsCautious
CHECK_DEADLOCK FALSE
