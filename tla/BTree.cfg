SPECIFICATION Spec
CONSTANTS
  a = a
  b = b
  Keys = {0, 1, 2, 3, 4, 5, 6, 7, 8}
  Entries <- TreeEntries
  Ranges = {}
  MaxStray = 2
INVARIANTS
  TreeValid
PROPERTIES
  ImplementsMap
