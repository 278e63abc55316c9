SPECIFICATION Spec
CONSTANTS
  Writers = {w0, w1}
  Records = 5
  RecordLen = 2
INVARIANT LosesWholeRecords
CHECK_DEADLOCK FALSE
