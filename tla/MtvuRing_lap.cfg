SPECIFICATION Spec
CONSTANTS
  BufferSize = 7
  Size <- MCSize
  SafetyNet = 1
  MayLap = TRUE
INVARIANT
  EqualMeansEmpty
CHECK_DEADLOCK FALSE
