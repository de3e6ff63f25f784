SPECIFICATION FairSpec
CONSTANTS
  BufferSize = 9
  Size <- MCSize
  SafetyNet = 1
  MayLap = FALSE
INVARIANTS
  TypeOK
  RingIsTheQueue
  EqualMeansEmpty
  WaitVUMeansDone
PROPERTIES
  EeReturns
  AllExecuted
