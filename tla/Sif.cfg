SPECIFICATION Spec
CONSTANTS
  W = 8
  Packets = 2
  Words = {1, 4, 6, 7, 12}
  Chunks = {1, 2, 3}
  Sif1Tie = TRUE
  Vif1Tie = FALSE
  StaleBusy = FALSE
INVARIANTS
  ArrivesInOrder
  InterruptMeansArrived
  WaitsForTheOther
  InterruptMeansSent
PROPERTY
  DmaReturns
