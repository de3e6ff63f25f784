SPECIFICATION Spec
CONSTANT MaxShared = 5
INVARIANTS
  StartsFromNothing
  AbortsOnlyByUnmap
  InitializedMeansWhole
CHECK_DEADLOCK FALSE
