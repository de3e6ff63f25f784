SPECIFICATION FairSpec
CONSTANTS
  BuffSize = 8
  BuffLimit = 6
  MaxKick = 1
  MaxPacket = 3
  RingSize = 1
  MaxPrograms = 2
  OthersWait = FALSE
INVARIANTS
  UnreadIsKept
  AmountMatches
  TagsMatchPrograms
PROPERTIES
  TransfersEnd
  KicksArrive
CHECK_DEADLOCK FALSE
