SPECIFICATION FairSpec
CONSTANTS
  RingBufferSize = 6
  VsyncSize = 1
  SpinLimit = 2
  TallyLimit = 2
  VsyncQueueSize = 1
  Cmds = {"gs", "async", "fifo", "vsync", "reset"}
  ResetWaits = TRUE
INVARIANTS
  RingIsTheQueue
  QueuedFramesMatchRing
  OnePostPerStall
  WaitGSMeansDone
  OpenHandshake
PROPERTY
  EeReturns
CHECK_DEADLOCK FALSE
