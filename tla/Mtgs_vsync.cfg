SPECIFICATION FairSpec
CONSTANTS
  RingBufferSize = 5
  VsyncSize = 1
  SpinLimit = 9
  TallyLimit = 2
  VsyncQueueSize = 1
  Cmds = {"vsync"}
  ResetWaits = TRUE
PROPERTY
  VsyncWaitEnds
CHECK_DEADLOCK FALSE
