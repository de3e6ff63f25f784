SPECIFICATION Spec
CONSTANTS
  RingBufferSize = 5
  VsyncSize = 1
  SpinLimit = 2
  TallyLimit = 2
  VsyncQueueSize = 1
  Cmds = {"async", "reset"}
  ResetWaits = FALSE
INVARIANT
  RingIsTheQueue
CHECK_DEADLOCK FALSE
