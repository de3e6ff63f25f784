SPECIFICATION Spec
CONSTANTS
  RingSize = 13
  RegQuads = 3
  Frames = {1, 2}
  AnyStart = FALSE
INVARIANT
  FrameArrives
PROPERTY
  RegsKeptByEe
