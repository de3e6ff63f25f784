SPECIFICATION FairSpec
CONSTANTS
  Sectors = 5
  Asked = {0, 2, 4}
  ChunkSizes = {1, 2}
  Cap = 2
  Overlap = {}
INVARIANTS
  SectorIsTheOneAskedFor
  ClearedMeansNotWritten
  OneDecoder
PROPERTY
  CallsReturn
