SPECIFICATION FairSpec
CONSTANTS
  Format = "stock"
  NumBlocks = 6
  RestoreBlocks = 5
  ChunkBlocks = 3
  SafeWindow = {1, 2, 3}
  MaxBad = 2
INVARIANTS ImageBeforeBl2 SourceInRam NoHalfChunkWhenStopped
PROPERTIES EarlyStopKeepsBl2 ImplementsContract RestoreEnds
CHECK_DEADLOCK FALSE
