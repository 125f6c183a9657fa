SPECIFICATION Spec
CONSTANTS
  Format = "physical"
  NumBlocks = 5
  RestoreBlocks = 5
  ChunkBlocks = 2
  SafeWindow = {}
  MaxBad = 2
PROPERTY ImplementsContract
CHECK_DEADLOCK FALSE
