SPECIFICATION FairSpec
CONSTANTS
  NumBlocks = 2
  Attempts = 2
  OackTries = 1
  DataTries = 2
  ClientTries = 1
  MaxFaults = 1
INVARIANTS SuccessIsReal NoServerLeftBehind
PROPERTIES LoadEnds
CHECK_DEADLOCK FALSE
