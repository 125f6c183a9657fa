SPECIFICATION FairSpec
CONSTANTS
  NumBlocks = 7
  WrapAt = 5
  Attempts = 3
  EotTries = 2
  MaxFaults = 3
  MaxLate = 2
INVARIANTS ReceivedIsFile CanStaysInDataPhase
PROPERTIES StopReachesReceiver TransferEnds
CHECK_DEADLOCK FALSE
