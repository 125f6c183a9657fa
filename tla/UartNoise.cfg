SPECIFICATION FairSpec
CONSTANTS
  Settings <- Conversations
  ReadbackTries = 2
  MaxFaults = 1
INVARIANTS PersistentAtMostOnce SuccessMeansWritten
PROPERTY ScriptEnds
CHECK_DEADLOCK FALSE
