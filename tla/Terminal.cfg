SPECIFICATION Spec
CONSTANTS
  Page = 1
  BufferMax = 1
  MaxOutput = 3
  MaxRead = 2
  MaxKeys = 3
INVARIANTS OutputNotLost ScreenHasOneOwner CtrlCAsked
CHECK_DEADLOCK FALSE
