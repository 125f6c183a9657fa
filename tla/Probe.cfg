SPECIFICATION FairSpec
CONSTANTS
  WebTries = 1
  MaxCuts = 1
INVARIANT ConsentBeforeChange
PROPERTY ProbeEnds
CHECK_DEADLOCK FALSE
