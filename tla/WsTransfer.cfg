SPECIFICATION FairSpec
CONSTANTS
 Blocks = 5
 WrapAt = 4
 Silences = 3
 Patience = 3
 MaxLost = 2
 MaxFaults = 2
INVARIANTS DoneMeansMoved NothingLeft
PROPERTY LossesAreRepaired
