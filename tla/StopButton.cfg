SPECIFICATION Spec
CONSTANTS
  p1 = p1
  p2 = p2
  Script <- RestoreScript
  Pressers <- TwoPressers
  MaxOps = 2
  MaxPresses = 3
INVARIANTS CancelledByOwnPress AtMostOneCommandAfter AcceptedIsHonoured
PROPERTY NoStopWhileBlocked
SYMMETRY Symmetric
CHECK_DEADLOCK FALSE
