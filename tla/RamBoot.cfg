SPECIFICATION Spec
CONSTANTS
 Escapes = 2
 Breaks = 2
 MaxFaults = 2
 MaxResets = 1
INVARIANTS RightImage NoStopInHandOver SuccessIsRamUBoot 
