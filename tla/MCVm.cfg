CONSTANTS
  Count <- MCCount
  ProgramAt <- MCProgramAt
  Symbols <- MCSymbols
  Constants <- MCConstants
  Loops <- MCLoops
  StackSize = 14
  ArgRange = 128
  JitThreshold = 3
  MaxFrames = 7
SPECIFICATION Spec
INVARIANTS TypeOK Agrees JumpsInside Balanced LoopsFlat
PROPERTY Ends
CHECK_DEADLOCK FALSE
