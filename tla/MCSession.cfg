CONSTANTS
  Symbols <- MCSymbols
  Programs <- MCPrograms
SPECIFICATION Spec
INVARIANTS TypeOK Agrees
CHECK_DEADLOCK FALSE
