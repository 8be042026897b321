CONSTANTS
  Keys <- MCKeys
  Vals = {v, w}
  Nil = Nil
  Hash <- MCHash
  InitCap = 16
  Guests = {14, 15, 16}
  Walks = FALSE
SPECIFICATION MCSpec
INVARIANTS
  TypeOK
  ProbeInvariant
  SlotLeft
PROPERTIES
  IsMap
  CallsReturn
