CONSTANTS
  Keys <- MCKeys
  Vals = {v}
  Nil = Nil
  Hash <- MCHash
  InitCap = 16
  Guests = {14, 15}
  Walks = TRUE
SPECIFICATION MCSpec
INVARIANT WalkComplete
