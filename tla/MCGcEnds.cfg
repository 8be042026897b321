\* Two addresses, enough for a cycle; no symmetry, which liveness forbids.
CONSTANTS
  Obj = {o1, o2}
  Gone = Gone
  MaxFields = 2
  MaxLocals = 2
  MaxSlots = 2
SPECIFICATION FairSpec
PROPERTY CollectionEnds
CHECK_DEADLOCK FALSE
