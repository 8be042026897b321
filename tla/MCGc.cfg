CONSTANTS
  Obj = {o1, o2, o3}
  Gone = Gone
  MaxFields = 2
  MaxLocals = 1
  MaxSlots = 1
SPECIFICATION Spec
SYMMETRY Addresses
INVARIANTS
  TypeOK
  MarkInvariant
  NoDangling
  FaultNeedsGap
PROPERTY MeetsContract
\* Freed memory touched ends the run: a crash is one of the outcomes.
CHECK_DEADLOCK FALSE
