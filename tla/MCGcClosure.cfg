CONSTANTS
  Obj = {o1, o2, o3}
  Gone = Gone
  MaxFields = 2
  MaxLocals = 1
  MaxSlots = 0
SPECIFICATION Spec
SYMMETRY Addresses
PROPERTY ReachableKept
CHECK_DEADLOCK FALSE
