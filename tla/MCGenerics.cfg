CONSTANTS
  a = a
  b = b
  c = c
  d = d
  Names = {a, b, c, d}
  SlotLists <- MCSlotLists
  SuperLists <- MCSuperLists
  MaxClasses = 6
  GenericNames = {"f"}
  Required <- MCRequired
  ArgLists <- MCArgLists
  SpecLists <- MCSpecLists
  CNM_STACK_MAX = 2
  MaxCalls = 7
  ClassCost = 3
  StepCost = 2
  Budget = 14
SYMMETRY MCSymmetry
SPECIFICATION Spec
INVARIANTS TypeOK Linearized RefusesOnlyCycles OverridesFirst ContextsSound ChainDescends
CHECK_DEADLOCK FALSE
