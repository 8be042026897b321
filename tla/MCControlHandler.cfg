CONSTANTS
  Names = {b}
  CatchTags = {c}
  Labels = {l}
  Nil = Nil
  MaxDepth = 4
SPECIFICATION Spec
PROPERTY HandlerCatchesErrors
CHECK_DEADLOCK FALSE
