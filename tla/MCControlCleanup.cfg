CONSTANTS
  Names = {b}
  CatchTags = {c}
  Labels = {l}
  Nil = Nil
  MaxDepth = 4
SPECIFICATION Spec
PROPERTY CleanupAlwaysRuns
CHECK_DEADLOCK FALSE
