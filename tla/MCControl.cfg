CONSTANTS
  Names = {b}
  CatchTags = {c}
  Labels = {l}
  Nil = Nil
  MaxDepth = 5
SPECIFICATION FairSpec
INVARIANTS
  TypeOK
  ChainSound
  FaultNeedsSkippingGo
  TopLevelHeals
  ErrorFindsFrame
PROPERTIES
  ErrorRunsCleanups
  NoReentry
  ExitsInnermost
  RaiseLands
\* A dead frame used ends the run: a crash is one of the outcomes.
CHECK_DEADLOCK FALSE
