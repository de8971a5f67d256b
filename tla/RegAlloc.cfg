SPECIFICATION Spec
CONSTANTS
  Programs <- All
  Magic = 5
  NotPreserved = {0, 1}
  FP = 4
  CountSpills = TRUE
  Depth = 4
CHECK_DEADLOCK FALSE
INVARIANTS SameCode DeadBitsTrue
PROPERTY SpillsEnd
