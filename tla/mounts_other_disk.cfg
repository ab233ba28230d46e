SPECIFICATION Spec
CONSTANTS
  Disks <- TwoDisks
  MaxRuns = 2
  MaxFaults = 0
INVARIANTS
  CompletedIsUnmounted
CHECK_DEADLOCK FALSE
