SPECIFICATION Spec
CONSTANTS
  Disks <- TwoDisks
  MaxRuns = 3
  MaxFaults = 2
INVARIANTS
  WritesReachTarget
  LeftMountMeansFailed
  ReleasedBeforeWipe
  RetryIsUnmounted
PROPERTIES
  UnwindsOwnMounts
CHECK_DEADLOCK FALSE
