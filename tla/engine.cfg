SPECIFICATION FairSpec
CONSTANTS
  N = 4
  HasUndo <- MCHasUndo
INVARIANTS
  TypeOK
  OnlyAdmittedWork
  CompletedIsEarned
  LeaksAreReported
  OneVerdict
PROPERTIES
  ImplementsContract
  EventuallyReleased
  CancelBoundsWork
CHECK_DEADLOCK FALSE
