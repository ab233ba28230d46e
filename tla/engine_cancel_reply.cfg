SPECIFICATION FairSpec
CONSTANTS
  N = 3
  HasUndo <- MCHasUndo
INVARIANTS
  ReplyHasVerdict
CHECK_DEADLOCK FALSE
