CONSTANTS
  Writers = {w1, w2}
  Sessions = {s1, s2}
  Pids = {1, 2}
  MaxRounds = 3
  MaxRuns = 2
  MaxFaults = 2
  MaxExercises = 2
  MaxTroubles = 2
SPECIFICATION Spec
INVARIANTS BodyRunsAlone AdmissionNeedsCommit CleanReportIsTrue OriginalsArePristine
  NoMarkerNoRemains RestoredIsWhole
PROPERTIES RecoveryEnds
CHECK_DEADLOCK FALSE
