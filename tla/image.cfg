SPECIFICATION MCSpec
CONSTANTS
  None = None
  Nothing = Nothing
  Releases <- MCReleases
  Scenarios <- MCScenarios
  Plans <- MCPlans
  Cases <- CarefulCases
  WithPolicy = TRUE
  AnyRelease <- MCAnyRelease
  Repositories <- MCRepositories
  Expected <- MCExpected
  PolicyEdits = 3
INVARIANTS
  BundleIsConsistent
  BundledCommitBuiltTheIso
  ScheduledPackagesWereReviewed
  FreshEvidenceIsOfTheCandidate
  VerifiedExportIsTheCommit
  RollbackReallyPassed
  TraceCoversLaunches
  PolicyIsSound
CHECK_DEADLOCK FALSE
