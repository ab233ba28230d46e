SPECIFICATION MCSpec
CONSTANTS
  None = None
  Nothing = Nothing
  Releases <- MCReleases
  Scenarios <- MCScenarios
  Plans <- MCPlans
  Cases <- HastyCases
  WithPolicy = FALSE
  AnyRelease <- MCAnyRelease
  Repositories <- MCRepositories
  Expected <- MCExpected
  PolicyEdits = 3
INVARIANT EvidenceIsOfTheCandidate
CHECK_DEADLOCK FALSE
