SPECIFICATION MCSpec
CONSTANTS
  AllPackages = {"beam", "fina"}
  Sources = {"old", "new", "bad"}
  Broken = {"bad"}
  Baseline <- MCBaseline
  None = None
  Scenarios <- CarefulUsers
  Architectures = {"x86_64", "aarch64"}
  NoName = NoName
  Metas <- MCMetas
  Manifests <- MCManifests
INVARIANTS
  CarefulSubmitIsGreen
  ReportedIsPromoted
  ReportMatchesBinaries
  IsoHasLiveTarget
  StagingOnlyStaysThere
  DisabledStaysDisabled
CHECK_DEADLOCK FALSE
