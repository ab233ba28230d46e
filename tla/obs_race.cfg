SPECIFICATION MCSpec
CONSTANTS
  AllPackages = {"beam", "fina"}
  Sources = {"old", "new", "bad"}
  Broken = {"bad"}
  Baseline <- MCBaseline
  None = None
  Scenarios <- HastyUsers
  Architectures = {"x86_64"}
  NoName = NoName
  Metas = {}
  Manifests <- FewManifests
INVARIANTS
  SubmittedIsGreen
CHECK_DEADLOCK FALSE
