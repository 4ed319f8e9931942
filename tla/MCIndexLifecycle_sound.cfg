SPECIFICATION Spec
CONSTANTS
  Procs = {p1, p2}
  Versions = {v1, v2}
  MaxCalls = 5
INVARIANTS ManifestMeansComplete CurrentExists ActiveCommitted NeverTorn LinkFollows
PROPERTIES ImplementsReleases
SYMMETRY FullSymmetry
CHECK_DEADLOCK FALSE
