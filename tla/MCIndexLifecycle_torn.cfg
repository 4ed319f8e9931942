SPECIFICATION Spec
CONSTANTS
  Procs = {p1, p2}
  Versions = {v1, v2}
  MaxCalls = 5
CHECK_DEADLOCK FALSE
PROPERTIES ActiveNeverLost
SYMMETRY FullSymmetry
