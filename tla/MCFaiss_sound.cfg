SPECIFICATION MCSpec
CONSTANTS
  Semantic = {s1, s2}
  Deep = {d1}
  MaxEpoch = 2
  Ids = {i1, i2}
  None = None
  Torn = Torn
  MaxCopies = 2
CHECK_DEADLOCK FALSE
INVARIANTS
  NeverStale
  GuardRestored
  HeldOnce
  SkippedIsHeld
PROPERTIES
  LoopReturns
  SavedStaysSaved
  ImplementsChunks
  ImplementsServed
