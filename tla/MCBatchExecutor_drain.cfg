SPECIFICATION Spec
CONSTANTS
  Submitters = {s1, s2}
  Closers = {c1}
  Capacity = 2
  MicroBatch = 2
  MaxTexts = 1
INVARIANTS CloseDrains
CHECK_DEADLOCK FALSE
