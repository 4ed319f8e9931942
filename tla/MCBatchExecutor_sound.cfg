SPECIFICATION FairSpec
CONSTANTS
  Submitters = {s1, s2, s3}
  Closers = {c1}
  Capacity = 1
  MicroBatch = 3
  MaxTexts = 2
INVARIANTS JobsConserved RowsAligned BatchBounded
PROPERTIES ImplementsCalls TakenJobsAnswered WorkerStops SubmitReturns
CHECK_DEADLOCK FALSE
