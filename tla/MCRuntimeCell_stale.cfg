SPECIFICATION Spec
CONSTANTS
  Threads = {t1, t2, t3}
  MaxWaiters = 0
  WaitTimeout = TRUE
  SeedAllowed = FALSE
  CanAbort = FALSE
  MaxGeneration = 3
PROPERTIES NoStalePublish
