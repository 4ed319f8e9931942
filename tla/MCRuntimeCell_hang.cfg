SPECIFICATION ClockSpec
CONSTANTS
  Threads = {t1, t2, t3}
  MaxWaiters = 2
  WaitTimeout = TRUE
  SeedAllowed = TRUE
  CanAbort = TRUE
  MaxGeneration = 3
PROPERTIES GetReturns ImplementsSlot
