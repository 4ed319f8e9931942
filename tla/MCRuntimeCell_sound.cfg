SPECIFICATION FactorySpec
CONSTANTS
  Threads = {t1, t2, t3}
  MaxWaiters = 1
  WaitTimeout = FALSE
  SeedAllowed = TRUE
  CanAbort = FALSE
  MaxGeneration = 4
INVARIANTS WaitersCounted NoLostWakeup InitializerAlive ReadyHasPayload
           SingleFlightUpToInterrupts DisposedOnce
PROPERTIES GetReturns
