SPECIFICATION FairSpec
CONSTANTS
  Tasks = {t1, t2, t3}
  MaxWrites = 2
  KeepL2 = TRUE
INVARIANTS OneFetch AgreeUnlessRaced
PROPERTIES ImplementsRegister GetReturns Heals
