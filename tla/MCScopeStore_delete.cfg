SPECIFICATION Spec
CONSTANTS
  Tasks = {t1, t2}
  MaxWrites = 1
  KeepL2 = TRUE
INVARIANTS DeleteRemoves
