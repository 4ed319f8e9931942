SPECIFICATION Spec
CONSTANTS
  Users = {u1, u2}
  Closers = {c1}
  Conns = {k1, k2, k3}
  PoolSize = 1
INVARIANTS BlockedHasHope
CHECK_DEADLOCK FALSE
