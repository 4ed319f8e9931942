SPECIFICATION FairSpec
CONSTANTS
  Users = {u1, u2, u3}
  Closers = {c1, c2}
  Conns = {k1, k2, k3, k4, k5}
  PoolSize = 2
INVARIANTS Exclusive BoundedButForgotten CounterExact
PROPERTIES ImplementsLeases WaitersServed
CHECK_DEADLOCK FALSE
