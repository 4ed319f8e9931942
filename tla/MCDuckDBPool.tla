---------------------------- MODULE MCDuckDBPool ----------------------------
(* Finite instances of DuckDBPool for TLC.  A user holds at most one connection *)
(* and the queue at most PoolSize: |Users| + PoolSize names never run out.      *)
EXTENDS DuckDBPool

ASSUME EnoughNames == Cardinality(Conns) >= Cardinality(Users) + PoolSize

\* The docstring of connection: pooling is "ensuring bounded concurrency".  TLC
\* refutes it: close resets the counter while connections are checked out.
LiveBounded == Cardinality(Live) <= PoolSize
=============================================================================
