------------------------------- MODULE Leases -------------------------------
(***************************************************************************)
(* What the connection pool of DuckDBManager promises                      *)
(* (src/codeintel_rev/io/duckdb_manager.py): a connection is idle or lent  *)
(* to one user, one is opened only below an allowance, and until the pool  *)
(* is closed every connection that is given back is kept.  Counter, queue, *)
(* lock and the users that wait are left open.                             *)
(***************************************************************************)
EXTENDS Naturals, FiniteSets

CONSTANTS Users, Conns, PoolSize

VARIABLES
  idle,       \* the connections that nobody uses
  lease,      \* the connections of each user: none or one
  allowance,  \* how many may be open
  closing     \* a close has begun

leaseVars == <<idle, lease, allowance, closing>>

Open == idle \union UNION {lease[u] : u \in Users}

LeasesInit ==
  /\ idle = {} /\ lease = [u \in Users |-> {}]
  /\ allowance = PoolSize /\ closing = FALSE

Lend(u) ==
  /\ lease[u] = {}
  /\ \E c \in idle : /\ idle' = idle \ {c}
                     /\ lease' = [lease EXCEPT ![u] = {c}]
  /\ UNCHANGED <<allowance, closing>>

LendNew(u) ==
  /\ lease[u] = {} /\ Cardinality(Open) < allowance
  /\ \E c \in Conns \ Open : lease' = [lease EXCEPT ![u] = {c}]
  /\ UNCHANGED <<idle, allowance, closing>>

GiveBack(u) ==
  /\ lease[u] # {} /\ Cardinality(idle) < PoolSize
  /\ idle' = idle \union lease[u]
  /\ lease' = [lease EXCEPT ![u] = {}]
  /\ UNCHANGED <<allowance, closing>>

\* Only a pool that is or was being closed gets back more than it keeps.
Discard(u) ==
  /\ closing /\ lease[u] # {}
  /\ lease' = [lease EXCEPT ![u] = {}]
  /\ UNCHANGED <<idle, allowance, closing>>

BeginClose == closing' = TRUE /\ UNCHANGED <<idle, lease, allowance>>

CloseIdle ==
  /\ closing
  /\ \E c \in idle : idle' = idle \ {c}
  /\ UNCHANGED <<lease, allowance, closing>>

\* The end of a close forgets the connections that are open by then.
Forget ==
  /\ closing
  /\ allowance' = allowance + Cardinality(Open)
  /\ UNCHANGED <<idle, lease, closing>>

LeasesNext ==
  \/ \E u \in Users : Lend(u) \/ LendNew(u) \/ GiveBack(u) \/ Discard(u)
  \/ BeginClose \/ CloseIdle \/ Forget

LeasesSpec == LeasesInit /\ [][LeasesNext]_leaseVars
=============================================================================
