----------------------------- MODULE DuckDBPool -----------------------------
(***************************************************************************)
(* The connection pool of DuckDBManager                                    *)
(* (src/codeintel_rev/io/duckdb_manager.py) with pool_size > 0: a queue    *)
(* of idle connections and a counter under a lock, which are never changed *)
(* together.  The order of the LIFO queue is abstracted to a set.          *)
(***************************************************************************)
EXTENDS Naturals, FiniteSets

CONSTANTS
  Users,      \* threads inside `with manager.connection()`
  Closers,    \* calls of close, one each
  Conns,      \* names for the connections open at a time
  PoolSize    \* _pool_size

ASSUME PoolAssumption ==
  /\ IsFiniteSet(Users) /\ IsFiniteSet(Closers) /\ IsFiniteSet(Conns)
  /\ PoolSize \in Nat \ {0}

VARIABLES
  pool,       \* _pool: the idle connections
  created,    \* _connections_created
  pc,         \* where each user is
  held,       \* the connections each user holds: none or one
  closer,     \* where each closer is
  forgotten   \* history: open connections the counter was reset under

vars == <<pool, created, pc, held, closer, forgotten>>

Out == UNION {held[u] : u \in Users}
Live == pool \union Out

Init ==
  /\ pool = {} /\ created = 0
  /\ pc = [u \in Users |-> "idle"]
  /\ held = [u \in Users |-> {}]
  /\ closer = [c \in Closers |-> "open"]
  /\ forgotten = 0

(***************************************************************************)
(* Faulty variants of the definitions below, one per property: no part of  *)
(* the specification, they show that each property can fail.               *)
(***************************************************************************)
\* The counter is not raised, or the test lets one connection too many in.
CreateIf(u, test, n) ==
  /\ pc[u] = "missed" /\ test
  /\ \E c \in Conns \ Live : held' = [held EXCEPT ![u] = {c}]
  /\ created' = n
  /\ pc' = [pc EXCEPT ![u] = "using"]
  /\ UNCHANGED <<pool, closer, forgotten>>
CreateUncounted(u) == CreateIf(u, created < PoolSize, created)
CreateOneTooMany(u) == CreateIf(u, created <= PoolSize, created + 1)

\* The connection stays on the queue when it is handed out.
TakeIdleShared(u) ==
  /\ pc[u] = "idle" /\ pool # {}
  /\ \E c \in pool : held' = [held EXCEPT ![u] = {c}]
  /\ pc' = [pc EXCEPT ![u] = "using"]
  /\ UNCHANGED <<pool, created, closer, forgotten>>

\* The connection is closed on release instead of being put back.
ReleaseClosing(u) ==
  /\ pc[u] = "using"
  /\ held' = [held EXCEPT ![u] = {}]
  /\ pc' = [pc EXCEPT ![u] = "idle"]
  /\ UNCHANGED <<pool, created, closer, forgotten>>

(***************************************************************************)
(* _acquire_connection                                                     *)
(***************************************************************************)
Take(u) ==
  \E c \in pool :
    /\ pool' = pool \ {c}
    /\ held' = [held EXCEPT ![u] = {c}]
    /\ pc' = [pc EXCEPT ![u] = "using"]
    /\ UNCHANGED <<created, closer, forgotten>>

TakeIdle(u) == pc[u] = "idle" /\ Take(u)

Miss(u) ==
  /\ pc[u] = "idle" /\ pool = {}
  /\ pc' = [pc EXCEPT ![u] = "missed"]
  /\ UNCHANGED <<pool, created, held, closer, forgotten>>

\* Under the lock: a new connection is opened and counted ...
Create(u) ==
  /\ pc[u] = "missed" /\ created < PoolSize
  /\ \E c \in Conns \ Live : held' = [held EXCEPT ![u] = {c}]
  /\ created' = created + 1
  /\ pc' = [pc EXCEPT ![u] = "using"]
  /\ UNCHANGED <<pool, closer, forgotten>>

\* ... or the connector raises and the caller leaves ...
CreateFails(u) ==
  /\ pc[u] = "missed" /\ created < PoolSize
  /\ pc' = [pc EXCEPT ![u] = "idle"]
  /\ UNCHANGED <<pool, created, held, closer, forgotten>>

\* ... or the counter is at its limit and the caller goes on to a blocking get.
Exhausted(u) ==
  /\ pc[u] = "missed" /\ created >= PoolSize
  /\ pc' = [pc EXCEPT ![u] = "blocked"]
  /\ UNCHANGED <<pool, created, held, closer, forgotten>>

TakeReturned(u) == pc[u] = "blocked" /\ Take(u)

(***************************************************************************)
(* _release_connection                                                     *)
(***************************************************************************)
Release(u) ==
  /\ pc[u] = "using" /\ Cardinality(pool) < PoolSize
  /\ pool' = pool \union held[u]
  /\ held' = [held EXCEPT ![u] = {}]
  /\ pc' = [pc EXCEPT ![u] = "idle"]
  /\ UNCHANGED <<created, closer, forgotten>>

\* The queue is full: the connection is closed, then the counter lowered.
Overflow(u) ==
  /\ pc[u] = "using" /\ Cardinality(pool) >= PoolSize
  /\ held' = [held EXCEPT ![u] = {}]
  /\ pc' = [pc EXCEPT ![u] = "lowering"]
  /\ UNCHANGED <<pool, created, closer, forgotten>>

Lower(u) ==
  /\ pc[u] = "lowering"
  /\ created' = IF created = 0 THEN 0 ELSE created - 1
  /\ pc' = [pc EXCEPT ![u] = "idle"]
  /\ UNCHANGED <<pool, held, closer, forgotten>>

(***************************************************************************)
(* close: the idle connections one after the other, then the counter       *)
(***************************************************************************)
StartClose(c) ==
  /\ closer[c] = "open"
  /\ closer' = [closer EXCEPT ![c] = "draining"]
  /\ UNCHANGED <<pool, created, pc, held, forgotten>>

Drain(c) ==
  /\ closer[c] = "draining" /\ pool # {}
  /\ \E k \in pool : pool' = pool \ {k}
  /\ UNCHANGED <<created, pc, held, closer, forgotten>>

Drained(c) ==
  /\ closer[c] = "draining" /\ pool = {}
  /\ closer' = [closer EXCEPT ![c] = "drained"]
  /\ UNCHANGED <<pool, created, pc, held, forgotten>>

Reset(c) ==
  /\ closer[c] = "drained"
  /\ created' = 0
  /\ forgotten' = forgotten + Cardinality(Live)
  /\ closer' = [closer EXCEPT ![c] = "closed"]
  /\ UNCHANGED <<pool, pc, held>>

Acquire(u) ==
  \/ TakeIdle(u) \/ Miss(u) \/ Create(u) \/ CreateFails(u) \/ Exhausted(u)
  \/ TakeReturned(u)
GiveBack(u) == Release(u) \/ Overflow(u) \/ Lower(u)
EndClose(c) == Drain(c) \/ Drained(c) \/ Reset(c)

Next ==
  \/ \E u \in Users : Acquire(u) \/ GiveBack(u)
  \/ \E c \in Closers : StartClose(c) \/ EndClose(c)

Spec == Init /\ [][Next]_vars

\* Users finish with their connections, callers past the first look go on, a
\* blocked get is served when connections keep coming back, and close goes on.
Fairness ==
  /\ \A u \in Users :
       /\ WF_vars(GiveBack(u))
       /\ WF_vars(Create(u) \/ CreateFails(u) \/ Exhausted(u))
       /\ SF_vars(TakeReturned(u))
  /\ \A c \in Closers : WF_vars(EndClose(c))

FairSpec == Spec /\ Fairness

(***************************************************************************)
(* Properties                                                              *)
(***************************************************************************)
\* Every variable stays within its kind of value, and the idle connections
\* within the size of the queue.
TypeOK ==
  /\ pool \subseteq Conns /\ Cardinality(pool) <= PoolSize
  /\ created \in 0..PoolSize
  /\ pc \in [Users -> {"idle", "missed", "blocked", "using", "lowering"}]
  /\ held \in [Users -> SUBSET Conns]
  /\ closer \in [Closers -> {"open", "draining", "drained", "closed"}]
  /\ forgotten \in Nat

\* A DuckDB connection is used by one thread at a time: whoever uses one is its
\* only holder, and it is not on the queue for close or others to take.
Exclusive ==
  \A u \in Users :
    /\ pc[u] = "using" <=> held[u] # {}
    /\ held[u] \intersect pool = {}
    /\ \A v \in Users \ {u} : held[u] \intersect held[v] = {}

\* The counter under the lock bounds the open connections, but for those it was
\* reset under: close lets no more than these escape.
BoundedButForgotten == Cardinality(Live) <= PoolSize + forgotten

\* Until the first close the counter is exact: put_nowait never finds the queue
\* full, and a caller goes on to the blocking get only when every connection the
\* pool may have is open.
Unclosed == \A c \in Closers : closer[c] = "open"
CounterExact ==
  Unclosed => /\ created = Cardinality(Live)
              /\ \A u \in Users : /\ pc[u] # "lowering"
                                  /\ pc[u] = "blocked" => created = PoolSize

\* The queue and the counter, never changed together, lend connections as Leases
\* promises: to one user each, no more than the allowance, none lost before a close.
Lending == INSTANCE Leases WITH
             idle <- pool, lease <- held, allowance <- PoolSize + forgotten,
             closing <- ~Unclosed
ImplementsLeases == Lending!LeasesSpec

\* Until the first close, whoever blocks on the empty queue waits for somebody who
\* uses a connection and will put it back: the safety half of WaitersServed.
BlockedHasLender ==
  Unclosed /\ pool = {} /\ (\E u \in Users : pc[u] = "blocked") =>
    \E v \in Users : pc[v] = "using"

\* A caller that found the pool exhausted gets a connection, unless the pool is
\* closed under it.
WaitersServed == \A u \in Users : pc[u] = "blocked" ~> pc[u] = "using" \/ ~Unclosed

\* The comment at the blocking get: "Pool exhausted, block until one is returned" -
\* whoever blocks there has an open connection to wait for.
BlockedHasHope == (\E u \in Users : pc[u] = "blocked") => Live # {}
=============================================================================
