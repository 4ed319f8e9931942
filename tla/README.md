# kgfoundry: a TLA+ verification of its concurrent core

kgfoundry is a Python code base of two generations: `codeintel_rev/`, a code
intelligence server (indexes, hybrid search, MCP tools), and `src/`, the older
knowledge graph packages it grew out of. This directory holds TLA+ specifications of
the parts that run concurrently, or in several steps of which each can fail; the TLC
runs that check them on small instances; and the TLAPS proofs of what matters most.

Paths below are relative to the root of the repository.

## 1. Inventory

### 1.1 The parts and how they interact

A server process (`codeintel_rev/app/main.py`) builds one `ApplicationContext`
(`app/config_context.py`). The context owns *runtime cells*, lazy holders of the
expensive objects (FAISS index, embedder, hybrid engine, XTR index ...). Requests
arrive on the event loop; the tools run partly there and partly in worker threads, and
reach for the cells from both. The cells read index files through the version
directory that `CURRENT` names; the index CLI and the admin endpoints of any process
publish new versions there and then reload the cells. Texts are embedded through a
provider that fuses the calls of many threads into batches on one worker thread.
Chunks and symbols are read from DuckDB through a connection pool. The scope of a
client's session is kept in a two-layer store, in process and in Redis.

    event loop, worker threads, SIGHUP handler
      |-- ScopeStore ------------> Redis
      |-- ApplicationContext --> RuntimeCell* --> FAISS, embedder, hybrid, ...
      |                                |               |
      |                                |               '--> BatchExecutor --> worker
      |                                '--> versions/<CURRENT>  <-- IndexLifecycle
      '-- DuckDBManager (pool)                                  (server, CLI)

| Part | State | Operations | What is hard | What makes it correct |
|---|---|---|---|---|
| Runtime cell, `codeintel_rev/runtime/cells.py` | payload, state, generation counter, cooldown, last error, number of waiters | `get_or_initialize`, `seed`, `close`/`invalidate`, `record_failure` | threads initialize, wait, time out, close and fail one cell in any order; a factory runs outside the lock and may hang or be aborted | waiters are counted and woken; an initializing cell has an initializer; single flight; a payload is disposed of once; calls return |
| Batch executor, `codeintel_rev/embeddings/embedding_service.py` | bounded queue, stop event, the worker's batch, futures | `submit`, the worker loop, `close` | submit and close race with the worker; full queue; sentinel and stop event both end the loop; a batch fails | each job answered once, with its own rows; batches bounded; the worker ends; callers return |
| DuckDB pool, `codeintel_rev/io/duckdb_manager.py` | LIFO queue of idle connections, counter of open ones | `connection` (acquire, release), `close` | queue and counter change one after the other; close with connections checked out; a blocking get without a timeout | one thread per connection; open connections bounded; the counter exact; blocked callers served |
| Scope store, `codeintel_rev/app/scope_store.py` | L1 cache with TTL, in-flight fetches; Redis outside | `get`, `set`, `delete`, `evict_l1` | tasks interleave at each await; callers are cancelled; Redis fails, expires, holds bytes that do not decode | one fetch at a time; layers agree; every get returns; stale entries disappear |
| Index lifecycle, `codeintel_rev/indexing/index_lifecycle.py` | staging and final version directories, `CURRENT.tmp`, `CURRENT`, the symlink `current` | `prepare`, `publish`, `rollback`, `link_lucene_assets` | several processes without a lock; death between any two calls of the file system | a manifest means a complete version; `CURRENT` names a version that exists; it is never torn; the symlink follows |
| Index serving, `codeintel_rev/app/config_context.py`, `app/main.py`, `mcp_server/adapters` | the FAISS loaded flag and its lock, the CPU index, the search method of the manager, which `_faiss_guard` replaces for a while | `ensure_faiss_ready`, semantic and deep searches, `reload_indices`, SIGHUP, `close_all_runtimes` | a load races with a reload whose two halves are not one; the signal handler runs on a thread that may hold the lock; guards of two searches overlap | after a reload nothing older is served; the flag tells the truth; the wrapper is taken off; the event loop comes back |
| FAISS manager, `codeintel_rev/io/faiss_manager.py` | primary and secondary index, id sets, three files | build, add, update, merge, save, load | saves that tear; restarts between any two calls; the build pipeline writes the same files; a merge that is repeated | a chunk is held once, what is skipped as known is held, what was saved stays saved |

The other parts (`PROJECT.json`, "components", lists all thirty) are sequential:
request handlers, readers and builders of index files, scoring, configuration,
command line scripts, and the older packages. They keep no shared state that two
actors change, or only wrap a library.

### 1.2 Hazards

`PROJECT.json`, "hazards", lists 40 places, each at its line, with the properties
that would notice it going wrong. Seven have no property, mostly because
the code has no step that could keep the promise, so that a property would only restate a missing line; each note says why.

## 2. Modules

| Module | Role |
|---|---|
| `RuntimeCell` | the cell and its callers; one action is one section under its lock |
| `PayloadSlot` | abstract: what the cell promises about payloads |
| `BatchExecutor` | callers, worker and closers around the bounded queue |
| `DuckDBPool` | users and closers around the queue of idle connections and the counter |
| `ScopeStore` | tasks of one event loop around L1, the single flight and Redis |
| `IndexLifecycle` | processes around the version directories, `CURRENT` and the symlink |
| `FaissServing` | searches, reloads, the signal handler and shut-down around the loaded index |
| `FaissStore` | the two indexes of a manager, the identifiers it remembers and their files |
| `EmbedCalls`, `Leases`, `ScopeRegister`, `Releases`, `ServedIndex`, `ChunkSets` | abstract: what `BatchExecutor`, `DuckDBPool`, `ScopeStore`, `IndexLifecycle`, `FaissServing` and `FaissStore` promise, in this order |
| `MCFaiss` | `FaissServing` and `FaissStore` side by side, for one run |
| `MC<module>` | the instances for TLC, and further statements of docstrings that TLC refutes |
| `<module>Proofs` | the theorems about the module: all but the abstract ones have one |

Each component implements its abstract specification under the refinement mapping at
the end of its module, which TLC checks in a run of the component and TLAPS proves.
The abstract modules know neither locks nor program counters. What a promise does not
survive is a variable of theirs (`closing`, `loose`, `astray`), which the mapping sets
from the component's history.

Each component's module has a section "Faulty variants": forms of its actions with a plausible
bug. They are no part of the specification; each shows that some property can fail.

### 2.1 RuntimeCell

The code holds a condition variable's lock for each section of `get_or_initialize`
and leaves it to wait, to run the factory and to dispose of a payload. The actions are
these sections. A thread is at `enter` when it is about to (re)start the loop, `waiting`
asleep on the condition, `woken` about to take the lock again, `run` inside its
factory, `dispose` between `close`'s lock and the hook of the payload.

* `EnterAndLeave`, `EnterAndWait`, `EnterAndInitialize`: the branches of the loop's
  first section (cooldown, ready, back-pressure by `max_waiters`, deadline, wait,
  begin to initialize).
* `WakeAndWait`, `WakeAndLeave`, `WakeAndRetry`: `_wait_for_initializer` after
  `wait()` returned.
* `FactoryReturns`, `FactoryRaises`: `_handle_init_success` and `_failure`;
  `FactoryAborts`: an exception that is no `Exception` passes the handler by.
* `Seed`, `Close`, `Dispose`, `RecordFailure`, and time: `DeadlinePasses`,
  `CooldownExpires`.

A payload is the generation number it was built under. Left out: `peek`, `__bool__`,
the observer and the adjuster hooks (no state of the cell), `value_generation` (the
model's `value`), a factory that returns `None` (no factory of the repository does),
and a cooldown of zero or less, which `record_failure` sets and which never holds.

`PayloadSlot` knows payloads only: building, cached, gone, released. `RuntimeCell`
implements it under the mapping at the end of its module.

### 2.2 BatchExecutor

`Submit` reads the stop event and `Enqueue` puts the job: between the two everything
may happen, which is how `submit` is written. The worker's `Check`, `NextNone`,
`NextJob`, `GatherJob`, `GatherEnds`, `Emit`, `Deliver`, `BatchDone` are the loop of
`_run` with `_next_job` and `_gather_jobs`; timeouts of `get` are the choice to go on
without a job. `Deliver` sets one future at a time. A closer sets the event, puts the
sentinel - a blocking put - and joins for at most a second, after which the provider
releases its resources whatever the worker does. A batch is taken to give one row per
text, which is what `_emit`'s providers return; rows are named after their texts.

`EmbedCalls` knows a call, from its texts to its answer: it is answered once, while it is
in progress, with the rows of its own texts or a failure. Queue, batches, the offset
and closes are hidden.

### 2.3 DuckDBPool

With `pool_size > 0` (without a pool no state is shared). `_acquire_connection` is
`TakeIdle` or `Miss`, then under the lock `Create`, `CreateFails` or `Exhausted`, then
the blocking `TakeReturned`. `_release_connection` is `Release`, or `Overflow` and
`Lower`. `close` drains one connection at a time, and then resets the counter. The
LIFO order is abstracted to a set: connections are alike. `forgotten` counts the
connections that were open when `close` reset the counter.

`Leases` lends connections: to one user each, a new one only below an allowance, and
none is lost before a close begins. The counter is hidden: what replaces it is the number
of connections that are open, which the code never looks at.

### 2.4 ScopeStore

One session: sessions share nothing but the size of L1, whose evictions `EvictL1`
stands for. A task runs from await to await, so an action is all it does in between; a
write's L1 half (`SetBegins`, `DeleteBegins`) and Redis half (`RedisWrites`,
`WriteFails`) are two actions. The fetch of the single flight is a task of its own,
named after the getter that started it, and survives that getter's cancellation. Redis
may raise before or after it applies a write. A scope is the number of the `set` that
wrote it; L1 entries have an age, at `Expired` they no longer count. `deleted` is history:
a delete has succeeded with which no `set` was at work (`clear`), and no `set` has begun
since. Several server processes with an L1 each are not modelled: the code makes
no promise about them.

`ScopeRegister` is one register that may forget what it holds but never brings back an
older value. L1, Redis and what fetches carry are its copies (`Kept`); while a write is
at work on Redis the register holds what that write is to leave (`Held`). From the first
write that overlaps another call or fails (`raced`) it promises nothing.

### 2.5 IndexLifecycle

An action is one call of the file system that another process can observe: a rename,
the truncating `open`, the write at `close`, `unlink`, `symlink`. A handle follows its
file through a rename, so `fd` says which name it writes to. Two writes of different
length to one file leave a mixture, `Garbled`. A version's directory is the set of
parts copied into it, `"lucene"` being what `link_lucene_assets` copies; a part is copied
or removed in one step. That call removes what an earlier one has linked before it copies
(`ClearLucene`, `CopyLucene`), so a directory that held nothing else is empty in between,
and a publish may be renamed onto it. Any step may raise, and a process
may die, between two actions (`Stop`). Left out: `write_attrs` and
`write_embedding_metadata`, which rewrite files no property here is about, and
checksums.

`Releases` is the index directory as a reader sees it: a version is absent, empty, linked
(Lucene assets and nothing else), partial or complete. It becomes complete in one step, from
an empty directory or none, and for good; a partial one never does; a linked one may be
emptied, and then published. `active` moves only to a version that a call chose. The rename of the staging directory, the two renames of `CURRENT.tmp`
and the symlink are hidden; `loose` says that switches overlapped.

### 2.6 FaissServing

Threads are of three kinds. A *semantic* search runs in a worker thread from begin to
end and ignores whether the index is ready. A *deep* search makes the index ready on
the event loop, which is busy (`loop`) meanwhile, and then searches in a worker thread.
A reload runs on the event loop (the admin endpoints) or in the SIGHUP handler, which
Python runs on the main thread on top of whatever it interrupts: while the handler is
at work (`Interrupted`), nothing of the loop moves.

* `Check`, `Acquire`, `Read`, `Assign`, `LoadFails`, `LoadEnds`, `Release`:
  `ensure_faiss_ready` with `load_cpu_index` inside it, which reads the file, sets
  `cpu_index` and then exports the id map, a step that can still raise. An exception
  that is not caught ends the call (`Raises`).
* `GuardSave`, `GuardWrap`, `GuardEnds`: `_faiss_guard` reads `manager.search`,
  replaces it, and puts back what it read. The wrapper is bound to
  the manager, which its call passes on in the place of the query: a deep search that
  meets it has one argument too many and fails, and `Lookup` says so.
* `Lookup`, `Search`: `FAISSManager.search` tests `cpu_index` and reads it again.
* `ReloadBegins`, `ReloadAcquires`, `ReloadClears`, `ReloadDrops`: `reload_indices`
  clears the flag under the lock and drops the index after it.
* `CloseBegins`, `CloseEnds`: `close_all_runtimes`. `Replace`: the file changes.

The content of a file is the number of times it was replaced. `_preload_faiss_index`
loads the index at start without setting the flag, so the first request loads it again:
`ServingInit` has both. The cells that a reload closes first are instances of
`RuntimeCell`; nothing here reads them. `floor`, `overlapped` and `crossed` are history.

`ServedIndex` is what a client of the context may think of: contents that are replaced,
one that is served, and whether it is called ready. An index that is ready is there and
is neither exchanged nor dropped, and a load never goes behind a reload that has
returned. `loose` is `overlapped`, or a server that closes.

### 2.7 FaissStore

One action is one method of `FAISSManager`, or one file the build pipeline writes from
another process. An index is a count for each identifier, because FAISS adds what it is
given, duplicates too; a file is an index, absent (`None`) or cut short (`Torn`): none of
the writes is atomic, and each may raise half-way. The file of identifiers is written or
removed after memory has changed, and may stay as it was when that raises; so may the
indexes when FAISS raises in an update, but for the empty secondary it created. `Restart`
is a crash: it keeps the files only. `update_index` writes the identifiers before any vector is saved, and makes a
new secondary without looking for one on disk; `merge_indexes` writes neither index.
`exposed`, `orphaned`, `parted` and `hidden` name the situations in which a promise no
longer holds, and nothing else excuses a violation. Left out: vectors and scores, tuning,
the choice of the index family, meta data, an identifiers file that is there and cannot be
opened.

`ChunkSets` is the same manager without remembered identifiers: an update adds what
neither index has, a merge moves what the one has into the other. That the code's id
sets stand in for such a look, except where `astray` says that identifiers read from
disk ran ahead, is the refinement.

## 3. Properties, runs and bounds

| Run | Question | Instance |
|---|---|---|
| `cell_sound` | all safety properties of the cell, and that calls return when factories end | 3 threads, 1 waiter, no timeout, 4 generations |
| `cell_hang` | with a timeout no caller stays behind a factory that hangs or aborts; the cell implements `PayloadSlot` | 3 threads, 2 waiters, 3 generations |
| `cell_stale` (violation) | "tracks generation numbers to detect stale values" | 3 threads, unlimited waiters |
| `batch_sound` | jobs conserved, rows aligned, batches bounded; the executor implements `EmbedCalls`; jobs taken are answered, the worker ends, submits return until a close | 3 callers of 1 or 2 texts, 1 closer, queue of 1, batches of 3 |
| `batch_drain` (violation) | "Stop the background worker and drain the queue." | 2 callers, queue of 2 |
| `pool_sound` | exclusive use, bounded connections, exact counter; the pool implements `Leases`; blocked callers served until a close | 3 users, 2 closers, pool of 2 |
| `pool_stranded` (violation) | "Pool exhausted, block until one is returned" | 2 users, 1 closer, pool of 1 |
| `scope_sound` | one fetch, agreement of the layers; the store implements `ScopeRegister`; gets return, stale scopes heal | 3 tasks, 2 sets, any number of deletes |
| `scope_delete` (violation) | "Remove cached scope for session_id from both layers." | 2 tasks, 1 set |
| `lifecycle_sound` | what a manifest, `CURRENT` and the symlink promise; the file system's calls implement `Releases` | 2 processes, 2 versions, 5 calls |
| `lifecycle_torn` (violation) | "designed to be safe for concurrent access" | the same |
| `faiss_sound` | nothing stale is served after a reload, the wrapper comes off but for a named interleaving, loads and reloads implement `ServedIndex`, the event loop comes back; chunks are held once, held if skipped, and stay saved, but for named causes, and the manager implements `ChunkSets` | 2 semantic searches, 1 deep search, 2 replacements; 2 identifiers, 2 copies |

Why these bounds are enough for the interesting cases:

* *Cell.* Three threads are the least with which an initializer, a waiter and a thread
  that closes or fails the cell meet; a fourth would be a second waiter, which
  `cell_hang` has. `MaxGeneration` bounds the generations minted: a call begins only
  while the bound leaves room for the generation it may mint, so the bound stops calls
  from starting and never blocks one midway. Three generations are a stale initializer,
  its successor and a seed.
* *Batch.* A queue of one is always full or empty, so that put, close and worker block
  each other; batches of three texts out of jobs of one or two let a job overshoot the
  target; three callers give a batch of two jobs and one job left behind.
* *Pool.* Two closers are needed to reset the counter twice; more users than
  connections to block. `Conns` are names for the connections open at a time; the
  instance's assumption `EnoughNames` says that they never run out.
* *Scope.* Two sets are the least that Redis can apply in the other order; three tasks
  are two of them and a fetch. `MaxWrites` bounds the calls of `set`; all other calls
  are unbounded. An age of 0..2 distinguishes fresh, older and expired.
* *Lifecycle.* Two processes and two versions are the least in which one publishes what
  the other stages and switches to another version; `MaxCalls` bounds the calls made,
  five being stage, publish, stage, publish and one rollback or link in any mixture.
  Symmetry is used in these runs, which have no liveness property.

* *FAISS.* Two semantic searches are the least whose guards overlap, and one of them
  holds the lock while the other, the deep search on the loop or the handler waits; both
  reloaders are always there. Epochs 0..2 (`MaxEpoch`) are no file, the old one and the
  new one. Two identifiers are one that is in an index and one that is not, each a
  batch of its own or both together; `MaxCopies` of two is the first repetition. All
  calls of the store are unbounded. The two halves share no variable, so the run
  chooses one at the start; the theorems are about each alone.

Deadlock is not checked where the system may stop: a submit or a get that blocks for
ever after a close (which the violation runs are about), a handler that waits for its
own thread, and every bounded number of calls. It is checked in the runs of the cell, where close is always possible.

Constants called `Max...` are bounds of the model, except `MaxWaiters`, which is the
code's `max_waiters`.

### Fairness

* *Cell.* `ClockSpec`: a thread that is inside a call and not blocked goes on, and
  deadlines pass: the operating system's scheduler and clock. Nothing is assumed of
  factories there: they may hang. `FactorySpec` adds that factories end, used only where
  there is no wait timeout. No call is ever assumed to begin.
* *Batch.* Weak fairness of the worker (a thread that is runnable, emissions end) and
  of the steps after a future is set or a join has timed out. Strong fairness of a
  blocked `put`: `queue.Queue` wakes its waiting putters, and one that sleeps gets its
  turn if slots keep falling free.
* *Pool.* Users give back what they hold (`connection()` is a context manager with a
  `finally`), callers past the first look go on, close goes on. Strong fairness of the
  blocking get, for the same reason as above. Beginning a call is not assumed.
* *Scope.* Redis answers or raises (a connection that is lost breaks in the end), the
  event loop runs the tasks, the clock runs; the TTL of L1 is positive, 300 s unless
  configured otherwise. `Heals` rests on that TTL.
* *Lifecycle.* No liveness: a process may die anywhere, and no operation waits.
* *FAISS.* `ServingFairness`: a worker thread that holds the lock goes on (the
  scheduler). Strong fairness of the main thread, for the loop's code and the handler's:
  a stream of signals interrupts the loop again and again, but Python runs bytecode of
  it in between, and a lock that is released again and again is obtained in the end.
  Searches are not assumed to begin, or to end. The store has no liveness.

## 4. What the runs found

Each violation run quotes a docstring or comment and shows what the code does instead:

1. `NoStalePublish`: `close` while a factory runs, and the factory later publishes over
   the payload of a newer generation, which is never disposed of. No generation is ever
   compared.
2. `CloseDrains`: the executor's `close` sets the stop event first; the worker leaves
   with jobs still queued, and their callers block for ever.
3. `BlockedHasHope`: a caller blocks without a timeout on a pool that `close` empties.
4. `DeleteRemoves`: a fetch that read Redis before a `delete` installs the scope in L1
   after it, although no `set` overlapped the delete or followed it.
5. `ActiveNeverLost`: two processes write one `CURRENT.tmp`; the rename of one installs
   the file the other has just truncated, and CURRENT, which named a version, is empty.

`FaissServing` and `FaissStore` have no violation run. One docstring does promise what
their exceptions break: that of `_faiss_guard`, "Track FAISS search failures and restore
the manager after invocation." (`mcp_server/adapters/semantic.py`), and `crossed` below is
a flaw measured by it. For the others no docstring says what happens. What the code does
is in the exceptions the properties name, each reachable:

* A load that begins between the two halves of a reload leaves the flag set without an
  index, and every search fails until the next reload (`overlapped`).
* A signal that arrives while the main thread holds the FAISS lock waits for its own
  thread for ever (`SelfDeadlocked`).
* Guards of two semantic searches that end in the order they began leave a wrapper on
  the manager for good, and every deep search fails on it: the manager is not restored
  (`crossed`).
* A crash between `update_index` and `save_secondary_index` leaves identifiers on disk
  that no index holds: they are skipped as known, and cannot be found (`orphaned`).
* An update after a restart, before the secondary is loaded, starts a new secondary, and
  the next save overwrites the vectors saved before (`hidden`).

The MC modules keep more statements of docstrings that TLC refutes when they are put
into a configuration: `SingleFlight` and `SeedServesCalls` of the cell (single flight
holds up to the resets counted by `interrupts`; a seed does not end a cooldown),
`NoJobAfterClose`, `CloseReturns` and `ReleasedQuiet` of the executor, and
`LiveBounded` of the pool.

## 5. What is proved

For every value of the constants that satisfies the modules' assumptions
(`ConstantsAssumption`, `SizesAssumption`, `PoolAssumption`, `StoreAssumption`,
`NamesAssumption`, `ServingAssumption`: finite sets of actors where they are counted,
naturals where the code has them, names that are told apart from broken files). Each proof module states an inductive invariant, proves
that the initial states satisfy it and that each action keeps it, and reads its
theorems off. Facts about Boolean history variables are kept in a part of their own
(`Flags`), because no single prover handles them together with sets and functions.

* **RuntimeCellProofs.** `IInv` adds to the types: `OnePlace`, every generation is
  with one thread, or cached, or disposed of (all of these together, since a payload
  goes from one to the next); `Waking`, the conjunction of `NoLostWakeup`,
  `ReadyHasPayload` and `InitializerAlive`; `Counted`, the waiters counted are the
  blocked threads; `RoomKept`, the bound leaves room for the calls begun; and `Flights`,
  which sharpens the single flight: of the factories at work one belongs to the state
  "initializing", the others to resets. Theorems: `TypeCorrect`, `WaitersAreCounted`,
  `NoWakeupIsLost`, `InitializerIsAlive`, `ReadyIsFull`, `SingleFlightKept`,
  `PayloadsDisposedOnce`; and `CellImplementsSlot`, that the cell implements
  `PayloadSlot`, whose guards follow from `OnePlace`.
* **DuckDBPoolProofs.** `Counted`: the open connections and the threads about to lower the
  counter are at most the counter and the forgotten connections together; `Exact`: until the first
  close they are equal to the counter and nobody is about to lower it. With the finite
  cardinalities of disjoint unions this gives `PoolTypes`, `ExclusiveUse`,
  `OpenConnectionsBounded`, `CounterIsExact`.
* **ScopeStoreProofs.** `Flight`: the fetches at work are the registered one, and its
  getters await it, also when the getter it is named after is gone. `Quiet` and
  `Erased`: while no write was raced, a fetch at work has read what Redis still holds
  or nothing; that is what makes its later install harmless. Theorems: `StoreTypes`,
  `SingleFetch`, `LayersAgree`.
* **IndexLifecycleProofs.** `Staged`: a version that can still be published is staged in
  order, whoever stages it, and one that cannot is out of reach of a second stager -
  this is why `BeginStaging` on a version that was published meanwhile is harmless. A
  directory with Lucene assets alone counts as one that can (`Open`), since they may be
  removed again. `Rooted`: whatever has something in it is a directory.
  `Named`: the versions `CURRENT` or `CURRENT.tmp` hold, or that a switching process
  carries, since the rename publishes what was written earlier. `AloneOnTmp` and
  `InStep`: what one process at a time in the switch keeps, needed to follow
  `CURRENT` from the open over the rename to the symlink. Theorems: `LifecycleTypes`,
  `ManifestCommits`, `CurrentHasDirectory`, `CurrentIsCommitted`, `CurrentWhole`,
  `LinkIsCurrent`.

* **BatchExecutorProofs.** `Current` and `PlacedOnce`: what is queued or taken is the
  job its caller waits for now, and a waiting caller's job is in the queue once, or in
  the batch once, or answered; the sums of `JobsConserved` follow, but are not inductive
  themselves, since they do not say that a queued job is a *current* one. `LaidOut`:
  there is a function from the jobs left to the places where their texts begin among
  the fused ones, the first being the running offset; appending a job extends it
  (`LaidAppended`), delivering one cuts its own texts out and drops the first place
  (`LaidDelivered`). Theorems: `ExecutorTyped`, `NoJobLost`, `RowsOfOwnTexts`,
  `BatchStopsInTime`.
* **FaissServingProofs.** `Locks`: who is between acquire and release holds the lock.
  `Reads`: a load that has read the file has read it no earlier than any reload that has
  returned, or has cleared the flag, began - `NeverStale` alone does not survive the
  step that assigns the index. `ApartUnless`: while no load began inside a reload, none
  is at work or has ended there. `GuardsNest`: while none crossed, a wrapper has an
  outermost guard that saved the manager's own method. Theorems: `ServingTyped`,
  `ReloadTakesEffect`, `LoadedTruthful`, `GuardsRestore`.
* **FaissStoreProofs.** `PrimaryIdsExact`; `Single` and `Known`: no index or file repeats
  an identifier, and the secondary holds nothing that is neither remembered nor in the
  primary, which is why an update or a merge cannot repeat one; `PrimaryDescends` and
  `SecondaryDescends`: an index in memory holds what its file holds, up to what the
  primary file has, which makes overwriting that file safe. Theorems: `StoreTyped`,
  `AddedOnce`, `KnownIsHeld`, `SavesKeep` (an action property).

Refinements. Each component's step maps to a step or a stutter of its abstract
specification; each proof needs facts that no run's invariant states:

* `CellImplementsSlot` and `ExecutorImplementsCalls` follow from the invariants above:
  `Deliver` answers a call that still waits (`PlacedOnce`) with its own rows (`LaidOut`).
* `PoolImplementsLeases` needs `Exact` and `OverflowsOnlyClosed`: before a close the
  counter is the number of open connections, so `Create` lends within the allowance and
  no release meets a full queue.
* `StoreImplementsRegister` adds `Latest` (a `set` at work carries the newest scope, and L1
  is empty under a fetch) and derives from it `OneScope`: all copies left are the same
  scope. `UnderWrite` covers the time between the two halves of a write.
* `LifecycleImplementsReleases` adds `Opened` (the directory `link_lucene_assets` clears
  and copies into is there) and uses `Staged` for the rename that makes a version
  complete, which may follow right upon `ClearLucene`. `OnlyWithdraws` covers the calls that touch neither a directory nor
  `CURRENT`: the versions chosen become fewer at most.
* `ServingImplementsServed` adds `Loading`: a load is at work only while the flag is
  down, because it looked at the flag under the lock, and only with contents the file
  has had. With `ApartUnless` no reload drops an index that is called ready.
* `StoreImplementsChunks` rests on `PrimaryIdsExact` and `Known`: what is remembered is
  what a look into the two indexes would find, unless it was read from disk without them.

Each liveness property rests on a state in which somebody who is waited for can go on.
That there is one is safety, stated next to the property and proved: `BlockedAreLentTo`
(who blocks on an empty pool waits for a user of a connection), `FetchesAreAwaited` (a
getter waits for a fetch at work), `WaitersAreServed` (a job that is not answered is on
the queue or in a batch of a worker at work, and the worker leaves only after a close),
`MainWaitsForWorkers` (the main thread waits for the FAISS lock only while a worker thread
loads, or for itself; it needs `OnLoop`, that a deep search makes the index ready
exactly while the loop is busy with it). `NoWakeupIsLost` and `InitializerIsAlive` are the
same for the cell. These formulas were checked by TLC on the instances of the runs
before they were proved; they are no properties of the runs, which check what follows
from them under fairness.

TLC checked every invariant before it was proved. Every safety and action property of a
passing run is a theorem, all seven refinements included. The type invariants and
`LoadedMeansIndex`, which `ServedIndex` implies, are theorems without a run. Only
model-checked: the liveness properties `GetReturns` (of the cell and of the store),
`TakenJobsAnswered`, `WorkerStops`, `SubmitReturns`, `WaitersServed`, `Heals` and
`LoopReturns`, since fairness and `ENABLED` are out of the prover's reach, and the five
violations, which are counterexamples. No proof needs induction over data: the places of
jobs in a batch are a function that each step extends (`LaidAppended`).

## 6. What is not modelled

* *Of the modelled parts:* the construction of the application context, its catalog and
  `get_xtr_index`; tuning, meta data and families of indexes; `write_attrs` and
  `write_embedding_metadata`; what `_hydrate_findings` does with scores; the steps of
  start-up that run in sequence; the tuning endpoints. Each either keeps no state that
  two actors change, or breaks its promise in one step, which a hazard's note says.
* *The other components,* listed in `PROJECT.json` with the reason: pure functions over
  floats or strings, wrappers of libraries (Lucene, ONNX, Redis, Git, HTTP), request
  handlers without state, sequential scripts, configuration, tools, generated files.
  The repository has some 130,000 lines of implementation, nearly all of this kind; the
  concurrent core modelled here is a small share of them, and a specification of the
  rest would have no interleaving, failure or ordering to say anything about.
* Logging, metrics, observers and messages are left out everywhere.

## 7. What would come next

1. `write_attrs` in `IndexLifecycle`: a manifest that is rewritten in place can be torn
   after it was published, so `ManifestCommits` would need the contents of manifests.
2. The endpoints that switch a version and then reload, as a composition of
   `IndexLifecycle` and `FaissServing` through `paths.faiss_index`: `Replace` stands for
   the switch now.
3. The order and the limit of weighted reciprocal rank fusion and the decision table of
   the gate as operators, each against a definition.
