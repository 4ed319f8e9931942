------------------------------ MODULE FaissServing ------------------------------
(***************************************************************************)
(* How the server loads, serves and reloads its FAISS index                *)
(* (ApplicationContext in src/codeintel_rev/app/config_context.py, the     *)
(* SIGHUP handler of app/main.py, the search tools of mcp_server/adapters  *)
(* and FAISSManager.search in io/faiss_manager.py).                        *)
(*                                                                         *)
(* Three kinds of threads share the index, its loaded flag and a lock that *)
(* is not reentrant:                                                       *)
(*   - worker threads run semantic searches from begin to end;             *)
(*   - the main thread runs the event loop: deep searches make the index   *)
(*     ready there and then search in a worker thread, and the admin       *)
(*     endpoints reload there;                                             *)
(*   - a signal handler interrupts the main thread anywhere and reloads on *)
(*     top of it.                                                          *)
(* The content of the index file is the number of times it was replaced.   *)
(* The cells that reload_indices closes first are instances of RuntimeCell *)
(* and nothing here reads them.                                            *)
(***************************************************************************)
EXTENDS Naturals, FiniteSets

CONSTANTS
  Semantic,   \* worker threads that run semantic searches
  Deep,       \* requests for deep searches
  MaxEpoch    \* bound on the replacements of the index file

Callers == Semantic \union Deep
Reloaders == {"loop", "signal"}
Idle == "idle"
Unlocked == "unlocked"

ASSUME ServingAssumption ==
  /\ Semantic \intersect Deep = {}
  /\ Callers \intersect (Reloaders \union {Unlocked, "free", "reload", "close", "closed"}) = {}
  /\ MaxEpoch \in Nat \ {0}

VARIABLES
  file,        \* epoch of the file at paths.faiss_index, 0 while there is none
  index,       \* epoch of faiss_manager.cpu_index, 0 for None
  loaded,      \* _FaissRuntimeState.loaded
  lock,        \* who holds _FaissRuntimeState.lock
  loop,        \* what the event loop is busy with
  step,        \* where each caller is
  got,         \* the epoch each loading caller has read from the file
  frame,       \* where each activation of reload_indices is
  goal,        \* the epoch of the file when that activation began
  wrapped,     \* faiss_manager.search is a wrapper of _faiss_guard
  saved,       \* whether what each guard saved was a wrapper already
  floor,       \* history: a reload that began at this epoch has ended
  overlapped,  \* history: a load began between the two halves of a reload
  crossed      \* history: a guard ended before one that was set upon it

guards == <<wrapped, saved, crossed>>
reloads == <<frame, goal, floor>>
servingVars == <<file, index, loaded, lock, loop, step, got, frame, goal,
                 wrapped, saved, floor, overlapped, crossed>>

\* The handler runs on the main thread: what it interrupted waits for it.
Interrupted == frame["signal"] # Idle
Runs(c) == c \in Deep /\ loop = c => ~Interrupted

\* Between clearing the flag and dropping the index.
HalfReloaded == \E r \in Reloaders : frame[r] = "drop"
Guarding(c) == step[c] \in {"wrap", "stage0"}

ServingInit ==
  /\ file \in {0, 1}
  /\ index \in {0, file}           \* _preload_faiss_index may have run
  /\ loaded = FALSE /\ lock = Unlocked /\ loop = "free"
  /\ step = [c \in Callers |-> Idle]
  /\ got = [c \in Callers |-> 0]
  /\ frame = [r \in Reloaders |-> Idle]
  /\ goal = [r \in Reloaders |-> 0]
  /\ wrapped = FALSE /\ saved = [c \in Callers |-> FALSE]
  /\ floor = 0 /\ overlapped = FALSE /\ crossed = FALSE

\* The CLI, or publish through CURRENT, replaces the file under the server.
Replace ==
  /\ file < MaxEpoch
  /\ file' = file + 1
  /\ UNCHANGED <<index, loaded, lock, loop, step, got, reloads, guards, overlapped>>

Moves(c, to) == step' = [step EXCEPT ![c] = to]

\* A deep search gives up when the index is not ready and leaves the loop; a
\* semantic search ignores the flag.
NotReady(c) ==
  /\ Moves(c, IF c \in Deep THEN Idle ELSE "guard")
  /\ loop' = IF loop = c THEN "free" ELSE loop

\* An exception that ensure_faiss_ready does not catch ends the call.
Raises(c) ==
  /\ Moves(c, Idle)
  /\ loop' = IF loop = c THEN "free" ELSE loop


(***************************************************************************)
(* Faulty variants of the definitions below, one per property: no part of  *)
(* the specification, they show that each property can fail.               *)
(***************************************************************************)
\* The index is loaded without waiting for the lock.
AcquireAnyway(c) ==
  /\ step[c] = "acquire" /\ Runs(c)
  /\ lock' = c
  /\ Moves(c, IF loaded THEN "release" ELSE "read")
  /\ overlapped' = (overlapped \/ (~loaded /\ HalfReloaded))
  /\ UNCHANGED <<file, index, loaded, loop, got, reloads, guards>>

\* The flag is not looked at again under the lock.
AcquireUnchecked(c) ==
  /\ step[c] = "acquire" /\ Runs(c) /\ lock = Unlocked
  /\ lock' = c
  /\ Moves(c, "read")
  /\ overlapped' = (overlapped \/ (~loaded /\ HalfReloaded))
  /\ UNCHANGED <<file, index, loaded, loop, got, reloads, guards>>

\* The lock is released on success only.
LoadFailsHolding(c) ==
  /\ step[c] \in {"read", "export"} /\ Runs(c)
  /\ NotReady(c) \/ Raises(c)
  /\ UNCHANGED <<file, index, loaded, lock, got, reloads, guards, overlapped>>

\* The wrapper is taken off without a finally clause.
GuardEndsUnrestored(c) ==
  /\ step[c] = "stage0"
  /\ wrapped' \in {wrapped, saved[c]}
  /\ Moves(c, Idle)
  /\ saved' = [saved EXCEPT ![c] = FALSE]
  /\ crossed' = (crossed \/ (~saved[c] /\ \E d \in Callers : Guarding(d) /\ saved[d]))
  /\ UNCHANGED <<file, index, loaded, lock, loop, got, reloads, overlapped>>

-----------------------------------------------------------------------------
(* Calls of ensure_faiss_ready. *)

Begin(c) ==
  /\ step[c] = Idle /\ loop = "free" /\ ~Interrupted
  /\ Moves(c, "check")
  /\ loop' = IF c \in Deep THEN c ELSE loop
  /\ UNCHANGED <<file, index, loaded, lock, got, reloads, guards, overlapped>>

Check(c) ==
  /\ step[c] = "check" /\ Runs(c)
  /\ IF file = 0 THEN NotReady(c) ELSE Moves(c, "acquire") /\ UNCHANGED loop
  /\ UNCHANGED <<file, index, loaded, lock, got, reloads, guards, overlapped>>

Acquire(c) ==
  /\ step[c] = "acquire" /\ Runs(c) /\ lock = Unlocked
  /\ lock' = c
  /\ Moves(c, IF loaded THEN "release" ELSE "read")
  /\ overlapped' = (overlapped \/ (~loaded /\ HalfReloaded))
  /\ UNCHANGED <<file, index, loaded, loop, got, reloads, guards>>

Read(c) ==
  /\ step[c] = "read" /\ Runs(c)
  /\ got' = [got EXCEPT ![c] = file]
  /\ Moves(c, "assign")
  /\ UNCHANGED <<file, index, loaded, lock, loop, reloads, guards, overlapped>>

Assign(c) ==
  /\ step[c] = "assign" /\ Runs(c)
  /\ index' = got[c]
  /\ got' = [got EXCEPT ![c] = 0]
  /\ Moves(c, "export")
  /\ UNCHANGED <<file, loaded, lock, loop, reloads, guards, overlapped>>

\* Reading the file fails, or exporting the id map after the index was set.
LoadFails(c) ==
  /\ step[c] \in {"read", "export"} /\ Runs(c)
  /\ lock' = Unlocked
  /\ NotReady(c) \/ Raises(c)
  /\ UNCHANGED <<file, index, loaded, got, reloads, guards, overlapped>>

LoadEnds(c) ==
  /\ step[c] = "export" /\ Runs(c)
  /\ loaded' = TRUE
  /\ Moves(c, "release")
  /\ UNCHANGED <<file, index, lock, loop, got, reloads, guards, overlapped>>

\* The call returns ready; a deep search awaits its worker thread.
Release(c) ==
  /\ step[c] = "release" /\ Runs(c)
  /\ lock' = Unlocked
  /\ Moves(c, IF c \in Deep THEN "search" ELSE "guard")
  /\ loop' = IF loop = c THEN "free" ELSE loop
  /\ UNCHANGED <<file, index, loaded, got, reloads, guards, overlapped>>

-----------------------------------------------------------------------------
(* Searches. *)

\* _faiss_guard reads manager.search, replaces it, and puts back what it read.
GuardSave(c) ==
  /\ step[c] = "guard"
  /\ saved' = [saved EXCEPT ![c] = wrapped]
  /\ Moves(c, "wrap")
  /\ UNCHANGED <<file, index, loaded, lock, loop, got, reloads, wrapped, overlapped, crossed>>

GuardWrap(c) ==
  /\ step[c] = "wrap"
  /\ wrapped' = TRUE
  /\ Moves(c, "stage0")
  /\ UNCHANGED <<file, index, loaded, lock, loop, got, reloads, saved, overlapped, crossed>>

GuardEnds(c) ==
  /\ step[c] = "stage0"
  /\ wrapped' = saved[c]
  /\ Moves(c, Idle)
  /\ saved' = [saved EXCEPT ![c] = FALSE]
  /\ crossed' = (crossed \/ (~saved[c] /\ \E d \in Callers : Guarding(d) /\ saved[d]))
  /\ UNCHANGED <<file, index, loaded, lock, loop, got, reloads, overlapped>>

\* A wrapper is bound to the manager and called with one argument too many.
Lookup(c) ==
  /\ step[c] = "search"
  /\ Moves(c, IF wrapped \/ index = 0 THEN Idle ELSE "use")
  /\ UNCHANGED <<file, index, loaded, lock, loop, got, reloads, guards, overlapped>>

\* The index is read again for the call; by now it may be None, which raises.
Search(c) ==
  /\ step[c] = "use"
  /\ Moves(c, Idle)
  /\ UNCHANGED <<file, index, loaded, lock, loop, got, reloads, guards, overlapped>>

-----------------------------------------------------------------------------
(* reload_indices and close_all_runtimes. *)

OnTop(r) == r = "loop" => ~Interrupted

ReloadBegins(r) ==
  /\ frame[r] = Idle
  /\ IF r = "loop" THEN loop = "free" /\ ~Interrupted /\ loop' = "reload"
     ELSE loop \notin {"close", "closed"} /\ UNCHANGED loop
  /\ frame' = [frame EXCEPT ![r] = "acquire"]
  /\ goal' = [goal EXCEPT ![r] = file]
  /\ UNCHANGED <<file, index, loaded, lock, step, got, guards, floor, overlapped>>

ReloadAcquires(r) ==
  /\ frame[r] = "acquire" /\ OnTop(r) /\ lock = Unlocked
  /\ lock' = r
  /\ frame' = [frame EXCEPT ![r] = "clear"]
  /\ UNCHANGED <<file, index, loaded, loop, step, got, goal, floor, guards, overlapped>>

ReloadClears(r) ==
  /\ frame[r] = "clear" /\ OnTop(r)
  /\ loaded' = FALSE /\ lock' = Unlocked
  /\ frame' = [frame EXCEPT ![r] = "drop"]
  /\ UNCHANGED <<file, index, loop, step, got, goal, floor, guards, overlapped>>

ReloadDrops(r) ==
  /\ frame[r] = "drop" /\ OnTop(r)
  /\ index' = 0
  /\ frame' = [frame EXCEPT ![r] = Idle]
  /\ floor' = IF goal[r] > floor THEN goal[r] ELSE floor
  /\ goal' = [goal EXCEPT ![r] = 0]
  /\ loop' = IF r = "loop" THEN "free" ELSE loop
  /\ UNCHANGED <<file, loaded, lock, step, got, guards, overlapped>>

CloseBegins ==
  /\ loop = "free" /\ ~Interrupted
  /\ loop' = "close" /\ index' = 0
  /\ UNCHANGED <<file, loaded, lock, step, got, reloads, guards, overlapped>>

CloseEnds ==
  /\ loop = "close"
  /\ loop' = "closed" /\ loaded' = FALSE
  /\ UNCHANGED <<file, index, lock, step, got, reloads, guards, overlapped>>

-----------------------------------------------------------------------------
Loads(c) == Read(c) \/ Assign(c) \/ LoadFails(c) \/ LoadEnds(c) \/ Release(c)
Guards(c) == GuardSave(c) \/ GuardWrap(c) \/ GuardEnds(c)
Reload(r) == ReloadBegins(r) \/ ReloadAcquires(r) \/ ReloadClears(r) \/ ReloadDrops(r)

ServingNext ==
  \/ Replace
  \/ \E c \in Callers : Begin(c) \/ Check(c) \/ Acquire(c) \/ Loads(c)
  \/ \E c \in Semantic : Guards(c)
  \/ \E c \in Deep : Lookup(c) \/ Search(c)
  \/ \E r \in Reloaders : Reload(r)
  \/ CloseBegins \/ CloseEnds

ServingSpec == ServingInit /\ [][ServingNext]_servingVars

\* What the main thread goes on with: a call of the event loop, or a handler.
LoopStep ==
  \/ \E c \in Deep : loop = c /\ (Check(c) \/ Acquire(c) \/ Loads(c))
  \/ ReloadAcquires("loop") \/ ReloadClears("loop") \/ ReloadDrops("loop")
  \/ CloseEnds
HandlerStep ==
  ReloadAcquires("signal") \/ ReloadClears("signal") \/ ReloadDrops("signal")

\* The scheduler runs the worker that holds the lock; the main thread runs in
\* spite of a stream of signals, and gets a lock that is released again and again.
ServingFairness ==
  /\ \A c \in Semantic : WF_servingVars(Loads(c))
  /\ SF_servingVars(LoopStep)
  /\ SF_servingVars(HandlerStep)

FairServingSpec == ServingSpec /\ ServingFairness

-----------------------------------------------------------------------------
(* Properties. *)

ServingSteps == {Idle, "check", "acquire", "read", "assign", "export", "release",
                 "guard", "wrap", "stage0", "search", "use"}

\* Every variable keeps its kind of value.
ServingTypeOK ==
  /\ file \in 0..MaxEpoch /\ index \in 0..MaxEpoch /\ floor \in 0..MaxEpoch
  /\ loaded \in BOOLEAN /\ overlapped \in BOOLEAN
  /\ wrapped \in BOOLEAN /\ crossed \in BOOLEAN
  /\ lock \in Callers \union Reloaders \union {Unlocked}
  /\ loop \in Deep \union {"free", "reload", "close", "closed"}
  /\ step \in [Callers -> ServingSteps]
  /\ got \in [Callers -> 0..MaxEpoch]
  /\ saved \in [Callers -> BOOLEAN]
  /\ frame \in [Reloaders -> {Idle, "acquire", "clear", "drop"}]
  /\ goal \in [Reloaders -> 0..MaxEpoch]

\* Once reload_indices has returned, no search gets an index that was read
\* from a file already replaced when the reload began: a load that was under
\* way is either waited for and dropped, or has read the new file.
NeverStale == index # 0 => index >= floor

\* The loaded flag stands without an index only if a load began between the
\* two halves of a reload, or the server shuts down. In that state no later
\* call loads the index: every search fails until the next reload.
LoadedMeansIndex ==
  loaded /\ index = 0 => overlapped \/ loop \in {"close", "closed"}

\* Loads, reloads, the handler and shut-down together do to the index what
\* ServedIndex promises: while it is ready it is neither exchanged nor dropped, and
\* what is loaded is no older than a reload that has returned.
Serving == INSTANCE ServedIndex WITH
             source <- file, served <- index, ready <- loaded, floor <- floor,
             loose <- overlapped \/ loop \in {"close", "closed"}
ImplementsServed == Serving!ServedSpec

\* _faiss_guard promises to restore the manager. It does while guards nest or
\* follow each other; a guard that ends before one set upon it leaves a wrapper
\* behind for good, and every deep search fails on it.
GuardRestored ==
  wrapped /\ (\A c \in Semantic : ~Guarding(c)) => crossed

\* The handler waits for a lock that the code it interrupted holds.
SelfDeadlocked ==
  frame["signal"] = "acquire" /\ lock \in {"loop", loop}

\* What the main thread waits for the lock in: a deep search, a reload of the event
\* loop, or the handler on top of them.
MainWaits ==
  \/ frame["signal"] = "acquire"
  \/ ~Interrupted /\ (frame["loop"] = "acquire" \/ \E c \in Deep : step[c] = "acquire")

\* The main thread waits for nobody but a worker thread that is loading and cannot
\* be interrupted, unless it waits for itself: the safety half of LoopReturns.
MainAwaitsWorker ==
  MainWaits /\ lock # Unlocked /\ ~SelfDeadlocked =>
    lock \in Semantic /\ step[lock] \in {"read", "assign", "export", "release"}

\* What the event loop runs ends - a load or a reload that waits for another
\* thread's load included - unless a signal handler waits for the lock of its
\* own thread.
LoopReturns ==
  (loop \notin {"free", "closed"}) ~> (loop \in {"free", "closed"} \/ SelfDeadlocked)
================================================================================
