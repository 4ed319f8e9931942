---------------------------- MODULE RuntimeCell ----------------------------
(***************************************************************************)
(* The lazy, single-flight holder of a runtime payload                     *)
(* (src/codeintel_rev/runtime/cells.py, class RuntimeCell) and the threads *)
(* that call it.  A payload is identified with the generation number under *)
(* which it was built.  One action is one section under the cell's lock,   *)
(* or one thing that happens outside it (a factory ends, a payload is      *)
(* disposed of, a deadline passes).                                        *)
(***************************************************************************)
EXTENDS Naturals, FiniteSets

CONSTANTS
  Threads,        \* the callers
  MaxWaiters,     \* max_waiters; 0 means unlimited
  WaitTimeout,    \* wait_timeout_ms > 0
  SeedAllowed,    \* _seed_allowed()
  CanAbort,       \* a factory may be left by a BaseException
  MaxGeneration   \* bound on the generations minted

ASSUME ConstantsAssumption ==
  /\ IsFiniteSet(Threads)
  /\ MaxWaiters \in Nat
  /\ MaxGeneration \in Nat
  /\ WaitTimeout \in BOOLEAN /\ SeedAllowed \in BOOLEAN /\ CanAbort \in BOOLEAN

VARIABLES
  state,              \* _state
  value,              \* _value: the generation of the cached payload, or None
  generationCounter,  \* _generation_counter
  cooling,            \* _cooldown_until is set and lies in the future
  lastError,          \* _last_error is not None
  waiters,            \* _waiters
  pc,                 \* where each thread is
  gen,                \* the generation each thread builds or disposes of
  late,               \* the thread's wait deadline has passed
  disposed,           \* payloads whose close or __exit__ hook was run
  interrupts          \* history: initializations the cell was reset under

cell == <<state, value, generationCounter, cooling, lastError>>
vars == <<state, value, generationCounter, cooling, lastError, waiters,
          pc, gen, late, disposed, interrupts>>

None == 0
Pending == {t \in Threads : pc[t] \in {"enter", "waiting", "woken"}}
Running == {t \in Threads : pc[t] = "run"}
Blocked == {t \in Threads : pc[t] \in {"waiting", "woken"}}

Init ==
  /\ state = "empty" /\ value = None /\ generationCounter = 0
  /\ cooling = FALSE /\ lastError = FALSE /\ waiters = 0
  /\ pc = [t \in Threads |-> "idle"]
  /\ gen = [t \in Threads |-> None]
  /\ late = [t \in Threads |-> FALSE]
  /\ disposed = {} /\ interrupts = 0

\* Every call in progress may mint one generation: calls start only while the
\* bound leaves room for theirs, so the bound never blocks a call midway.
Room == generationCounter + Cardinality(Pending) < MaxGeneration

\* pc after thread t moves to l and notify_all() wakes every waiter.
NotifyAll(t, l) ==
  [u \in Threads |-> IF u = t THEN l
                     ELSE IF pc[u] = "waiting" THEN "woken" ELSE pc[u]]

\* The cell is reset while some thread is initializing it.
CountInterrupt == interrupts' = IF state = "initializing" THEN interrupts + 1
                                                          ELSE interrupts

(***************************************************************************)
(* Faulty variants of the definitions below, one per property: no part of  *)
(* the specification, they show that each property can fail.               *)
(***************************************************************************)
\* The deadline is checked on entry only: wait() gets no timeout.
DeadlineIgnoredBySleepers(t) ==
  /\ WaitTimeout /\ t \in Pending /\ ~late[t]
  /\ late' = [late EXCEPT ![t] = TRUE]
  /\ UNCHANGED <<cell, waiters, pc, gen, disposed, interrupts>>

\* waiters is not given back on the way out with an exception.
WakeAndLeaveUncounted(t) ==
  /\ pc[t] = "woken"
  /\ \/ state = "initializing" /\ WaitTimeout /\ late[t]
     \/ state = "failed" /\ lastError
  /\ pc' = [pc EXCEPT ![t] = "idle"]
  /\ UNCHANGED <<cell, waiters, gen, late, disposed, interrupts>>

\* The state is not set to "initializing" before the lock is left.
InitializeUnmarked(t) ==
  /\ pc[t] = "enter" /\ ~cooling /\ state \in {"failed", "empty", "closed"}
  /\ generationCounter' = generationCounter + 1
  /\ gen' = [gen EXCEPT ![t] = generationCounter + 1]
  /\ pc' = [pc EXCEPT ![t] = "run"]
  /\ UNCHANGED <<state, value, cooling, lastError, waiters, late, disposed, interrupts>>

\* The generation is read without being incremented.
InitializeSameGeneration(t) ==
  /\ pc[t] = "enter" /\ ~cooling /\ state \in {"failed", "empty", "closed"}
  /\ state' = "initializing"
  /\ generationCounter' = IF generationCounter = 0 THEN 1 ELSE generationCounter
  /\ gen' = [gen EXCEPT ![t] = generationCounter']
  /\ pc' = [pc EXCEPT ![t] = "run"]
  /\ UNCHANGED <<value, cooling, lastError, waiters, late, disposed, interrupts>>

\* A failed factory wakes nobody, or leaves the cell in "initializing".
RaisesFaulty(t, wake, s) ==
  /\ pc[t] = "run"
  /\ value' = None /\ state' = s /\ lastError' = TRUE
  /\ pc' = IF wake THEN NotifyAll(t, "idle") ELSE [pc EXCEPT ![t] = "idle"]
  /\ gen' = [gen EXCEPT ![t] = None]
  /\ UNCHANGED <<generationCounter, cooling, waiters, late, disposed, interrupts>>
RaisesSilently(t) == RaisesFaulty(t, FALSE, "failed")
RaisesUnmarked(t) == RaisesFaulty(t, TRUE, state)

\* close wakes nobody, forgets the state, or leaves the value in place.
CloseFaulty(t, wake, s, v) ==
  /\ pc[t] = "idle"
  /\ value' = v /\ state' = s
  /\ lastError' = FALSE /\ cooling' = FALSE
  /\ gen' = [gen EXCEPT ![t] = value]
  /\ LET l == IF value = None THEN "idle" ELSE "dispose"
     IN  pc' = IF wake THEN NotifyAll(t, l) ELSE [pc EXCEPT ![t] = l]
  /\ CountInterrupt
  /\ UNCHANGED <<generationCounter, waiters, late, disposed>>
CloseSilently(t) == CloseFaulty(t, FALSE, "empty", None)
CloseStateKept(t) == CloseFaulty(t, TRUE, state, None)
CloseValueKept(t) == CloseFaulty(t, TRUE, "empty", value)

(***************************************************************************)
(* get_or_initialize                                                       *)
(***************************************************************************)
BeginGet(t) ==
  /\ pc[t] = "idle" /\ Room
  /\ pc' = [pc EXCEPT ![t] = "enter"]
  /\ late' = [late EXCEPT ![t] = FALSE]
  /\ UNCHANGED <<cell, waiters, gen, disposed, interrupts>>

\* The call ends without changing the cell: a cached payload is returned, the
\* cooldown's error is raised, or there is no room or no time left to wait.
EnterAndLeave(t) ==
  /\ pc[t] = "enter"
  /\ \/ cooling
     \/ state = "ready"
     \/ /\ state = "initializing"
        /\ \/ MaxWaiters > 0 /\ waiters >= MaxWaiters
           \/ WaitTimeout /\ late[t]
  /\ pc' = [pc EXCEPT ![t] = "idle"]
  /\ UNCHANGED <<cell, waiters, gen, late, disposed, interrupts>>

EnterAndWait(t) ==
  /\ pc[t] = "enter" /\ ~cooling /\ state = "initializing"
  /\ MaxWaiters = 0 \/ waiters < MaxWaiters
  /\ ~(WaitTimeout /\ late[t])
  /\ waiters' = waiters + 1
  /\ pc' = [pc EXCEPT ![t] = "waiting"]
  /\ UNCHANGED <<cell, gen, late, disposed, interrupts>>

EnterAndInitialize(t) ==
  /\ pc[t] = "enter" /\ ~cooling /\ state \in {"failed", "empty", "closed"}
  /\ state' = "initializing"
  /\ generationCounter' = generationCounter + 1
  /\ gen' = [gen EXCEPT ![t] = generationCounter + 1]
  /\ pc' = [pc EXCEPT ![t] = "run"]
  /\ UNCHANGED <<value, cooling, lastError, waiters, late, disposed, interrupts>>

\* A waiter gets the lock back.  It waits again, times out, reports the failure
\* it finds, or leaves the lock and starts over.
WakeAndWait(t) ==
  /\ pc[t] = "woken" /\ state = "initializing"
  /\ ~(WaitTimeout /\ late[t])
  /\ pc' = [pc EXCEPT ![t] = "waiting"]
  /\ UNCHANGED <<cell, waiters, gen, late, disposed, interrupts>>

WakeAndLeave(t) ==
  /\ pc[t] = "woken"
  /\ \/ state = "initializing" /\ WaitTimeout /\ late[t]
     \/ state = "failed" /\ lastError
  /\ waiters' = waiters - 1
  /\ pc' = [pc EXCEPT ![t] = "idle"]
  /\ UNCHANGED <<cell, gen, late, disposed, interrupts>>

WakeAndRetry(t) ==
  /\ pc[t] = "woken"
  /\ state # "initializing" /\ ~(state = "failed" /\ lastError)
  /\ waiters' = waiters - 1
  /\ pc' = [pc EXCEPT ![t] = "enter"]
  /\ UNCHANGED <<cell, gen, late, disposed, interrupts>>

FactoryReturns(t) ==   \* _handle_init_success
  /\ pc[t] = "run"
  /\ value' = gen[t] /\ state' = "ready"
  /\ lastError' = FALSE /\ cooling' = FALSE
  /\ pc' = NotifyAll(t, "idle")
  /\ gen' = [gen EXCEPT ![t] = None]
  /\ UNCHANGED <<generationCounter, waiters, late, disposed, interrupts>>

FactoryRaises(t) ==    \* _handle_init_failure
  /\ pc[t] = "run"
  /\ value' = None /\ state' = "failed" /\ lastError' = TRUE
  /\ pc' = NotifyAll(t, "idle")
  /\ gen' = [gen EXCEPT ![t] = None]
  /\ UNCHANGED <<generationCounter, cooling, waiters, late, disposed, interrupts>>

\* An exception that is no Exception, or one of the on_init_start hook, passes
\* the except clause by: the thread is gone and the cell keeps its state.
FactoryAborts(t) ==
  /\ CanAbort /\ pc[t] = "run"
  /\ pc' = [pc EXCEPT ![t] = "idle"]
  /\ gen' = [gen EXCEPT ![t] = None]
  /\ UNCHANGED <<cell, waiters, late, disposed, interrupts>>

(***************************************************************************)
(* seed, close (and invalidate, which is close), record_failure            *)
(***************************************************************************)
Seed(t) ==
  /\ SeedAllowed /\ pc[t] = "idle" /\ Room
  /\ value = None
  /\ generationCounter' = generationCounter + 1
  /\ value' = generationCounter + 1
  /\ state' = "ready" /\ lastError' = FALSE
  /\ pc' = NotifyAll(t, "idle")
  /\ CountInterrupt
  /\ UNCHANGED <<cooling, waiters, gen, late, disposed>>

Close(t) ==
  /\ pc[t] = "idle"
  /\ value' = None /\ state' = "empty"
  /\ lastError' = FALSE /\ cooling' = FALSE
  /\ gen' = [gen EXCEPT ![t] = value]
  /\ pc' = NotifyAll(t, IF value = None THEN "idle" ELSE "dispose")
  /\ CountInterrupt
  /\ UNCHANGED <<generationCounter, waiters, late, disposed>>

Dispose(t) ==
  /\ pc[t] = "dispose"
  /\ disposed' = disposed \union {gen[t]}
  /\ gen' = [gen EXCEPT ![t] = None]
  /\ pc' = [pc EXCEPT ![t] = "idle"]
  /\ UNCHANGED <<cell, waiters, late, interrupts>>

RecordFailure(t) ==
  /\ pc[t] = "idle"
  /\ cooling' = TRUE /\ lastError' = TRUE /\ state' = "failed"
  /\ pc' = NotifyAll(t, "idle")
  /\ CountInterrupt
  /\ UNCHANGED <<value, generationCounter, waiters, gen, late, disposed>>

(***************************************************************************)
(* Time                                                                    *)
(***************************************************************************)
DeadlinePasses(t) ==
  /\ WaitTimeout /\ t \in Pending /\ ~late[t]
  /\ late' = [late EXCEPT ![t] = TRUE]
  /\ pc' = [pc EXCEPT ![t] = IF @ = "waiting" THEN "woken" ELSE @]
  /\ UNCHANGED <<cell, waiters, gen, disposed, interrupts>>

CooldownExpires ==
  /\ cooling /\ cooling' = FALSE
  /\ UNCHANGED <<state, value, generationCounter, lastError, waiters,
                 pc, gen, late, disposed, interrupts>>

\* What the scheduler owes a thread that is inside a call and not blocked.
Resume(t) ==
  \/ EnterAndLeave(t) \/ EnterAndWait(t) \/ EnterAndInitialize(t)
  \/ WakeAndWait(t) \/ WakeAndLeave(t) \/ WakeAndRetry(t)
  \/ Dispose(t)

FactoryEnds(t) == FactoryReturns(t) \/ FactoryRaises(t) \/ FactoryAborts(t)

Next ==
  \/ \E t \in Threads :
       \/ BeginGet(t) \/ Resume(t) \/ FactoryEnds(t)
       \/ Seed(t) \/ Close(t) \/ RecordFailure(t) \/ DeadlinePasses(t)
  \/ CooldownExpires

Spec == Init /\ [][Next]_vars

\* Threads run and clocks advance; a factory may hang.
ClockFairness ==
  \A t \in Threads : WF_vars(Resume(t)) /\ WF_vars(DeadlinePasses(t))
ClockSpec == Spec /\ ClockFairness

\* Factories end too.
FactorySpec == ClockSpec /\ \A t \in Threads : WF_vars(FactoryEnds(t))

(***************************************************************************)
(* Properties                                                              *)
(***************************************************************************)
\* Every variable stays within the values the class and its callers give it.
TypeOK ==
  /\ state \in {"empty", "initializing", "ready", "failed"}
  /\ generationCounter \in 0..MaxGeneration
  /\ value \in 0..generationCounter
  /\ cooling \in BOOLEAN /\ lastError \in BOOLEAN
  /\ waiters \in Nat /\ interrupts \in Nat
  /\ pc \in [Threads -> {"idle", "enter", "waiting", "woken", "run", "dispose"}]
  /\ gen \in [Threads -> 0..generationCounter]
  /\ late \in [Threads -> BOOLEAN]
  /\ disposed \subseteq 1..generationCounter

\* _wait_for_initializer admits at most max_waiters callers and every way out of
\* it gives the slot back: the counter is the number of callers inside.
WaitersCounted ==
  /\ waiters = Cardinality(Blocked)
  /\ MaxWaiters > 0 => waiters <= MaxWaiters

\* No caller sleeps on the condition once the initialization it waits for is
\* over: every section that leaves "initializing" notifies all.
NoLostWakeup == \A t \in Threads : pc[t] = "waiting" => state = "initializing"

\* A cell that says it is initializing has a thread at work on its newest
\* generation, however often it was closed or failed meanwhile.
InitializerAlive ==
  state = "initializing" /\ ~CanAbort =>
     \E t \in Running : gen[t] = generationCounter

\* A cell in state "ready" holds a payload: otherwise get_or_initialize falls
\* through every branch of its loop and spins.
ReadyHasPayload == state = "ready" => value # None

\* get_or_initialize keeps its single flight except for the initializations
\* the cell was reset under: each of those adds at most one factory at work.
SingleFlightUpToInterrupts == Cardinality(Running) <= 1 + interrupts

\* close hands a payload to one disposer only; from then on the cell never
\* returns it, and it is disposed of once.
DisposedOnce ==
  \A t \in Threads : pc[t] = "dispose" =>
    /\ gen[t] \notin disposed \union {value}
    /\ \A u \in Threads \ {t} : pc[u] \in {"dispose", "run"} => gen[u] # gen[t]

\* The payloads a cell handles go through the life cycle of PayloadSlot.
Builds == {gen[t] : t \in Running}
Slot == INSTANCE PayloadSlot WITH
          Payloads <- 1..MaxGeneration, NoPayload <- None,
          building <- Builds, cached <- value,
          gone <- (1..generationCounter) \ (Builds \union {value}),
          released <- disposed
ImplementsSlot == Slot!SlotSpec

\* Every call of get_or_initialize ends or starts its own factory: with a wait
\* timeout even if a factory hangs or dies, without one if factories end.
GetReturns == \A t \in Threads : t \in Pending ~> t \notin Pending

\* The docstring of get_or_initialize: it "tracks generation numbers to detect
\* stale values", so an older payload does not replace a newer one.
NoStalePublish == [][value # None /\ value' # None => value' >= value]_vars
=============================================================================
