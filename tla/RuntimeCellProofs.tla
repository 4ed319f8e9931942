------------------------- MODULE RuntimeCellProofs -------------------------
(***************************************************************************)
(* Theorems about RuntimeCell, for every set of threads and every value of *)
(* the other constants.                                                    *)
(***************************************************************************)
EXTENDS RuntimeCell, FiniteSetTheorems, TLAPS

USE DEF None

(***************************************************************************)
(* The inductive invariant                                                 *)
(***************************************************************************)
Types ==
  /\ state \in {"empty", "initializing", "ready", "failed"}
  /\ generationCounter \in Nat
  /\ value \in 0..generationCounter
  /\ waiters \in Int /\ interrupts \in Nat
  /\ pc \in [Threads -> {"idle", "enter", "waiting", "woken", "run", "dispose"}]
  /\ gen \in [Threads -> 0..generationCounter]
  /\ disposed \subseteq 1..generationCounter

Flags == cooling \in BOOLEAN /\ lastError \in BOOLEAN /\ late \in [Threads -> BOOLEAN]

\* Every generation is in one place: with a thread, in the cell, or disposed of.
AtWork(t) == pc[t] \in {"run", "dispose"}
OnePlace ==
  /\ value \notin disposed
  /\ \A t \in Threads : AtWork(t) => gen[t] \notin disposed \union {value, 0}
  /\ \A t, u \in Threads : t # u /\ AtWork(t) /\ AtWork(u) => gen[t] # gen[u]

Waking == NoLostWakeup /\ ReadyHasPayload /\ InitializerAlive

Counted == waiters = Cardinality(Blocked) /\ (MaxWaiters > 0 => waiters <= MaxWaiters)

RoomKept == generationCounter + Cardinality(Pending) <= MaxGeneration

\* One thread initializes on behalf of the state; the others were interrupted.
Flights ==
  Cardinality(Running) <= interrupts + (IF state = "initializing" THEN 1 ELSE 0)

IInv == Types /\ Flags /\ OnePlace /\ Waking /\ Counted /\ RoomKept /\ Flights

\* A set of threads is finite and has a cardinality.
LEMMA SubsetCard ==
  ASSUME NEW S \in SUBSET Threads
  PROVE  IsFiniteSet(S) /\ Cardinality(S) \in Nat
<1>1. IsFiniteSet(S)
  BY ConstantsAssumption, FS_Subset
<1> QED
  BY <1>1, FS_CardinalityType

\* How the number of threads in a set changes when one thread joins or leaves it.
LEMMA Moves ==
  ASSUME NEW S \in SUBSET Threads, NEW t \in Threads
  PROVE  /\ Cardinality(S) \in Nat
         /\ t \notin S => Cardinality(S \union {t}) = Cardinality(S) + 1
         /\ t \in S => Cardinality(S \ {t}) = Cardinality(S) - 1
BY SubsetCard, FS_AddElement, FS_RemoveElement

LEMMA InitIInv == Init => IInv
<1> SUFFICES ASSUME Init PROVE IInv
  OBVIOUS
<1> USE DEF Init
<1>1. Types
  BY DEF Types
<1>5. Flags
  BY Zenon DEF Flags
<1>2. OnePlace /\ Waking
  BY DEF OnePlace, AtWork, Waking, NoLostWakeup, ReadyHasPayload, InitializerAlive
<1>3. Blocked = {} /\ Pending = {} /\ Running = {}
  BY DEF Blocked, Pending, Running
<1>4. Counted /\ RoomKept /\ Flights
  BY <1>3, FS_EmptySet, ConstantsAssumption DEF Counted, RoomKept, Flights
<1> QED
  BY <1>1, <1>2, <1>4, <1>5 DEF IInv

\* Every step keeps the values of the variables in their sets.
\* Every step keeps the values of the variables in their sets.
\* Every step keeps the values of the variables in their sets.
\* Every step keeps the values of the variables in their sets.
\* Every step keeps the values of the variables in their sets.
\* Every step keeps the values of the variables in their sets.
\* Every step keeps the values of the variables in their sets.
LEMMA TypesStep == Types /\ OnePlace /\ [Next]_vars => Types'
<1> SUFFICES ASSUME Types, OnePlace, [Next]_vars PROVE Types'
  OBVIOUS
<1> USE DEF Types, cell
<1>1. ASSUME NEW t \in Threads, BeginGet(t) PROVE Types'
  BY <1>1 DEF BeginGet
<1>2. ASSUME NEW t \in Threads, EnterAndLeave(t) PROVE Types'
  BY <1>2 DEF EnterAndLeave
<1>3. ASSUME NEW t \in Threads, EnterAndWait(t) PROVE Types'
  BY <1>3 DEF EnterAndWait
<1>4. ASSUME NEW t \in Threads, EnterAndInitialize(t) PROVE Types'
  BY <1>4 DEF EnterAndInitialize
<1>5. ASSUME NEW t \in Threads, WakeAndWait(t) PROVE Types'
  BY <1>5 DEF WakeAndWait
<1>6. ASSUME NEW t \in Threads, WakeAndLeave(t) PROVE Types'
  BY <1>6 DEF WakeAndLeave
<1>7. ASSUME NEW t \in Threads, WakeAndRetry(t) PROVE Types'
  BY <1>7 DEF WakeAndRetry
<1>8. ASSUME NEW t \in Threads, FactoryReturns(t) PROVE Types'
  BY <1>8 DEF FactoryReturns, NotifyAll
<1>9. ASSUME NEW t \in Threads, FactoryRaises(t) PROVE Types'
  BY <1>9 DEF FactoryRaises, NotifyAll
<1>10. ASSUME NEW t \in Threads, FactoryAborts(t) PROVE Types'
  BY <1>10 DEF FactoryAborts
<1>11. ASSUME NEW t \in Threads, Seed(t) PROVE Types'
  BY <1>11 DEF Seed, NotifyAll, CountInterrupt
<1>12. ASSUME NEW t \in Threads, Close(t) PROVE Types'
  BY <1>12 DEF Close, NotifyAll, CountInterrupt
<1>13. ASSUME NEW t \in Threads, Dispose(t) PROVE Types'
  <2>1. gen[t] \in 1..generationCounter
    BY <1>13 DEF Dispose, OnePlace, AtWork
  <2>2. UNCHANGED <<state, value, generationCounter, waiters, interrupts>>
    BY <1>13 DEF Dispose
  <2>3. disposed' \subseteq 1..generationCounter'
    BY <1>13, <2>1, <2>2 DEF Dispose
  <2>4. /\ pc' \in [Threads -> {"idle", "enter", "waiting", "woken", "run", "dispose"}]
        /\ gen' \in [Threads -> 0..generationCounter']
    BY <1>13, <2>2 DEF Dispose
  <2> QED
    BY <2>2, <2>3, <2>4
<1>14. ASSUME NEW t \in Threads, RecordFailure(t) PROVE Types'
  BY <1>14 DEF RecordFailure, NotifyAll, CountInterrupt
<1>15. ASSUME NEW t \in Threads, DeadlinePasses(t) PROVE Types'
  BY <1>15 DEF DeadlinePasses
<1>16. CASE CooldownExpires
  BY <1>16 DEF CooldownExpires
<1>17. CASE UNCHANGED vars
  BY <1>17 DEF vars
<1> QED
  BY <1>1, <1>2, <1>3, <1>4, <1>5, <1>6, <1>7, <1>8, <1>9, <1>10, <1>11, <1>12,
     <1>13, <1>14, <1>15, <1>16, <1>17 DEF Next, Resume, FactoryEnds

\* ... and the flags Boolean.
LEMMA FlagsStep == Flags /\ [Next]_vars => Flags'
<1> SUFFICES ASSUME Flags, [Next]_vars PROVE Flags'
  OBVIOUS
<1> USE DEF Flags, cell
<1>1. ASSUME NEW t \in Threads, BeginGet(t) PROVE Flags'
  BY Zenon, <1>1 DEF BeginGet
<1>2. ASSUME NEW t \in Threads, EnterAndLeave(t) PROVE Flags'
  BY Zenon, <1>2 DEF EnterAndLeave
<1>3. ASSUME NEW t \in Threads, EnterAndWait(t) PROVE Flags'
  BY Zenon, <1>3 DEF EnterAndWait
<1>4. ASSUME NEW t \in Threads, EnterAndInitialize(t) PROVE Flags'
  BY Zenon, <1>4 DEF EnterAndInitialize
<1>5. ASSUME NEW t \in Threads, WakeAndWait(t) PROVE Flags'
  BY Zenon, <1>5 DEF WakeAndWait
<1>6. ASSUME NEW t \in Threads, WakeAndLeave(t) PROVE Flags'
  BY Zenon, <1>6 DEF WakeAndLeave
<1>7. ASSUME NEW t \in Threads, WakeAndRetry(t) PROVE Flags'
  BY Zenon, <1>7 DEF WakeAndRetry
<1>8. ASSUME NEW t \in Threads, FactoryReturns(t) PROVE Flags'
  BY Zenon, <1>8 DEF FactoryReturns, NotifyAll
<1>9. ASSUME NEW t \in Threads, FactoryRaises(t) PROVE Flags'
  BY Zenon, <1>9 DEF FactoryRaises, NotifyAll
<1>10. ASSUME NEW t \in Threads, FactoryAborts(t) PROVE Flags'
  BY Zenon, <1>10 DEF FactoryAborts
<1>11. ASSUME NEW t \in Threads, Seed(t) PROVE Flags'
  BY Zenon, <1>11 DEF Seed, NotifyAll, CountInterrupt
<1>12. ASSUME NEW t \in Threads, Close(t) PROVE Flags'
  BY Zenon, <1>12 DEF Close, NotifyAll, CountInterrupt
<1>13. ASSUME NEW t \in Threads, Dispose(t) PROVE Flags'
  BY Zenon, <1>13 DEF Dispose
<1>14. ASSUME NEW t \in Threads, RecordFailure(t) PROVE Flags'
  BY Zenon, <1>14 DEF RecordFailure, NotifyAll, CountInterrupt
<1>15. ASSUME NEW t \in Threads, DeadlinePasses(t) PROVE Flags'
  BY Zenon, <1>15 DEF DeadlinePasses
<1>16. CASE CooldownExpires
  BY Zenon, <1>16 DEF CooldownExpires
<1>17. CASE UNCHANGED vars
  BY Zenon, <1>17 DEF vars
<1> QED
  BY <1>1, <1>2, <1>3, <1>4, <1>5, <1>6, <1>7, <1>8, <1>9, <1>10, <1>11, <1>12,
     <1>13, <1>14, <1>15, <1>16, <1>17 DEF Next, Resume, FactoryEnds

\* No step duplicates a payload or brings one back.
LEMMA OnePlaceStep == Types /\ OnePlace /\ [Next]_vars => OnePlace'
<1> SUFFICES ASSUME Types, OnePlace, [Next]_vars PROVE OnePlace'
  OBVIOUS
<1> USE DEF Types, OnePlace, AtWork, cell
<1>1. ASSUME NEW t \in Threads, BeginGet(t) PROVE OnePlace'
  BY <1>1 DEF BeginGet
<1>2. ASSUME NEW t \in Threads, EnterAndLeave(t) PROVE OnePlace'
  BY <1>2 DEF EnterAndLeave
<1>3. ASSUME NEW t \in Threads, EnterAndWait(t) PROVE OnePlace'
  BY <1>3 DEF EnterAndWait
<1>4. ASSUME NEW t \in Threads, EnterAndInitialize(t) PROVE OnePlace'
  BY <1>4 DEF EnterAndInitialize
<1>5. ASSUME NEW t \in Threads, WakeAndWait(t) PROVE OnePlace'
  BY <1>5 DEF WakeAndWait
<1>6. ASSUME NEW t \in Threads, WakeAndLeave(t) PROVE OnePlace'
  BY <1>6 DEF WakeAndLeave
<1>7. ASSUME NEW t \in Threads, WakeAndRetry(t) PROVE OnePlace'
  BY <1>7 DEF WakeAndRetry
<1>8. ASSUME NEW t \in Threads, FactoryReturns(t) PROVE OnePlace'
  BY <1>8 DEF FactoryReturns, NotifyAll
<1>9. ASSUME NEW t \in Threads, FactoryRaises(t) PROVE OnePlace'
  BY <1>9 DEF FactoryRaises, NotifyAll
<1>10. ASSUME NEW t \in Threads, FactoryAborts(t) PROVE OnePlace'
  BY <1>10 DEF FactoryAborts
<1>11. ASSUME NEW t \in Threads, Seed(t) PROVE OnePlace'
  BY <1>11 DEF Seed, NotifyAll, CountInterrupt
<1>12. ASSUME NEW t \in Threads, Close(t) PROVE OnePlace'
  BY <1>12 DEF Close, NotifyAll, CountInterrupt
<1>13. ASSUME NEW t \in Threads, Dispose(t) PROVE OnePlace'
  BY <1>13 DEF Dispose
<1>14. ASSUME NEW t \in Threads, RecordFailure(t) PROVE OnePlace'
  BY <1>14 DEF RecordFailure, NotifyAll, CountInterrupt
<1>15. ASSUME NEW t \in Threads, DeadlinePasses(t) PROVE OnePlace'
  BY <1>15 DEF DeadlinePasses
<1>16. CASE CooldownExpires
  BY <1>16 DEF CooldownExpires
<1>17. CASE UNCHANGED vars
  BY <1>17 DEF vars
<1> QED
  BY <1>1, <1>2, <1>3, <1>4, <1>5, <1>6, <1>7, <1>8, <1>9, <1>10, <1>11, <1>12,
     <1>13, <1>14, <1>15, <1>16, <1>17 DEF Next, Resume, FactoryEnds

\* Every section that ends an initialization wakes the waiters, and every section that leaves a thread waiting leaves an initializer.
LEMMA WakingStep == Types /\ OnePlace /\ Waking /\ [Next]_vars => Waking'
<1> SUFFICES ASSUME Types, OnePlace, Waking, [Next]_vars PROVE Waking'
  OBVIOUS
<1> USE DEF Types, Waking, NoLostWakeup, ReadyHasPayload, InitializerAlive, Running, cell
<1>1. ASSUME NEW t \in Threads, BeginGet(t) PROVE Waking'
  BY <1>1 DEF BeginGet
<1>2. ASSUME NEW t \in Threads, EnterAndLeave(t) PROVE Waking'
  BY <1>2 DEF EnterAndLeave
<1>3. ASSUME NEW t \in Threads, EnterAndWait(t) PROVE Waking'
  BY <1>3 DEF EnterAndWait
<1>4. ASSUME NEW t \in Threads, EnterAndInitialize(t) PROVE Waking'
  BY <1>4 DEF EnterAndInitialize
<1>5. ASSUME NEW t \in Threads, WakeAndWait(t) PROVE Waking'
  BY <1>5 DEF WakeAndWait
<1>6. ASSUME NEW t \in Threads, WakeAndLeave(t) PROVE Waking'
  BY <1>6 DEF WakeAndLeave
<1>7. ASSUME NEW t \in Threads, WakeAndRetry(t) PROVE Waking'
  BY <1>7 DEF WakeAndRetry
<1>8. ASSUME NEW t \in Threads, FactoryReturns(t) PROVE Waking'
  BY <1>8 DEF FactoryReturns, NotifyAll, OnePlace, AtWork
<1>9. ASSUME NEW t \in Threads, FactoryRaises(t) PROVE Waking'
  BY <1>9 DEF FactoryRaises, NotifyAll
<1>10. ASSUME NEW t \in Threads, FactoryAborts(t) PROVE Waking'
  BY <1>10 DEF FactoryAborts
<1>11. ASSUME NEW t \in Threads, Seed(t) PROVE Waking'
  BY <1>11 DEF Seed, NotifyAll, CountInterrupt
<1>12. ASSUME NEW t \in Threads, Close(t) PROVE Waking'
  BY <1>12 DEF Close, NotifyAll, CountInterrupt
<1>13. ASSUME NEW t \in Threads, Dispose(t) PROVE Waking'
  BY <1>13 DEF Dispose
<1>14. ASSUME NEW t \in Threads, RecordFailure(t) PROVE Waking'
  BY <1>14 DEF RecordFailure, NotifyAll, CountInterrupt
<1>15. ASSUME NEW t \in Threads, DeadlinePasses(t) PROVE Waking'
  BY <1>15 DEF DeadlinePasses
<1>16. CASE CooldownExpires
  BY <1>16 DEF CooldownExpires
<1>17. CASE UNCHANGED vars
  BY <1>17 DEF vars
<1> QED
  BY <1>1, <1>2, <1>3, <1>4, <1>5, <1>6, <1>7, <1>8, <1>9, <1>10, <1>11, <1>12,
     <1>13, <1>14, <1>15, <1>16, <1>17 DEF Next, Resume, FactoryEnds

\* A thread that starts or stops waiting takes or gives back one place.
LEMMA CountedStep == Types /\ Counted /\ [Next]_vars => Counted'
<1> SUFFICES ASSUME Types, Counted, [Next]_vars PROVE Counted'
  OBVIOUS
<1> USE DEF Types, Counted, cell
<1>1. ASSUME NEW t \in Threads, BeginGet(t) PROVE Counted'
  <2>1. Blocked' = Blocked
    BY <1>1 DEF BeginGet, Blocked
  <2>2. Cardinality(Blocked) \in Nat
    BY Moves, Blocked \in SUBSET Threads DEF Blocked
  <2> QED
    BY <1>1, <2>1, <2>2, ConstantsAssumption DEF BeginGet
<1>2. ASSUME NEW t \in Threads, EnterAndLeave(t) PROVE Counted'
  <2>1. Blocked' = Blocked
    BY <1>2 DEF EnterAndLeave, Blocked
  <2>2. Cardinality(Blocked) \in Nat
    BY Moves, Blocked \in SUBSET Threads DEF Blocked
  <2> QED
    BY <1>2, <2>1, <2>2, ConstantsAssumption DEF EnterAndLeave
<1>3. ASSUME NEW t \in Threads, EnterAndWait(t) PROVE Counted'
  <2>1. Blocked' = Blocked \union {t} /\ t \notin Blocked
    BY <1>3 DEF EnterAndWait, Blocked
  <2>2. Blocked \in SUBSET Threads
    BY DEF Blocked
  <2>3. Cardinality(Blocked') = Cardinality(Blocked) + 1 /\ Cardinality(Blocked) \in Nat
    BY <2>1, <2>2, Moves
  <2> QED
    BY <1>3, <2>3, ConstantsAssumption DEF EnterAndWait
<1>4. ASSUME NEW t \in Threads, EnterAndInitialize(t) PROVE Counted'
  <2>1. Blocked' = Blocked
    BY <1>4 DEF EnterAndInitialize, Blocked
  <2>2. Cardinality(Blocked) \in Nat
    BY Moves, Blocked \in SUBSET Threads DEF Blocked
  <2> QED
    BY <1>4, <2>1, <2>2, ConstantsAssumption DEF EnterAndInitialize
<1>5. ASSUME NEW t \in Threads, WakeAndWait(t) PROVE Counted'
  <2>1. Blocked' = Blocked
    BY <1>5 DEF WakeAndWait, Blocked
  <2>2. Cardinality(Blocked) \in Nat
    BY Moves, Blocked \in SUBSET Threads DEF Blocked
  <2> QED
    BY <1>5, <2>1, <2>2, ConstantsAssumption DEF WakeAndWait
<1>6. ASSUME NEW t \in Threads, WakeAndLeave(t) PROVE Counted'
  <2>1. Blocked' = Blocked \ {t} /\ t \in Blocked
    BY <1>6 DEF WakeAndLeave, Blocked
  <2>2. Blocked \in SUBSET Threads
    BY DEF Blocked
  <2>3. Cardinality(Blocked') = Cardinality(Blocked) - 1 /\ Cardinality(Blocked) \in Nat
    BY <2>1, <2>2, Moves
  <2> QED
    BY <1>6, <2>3, ConstantsAssumption DEF WakeAndLeave
<1>7. ASSUME NEW t \in Threads, WakeAndRetry(t) PROVE Counted'
  <2>1. Blocked' = Blocked \ {t} /\ t \in Blocked
    BY <1>7 DEF WakeAndRetry, Blocked
  <2>2. Blocked \in SUBSET Threads
    BY DEF Blocked
  <2>3. Cardinality(Blocked') = Cardinality(Blocked) - 1 /\ Cardinality(Blocked) \in Nat
    BY <2>1, <2>2, Moves
  <2> QED
    BY <1>7, <2>3, ConstantsAssumption DEF WakeAndRetry
<1>8. ASSUME NEW t \in Threads, FactoryReturns(t) PROVE Counted'
  <2>1. Blocked' = Blocked
    BY <1>8 DEF FactoryReturns, NotifyAll, Blocked
  <2>2. Cardinality(Blocked) \in Nat
    BY Moves, Blocked \in SUBSET Threads DEF Blocked
  <2> QED
    BY <1>8, <2>1, <2>2, ConstantsAssumption DEF FactoryReturns, NotifyAll
<1>9. ASSUME NEW t \in Threads, FactoryRaises(t) PROVE Counted'
  <2>1. Blocked' = Blocked
    BY <1>9 DEF FactoryRaises, NotifyAll, Blocked
  <2>2. Cardinality(Blocked) \in Nat
    BY Moves, Blocked \in SUBSET Threads DEF Blocked
  <2> QED
    BY <1>9, <2>1, <2>2, ConstantsAssumption DEF FactoryRaises, NotifyAll
<1>10. ASSUME NEW t \in Threads, FactoryAborts(t) PROVE Counted'
  <2>1. Blocked' = Blocked
    BY <1>10 DEF FactoryAborts, Blocked
  <2>2. Cardinality(Blocked) \in Nat
    BY Moves, Blocked \in SUBSET Threads DEF Blocked
  <2> QED
    BY <1>10, <2>1, <2>2, ConstantsAssumption DEF FactoryAborts
<1>11. ASSUME NEW t \in Threads, Seed(t) PROVE Counted'
  <2>1. Blocked' = Blocked
    BY <1>11 DEF Seed, NotifyAll, CountInterrupt, Blocked
  <2>2. Cardinality(Blocked) \in Nat
    BY Moves, Blocked \in SUBSET Threads DEF Blocked
  <2> QED
    BY <1>11, <2>1, <2>2, ConstantsAssumption DEF Seed, NotifyAll, CountInterrupt
<1>12. ASSUME NEW t \in Threads, Close(t) PROVE Counted'
  <2>1. Blocked' = Blocked
    BY <1>12 DEF Close, NotifyAll, CountInterrupt, Blocked
  <2>2. Cardinality(Blocked) \in Nat
    BY Moves, Blocked \in SUBSET Threads DEF Blocked
  <2> QED
    BY <1>12, <2>1, <2>2, ConstantsAssumption DEF Close, NotifyAll, CountInterrupt
<1>13. ASSUME NEW t \in Threads, Dispose(t) PROVE Counted'
  <2>1. Blocked' = Blocked
    BY <1>13 DEF Dispose, Blocked
  <2>2. Cardinality(Blocked) \in Nat
    BY Moves, Blocked \in SUBSET Threads DEF Blocked
  <2> QED
    BY <1>13, <2>1, <2>2, ConstantsAssumption DEF Dispose
<1>14. ASSUME NEW t \in Threads, RecordFailure(t) PROVE Counted'
  <2>1. Blocked' = Blocked
    BY <1>14 DEF RecordFailure, NotifyAll, CountInterrupt, Blocked
  <2>2. Cardinality(Blocked) \in Nat
    BY Moves, Blocked \in SUBSET Threads DEF Blocked
  <2> QED
    BY <1>14, <2>1, <2>2, ConstantsAssumption DEF RecordFailure, NotifyAll, CountInterrupt
<1>15. ASSUME NEW t \in Threads, DeadlinePasses(t) PROVE Counted'
  <2>1. Blocked' = Blocked
    BY <1>15 DEF DeadlinePasses, Blocked
  <2>2. Cardinality(Blocked) \in Nat
    BY Moves, Blocked \in SUBSET Threads DEF Blocked
  <2> QED
    BY <1>15, <2>1, <2>2, ConstantsAssumption DEF DeadlinePasses
<1>16. CASE CooldownExpires
  <2>1. Blocked' = Blocked
    BY <1>16 DEF CooldownExpires, Blocked
  <2> QED
    BY <1>16, <2>1 DEF CooldownExpires
<1>17. CASE UNCHANGED vars
  <2>1. Blocked' = Blocked
    BY <1>17 DEF vars, Blocked
  <2> QED
    BY <1>17, <2>1 DEF vars
<1> QED
  BY <1>1, <1>2, <1>3, <1>4, <1>5, <1>6, <1>7, <1>8, <1>9, <1>10, <1>11, <1>12,
     <1>13, <1>14, <1>15, <1>16, <1>17 DEF Next, Resume, FactoryEnds

\* Each call in progress keeps room for the generation it may mint.
LEMMA RoomKeptStep == Types /\ RoomKept /\ [Next]_vars => RoomKept'
<1> SUFFICES ASSUME Types, RoomKept, [Next]_vars PROVE RoomKept'
  OBVIOUS
<1> USE DEF Types, RoomKept, Room, cell
<1>1. ASSUME NEW t \in Threads, BeginGet(t) PROVE RoomKept'
  <2>1. Pending' = Pending \union {t} /\ t \notin Pending
    BY <1>1 DEF BeginGet, Pending
  <2>2. Pending \in SUBSET Threads
    BY DEF Pending
  <2>3. Cardinality(Pending') = Cardinality(Pending) + 1 /\ Cardinality(Pending) \in Nat
    BY <2>1, <2>2, Moves
  <2> QED
    BY <1>1, <2>3, ConstantsAssumption DEF BeginGet
<1>2. ASSUME NEW t \in Threads, EnterAndLeave(t) PROVE RoomKept'
  <2>1. Pending' = Pending \ {t} /\ t \in Pending
    BY <1>2 DEF EnterAndLeave, Pending
  <2>2. Pending \in SUBSET Threads
    BY DEF Pending
  <2>3. Cardinality(Pending') = Cardinality(Pending) - 1 /\ Cardinality(Pending) \in Nat
    BY <2>1, <2>2, Moves
  <2> QED
    BY <1>2, <2>3, ConstantsAssumption DEF EnterAndLeave
<1>3. ASSUME NEW t \in Threads, EnterAndWait(t) PROVE RoomKept'
  <2>1. Pending' = Pending
    BY <1>3 DEF EnterAndWait, Pending
  <2>2. Cardinality(Pending) \in Nat
    BY Moves, Pending \in SUBSET Threads DEF Pending
  <2> QED
    BY <1>3, <2>1, <2>2, ConstantsAssumption DEF EnterAndWait
<1>4. ASSUME NEW t \in Threads, EnterAndInitialize(t) PROVE RoomKept'
  <2>1. Pending' = Pending \ {t} /\ t \in Pending
    BY <1>4 DEF EnterAndInitialize, Pending
  <2>2. Pending \in SUBSET Threads
    BY DEF Pending
  <2>3. Cardinality(Pending') = Cardinality(Pending) - 1 /\ Cardinality(Pending) \in Nat
    BY <2>1, <2>2, Moves
  <2> QED
    BY <1>4, <2>3, ConstantsAssumption DEF EnterAndInitialize
<1>5. ASSUME NEW t \in Threads, WakeAndWait(t) PROVE RoomKept'
  <2>1. Pending' = Pending
    BY <1>5 DEF WakeAndWait, Pending
  <2>2. Cardinality(Pending) \in Nat
    BY Moves, Pending \in SUBSET Threads DEF Pending
  <2> QED
    BY <1>5, <2>1, <2>2, ConstantsAssumption DEF WakeAndWait
<1>6. ASSUME NEW t \in Threads, WakeAndLeave(t) PROVE RoomKept'
  <2>1. Pending' = Pending \ {t} /\ t \in Pending
    BY <1>6 DEF WakeAndLeave, Pending
  <2>2. Pending \in SUBSET Threads
    BY DEF Pending
  <2>3. Cardinality(Pending') = Cardinality(Pending) - 1 /\ Cardinality(Pending) \in Nat
    BY <2>1, <2>2, Moves
  <2> QED
    BY <1>6, <2>3, ConstantsAssumption DEF WakeAndLeave
<1>7. ASSUME NEW t \in Threads, WakeAndRetry(t) PROVE RoomKept'
  <2>1. Pending' = Pending
    BY <1>7 DEF WakeAndRetry, Pending
  <2>2. Cardinality(Pending) \in Nat
    BY Moves, Pending \in SUBSET Threads DEF Pending
  <2> QED
    BY <1>7, <2>1, <2>2, ConstantsAssumption DEF WakeAndRetry
<1>8. ASSUME NEW t \in Threads, FactoryReturns(t) PROVE RoomKept'
  <2>1. Pending' = Pending
    BY <1>8 DEF FactoryReturns, NotifyAll, Pending
  <2>2. Cardinality(Pending) \in Nat
    BY Moves, Pending \in SUBSET Threads DEF Pending
  <2> QED
    BY <1>8, <2>1, <2>2, ConstantsAssumption DEF FactoryReturns, NotifyAll
<1>9. ASSUME NEW t \in Threads, FactoryRaises(t) PROVE RoomKept'
  <2>1. Pending' = Pending
    BY <1>9 DEF FactoryRaises, NotifyAll, Pending
  <2>2. Cardinality(Pending) \in Nat
    BY Moves, Pending \in SUBSET Threads DEF Pending
  <2> QED
    BY <1>9, <2>1, <2>2, ConstantsAssumption DEF FactoryRaises, NotifyAll
<1>10. ASSUME NEW t \in Threads, FactoryAborts(t) PROVE RoomKept'
  <2>1. Pending' = Pending
    BY <1>10 DEF FactoryAborts, Pending
  <2>2. Cardinality(Pending) \in Nat
    BY Moves, Pending \in SUBSET Threads DEF Pending
  <2> QED
    BY <1>10, <2>1, <2>2, ConstantsAssumption DEF FactoryAborts
<1>11. ASSUME NEW t \in Threads, Seed(t) PROVE RoomKept'
  <2>1. Pending' = Pending
    BY <1>11 DEF Seed, NotifyAll, CountInterrupt, Pending
  <2>2. Cardinality(Pending) \in Nat
    BY Moves, Pending \in SUBSET Threads DEF Pending
  <2> QED
    BY <1>11, <2>1, <2>2, ConstantsAssumption DEF Seed, NotifyAll, CountInterrupt
<1>12. ASSUME NEW t \in Threads, Close(t) PROVE RoomKept'
  <2>1. Pending' = Pending
    BY <1>12 DEF Close, NotifyAll, CountInterrupt, Pending
  <2>2. Cardinality(Pending) \in Nat
    BY Moves, Pending \in SUBSET Threads DEF Pending
  <2> QED
    BY <1>12, <2>1, <2>2, ConstantsAssumption DEF Close, NotifyAll, CountInterrupt
<1>13. ASSUME NEW t \in Threads, Dispose(t) PROVE RoomKept'
  <2>1. Pending' = Pending
    BY <1>13 DEF Dispose, Pending
  <2>2. Cardinality(Pending) \in Nat
    BY Moves, Pending \in SUBSET Threads DEF Pending
  <2> QED
    BY <1>13, <2>1, <2>2, ConstantsAssumption DEF Dispose
<1>14. ASSUME NEW t \in Threads, RecordFailure(t) PROVE RoomKept'
  <2>1. Pending' = Pending
    BY <1>14 DEF RecordFailure, NotifyAll, CountInterrupt, Pending
  <2>2. Cardinality(Pending) \in Nat
    BY Moves, Pending \in SUBSET Threads DEF Pending
  <2> QED
    BY <1>14, <2>1, <2>2, ConstantsAssumption DEF RecordFailure, NotifyAll, CountInterrupt
<1>15. ASSUME NEW t \in Threads, DeadlinePasses(t) PROVE RoomKept'
  <2>1. Pending' = Pending
    BY <1>15 DEF DeadlinePasses, Pending
  <2>2. Cardinality(Pending) \in Nat
    BY Moves, Pending \in SUBSET Threads DEF Pending
  <2> QED
    BY <1>15, <2>1, <2>2, ConstantsAssumption DEF DeadlinePasses
<1>16. CASE CooldownExpires
  <2>1. Pending' = Pending
    BY <1>16 DEF CooldownExpires, Pending
  <2> QED
    BY <1>16, <2>1 DEF CooldownExpires
<1>17. CASE UNCHANGED vars
  <2>1. Pending' = Pending
    BY <1>17 DEF vars, Pending
  <2> QED
    BY <1>17, <2>1 DEF vars
<1> QED
  BY <1>1, <1>2, <1>3, <1>4, <1>5, <1>6, <1>7, <1>8, <1>9, <1>10, <1>11, <1>12,
     <1>13, <1>14, <1>15, <1>16, <1>17 DEF Next, Resume, FactoryEnds

\* A second factory starts only after the first was interrupted.
LEMMA FlightsStep == Types /\ Flights /\ [Next]_vars => Flights'
<1> SUFFICES ASSUME Types, Flights, [Next]_vars PROVE Flights'
  OBVIOUS
<1> USE DEF Types, Flights, cell
<1>1. ASSUME NEW t \in Threads, BeginGet(t) PROVE Flights'
  <2>1. Running' = Running
    BY <1>1 DEF BeginGet, Running
  <2>2. Cardinality(Running) \in Nat
    BY Moves, Running \in SUBSET Threads DEF Running
  <2> QED
    BY <1>1, <2>1, <2>2, ConstantsAssumption DEF BeginGet
<1>2. ASSUME NEW t \in Threads, EnterAndLeave(t) PROVE Flights'
  <2>1. Running' = Running
    BY <1>2 DEF EnterAndLeave, Running
  <2>2. Cardinality(Running) \in Nat
    BY Moves, Running \in SUBSET Threads DEF Running
  <2> QED
    BY <1>2, <2>1, <2>2, ConstantsAssumption DEF EnterAndLeave
<1>3. ASSUME NEW t \in Threads, EnterAndWait(t) PROVE Flights'
  <2>1. Running' = Running
    BY <1>3 DEF EnterAndWait, Running
  <2>2. Cardinality(Running) \in Nat
    BY Moves, Running \in SUBSET Threads DEF Running
  <2> QED
    BY <1>3, <2>1, <2>2, ConstantsAssumption DEF EnterAndWait
<1>4. ASSUME NEW t \in Threads, EnterAndInitialize(t) PROVE Flights'
  <2>1. Running' = Running \union {t} /\ t \notin Running
    BY <1>4 DEF EnterAndInitialize, Running
  <2>2. Running \in SUBSET Threads
    BY DEF Running
  <2>3. Cardinality(Running') = Cardinality(Running) + 1 /\ Cardinality(Running) \in Nat
    BY <2>1, <2>2, Moves
  <2> QED
    BY <1>4, <2>3, ConstantsAssumption DEF EnterAndInitialize
<1>5. ASSUME NEW t \in Threads, WakeAndWait(t) PROVE Flights'
  <2>1. Running' = Running
    BY <1>5 DEF WakeAndWait, Running
  <2>2. Cardinality(Running) \in Nat
    BY Moves, Running \in SUBSET Threads DEF Running
  <2> QED
    BY <1>5, <2>1, <2>2, ConstantsAssumption DEF WakeAndWait
<1>6. ASSUME NEW t \in Threads, WakeAndLeave(t) PROVE Flights'
  <2>1. Running' = Running
    BY <1>6 DEF WakeAndLeave, Running
  <2>2. Cardinality(Running) \in Nat
    BY Moves, Running \in SUBSET Threads DEF Running
  <2> QED
    BY <1>6, <2>1, <2>2, ConstantsAssumption DEF WakeAndLeave
<1>7. ASSUME NEW t \in Threads, WakeAndRetry(t) PROVE Flights'
  <2>1. Running' = Running
    BY <1>7 DEF WakeAndRetry, Running
  <2>2. Cardinality(Running) \in Nat
    BY Moves, Running \in SUBSET Threads DEF Running
  <2> QED
    BY <1>7, <2>1, <2>2, ConstantsAssumption DEF WakeAndRetry
<1>8. ASSUME NEW t \in Threads, FactoryReturns(t) PROVE Flights'
  <2>1. Running' = Running \ {t} /\ t \in Running
    BY <1>8 DEF FactoryReturns, NotifyAll, Running
  <2>2. Running \in SUBSET Threads
    BY DEF Running
  <2>3. Cardinality(Running') = Cardinality(Running) - 1 /\ Cardinality(Running) \in Nat
    BY <2>1, <2>2, Moves
  <2> QED
    BY <1>8, <2>3, ConstantsAssumption DEF FactoryReturns, NotifyAll
<1>9. ASSUME NEW t \in Threads, FactoryRaises(t) PROVE Flights'
  <2>1. Running' = Running \ {t} /\ t \in Running
    BY <1>9 DEF FactoryRaises, NotifyAll, Running
  <2>2. Running \in SUBSET Threads
    BY DEF Running
  <2>3. Cardinality(Running') = Cardinality(Running) - 1 /\ Cardinality(Running) \in Nat
    BY <2>1, <2>2, Moves
  <2> QED
    BY <1>9, <2>3, ConstantsAssumption DEF FactoryRaises, NotifyAll
<1>10. ASSUME NEW t \in Threads, FactoryAborts(t) PROVE Flights'
  <2>1. Running' = Running \ {t} /\ t \in Running
    BY <1>10 DEF FactoryAborts, Running
  <2>2. Running \in SUBSET Threads
    BY DEF Running
  <2>3. Cardinality(Running') = Cardinality(Running) - 1 /\ Cardinality(Running) \in Nat
    BY <2>1, <2>2, Moves
  <2> QED
    BY <1>10, <2>3, ConstantsAssumption DEF FactoryAborts
<1>11. ASSUME NEW t \in Threads, Seed(t) PROVE Flights'
  <2>1. Running' = Running
    BY <1>11 DEF Seed, NotifyAll, CountInterrupt, Running
  <2>2. Cardinality(Running) \in Nat
    BY Moves, Running \in SUBSET Threads DEF Running
  <2> QED
    BY <1>11, <2>1, <2>2, ConstantsAssumption DEF Seed, NotifyAll, CountInterrupt
<1>12. ASSUME NEW t \in Threads, Close(t) PROVE Flights'
  <2>1. Running' = Running
    BY <1>12 DEF Close, NotifyAll, CountInterrupt, Running
  <2>2. Cardinality(Running) \in Nat
    BY Moves, Running \in SUBSET Threads DEF Running
  <2> QED
    BY <1>12, <2>1, <2>2, ConstantsAssumption DEF Close, NotifyAll, CountInterrupt
<1>13. ASSUME NEW t \in Threads, Dispose(t) PROVE Flights'
  <2>1. Running' = Running
    BY <1>13 DEF Dispose, Running
  <2>2. Cardinality(Running) \in Nat
    BY Moves, Running \in SUBSET Threads DEF Running
  <2> QED
    BY <1>13, <2>1, <2>2, ConstantsAssumption DEF Dispose
<1>14. ASSUME NEW t \in Threads, RecordFailure(t) PROVE Flights'
  <2>1. Running' = Running
    BY <1>14 DEF RecordFailure, NotifyAll, CountInterrupt, Running
  <2>2. Cardinality(Running) \in Nat
    BY Moves, Running \in SUBSET Threads DEF Running
  <2> QED
    BY <1>14, <2>1, <2>2, ConstantsAssumption DEF RecordFailure, NotifyAll, CountInterrupt
<1>15. ASSUME NEW t \in Threads, DeadlinePasses(t) PROVE Flights'
  <2>1. Running' = Running
    BY <1>15 DEF DeadlinePasses, Running
  <2>2. Cardinality(Running) \in Nat
    BY Moves, Running \in SUBSET Threads DEF Running
  <2> QED
    BY <1>15, <2>1, <2>2, ConstantsAssumption DEF DeadlinePasses
<1>16. CASE CooldownExpires
  <2>1. Running' = Running
    BY <1>16 DEF CooldownExpires, Running
  <2> QED
    BY <1>16, <2>1 DEF CooldownExpires
<1>17. CASE UNCHANGED vars
  <2>1. Running' = Running
    BY <1>17 DEF vars, Running
  <2> QED
    BY <1>17, <2>1 DEF vars
<1> QED
  BY <1>1, <1>2, <1>3, <1>4, <1>5, <1>6, <1>7, <1>8, <1>9, <1>10, <1>11, <1>12,
     <1>13, <1>14, <1>15, <1>16, <1>17 DEF Next, Resume, FactoryEnds

LEMMA IInvStep == IInv /\ [Next]_vars => IInv'
BY TypesStep, FlagsStep, OnePlaceStep, WakingStep, CountedStep, RoomKeptStep,
   FlightsStep DEF IInv

THEOREM Invariance == Spec => []IInv
<1> QED
  BY InitIInv, IInvStep, PTL DEF Spec

(***************************************************************************)
(* Safety                                                                  *)
(***************************************************************************)
\* Types, for every set of threads: in particular no more generations are minted
\* than calls were admitted for.
THEOREM TypeCorrect == Spec => []TypeOK
<1>1. IInv => TypeOK
  <2> SUFFICES ASSUME IInv PROVE TypeOK
    OBVIOUS
  <2>1. Types /\ Flags /\ Counted /\ RoomKept
    BY DEF IInv
  <2>2. Pending \in SUBSET Threads /\ Blocked \in SUBSET Threads
    BY DEF Pending, Blocked
  <2>3. Cardinality(Pending) \in Nat /\ Cardinality(Blocked) \in Nat
    BY <2>2, SubsetCard
  <2>4. generationCounter \in 0..MaxGeneration /\ waiters \in Nat
    BY <2>1, <2>3, ConstantsAssumption DEF Types, Counted, RoomKept
  <2>5. cooling \in BOOLEAN /\ lastError \in BOOLEAN /\ late \in [Threads -> BOOLEAN]
    BY <2>1 DEF Flags
  <2> QED
    BY <2>1, <2>4, <2>5 DEF Types, TypeOK
<1> QED
  BY <1>1, Invariance, PTL

\* The counter of waiters is the number of threads inside _wait_for_initializer,
\* and max_waiters bounds it.
THEOREM WaitersAreCounted == Spec => []WaitersCounted
<1>1. IInv => WaitersCounted
  BY DEF IInv, Counted, WaitersCounted
<1> QED
  BY <1>1, Invariance, PTL

\* No thread sleeps while nothing initializes.
THEOREM NoWakeupIsLost == Spec => []NoLostWakeup
<1>1. IInv => NoLostWakeup
  BY DEF IInv, Waking
<1> QED
  BY <1>1, Invariance, PTL

\* Without aborts an initializing cell has a thread at work on its generation.
THEOREM InitializerIsAlive == Spec => []InitializerAlive
<1>1. IInv => InitializerAlive
  BY DEF IInv, Waking
<1> QED
  BY <1>1, Invariance, PTL

\* A ready cell holds a payload.
THEOREM ReadyIsFull == Spec => []ReadyHasPayload
<1>1. IInv => ReadyHasPayload
  BY DEF IInv, Waking
<1> QED
  BY <1>1, Invariance, PTL

\* As many factories run side by side as initializations were interrupted, and
\* one more: the single flight the code keeps.
THEOREM SingleFlightKept == Spec => []SingleFlightUpToInterrupts
<1>1. IInv => SingleFlightUpToInterrupts
  <2> SUFFICES ASSUME IInv PROVE SingleFlightUpToInterrupts
    OBVIOUS
  <2>1. Running \in SUBSET Threads
    BY DEF Running
  <2>2. Cardinality(Running) \in Nat
    BY <2>1, SubsetCard
  <2>3. Flights /\ Types
    BY DEF IInv
  <2> QED
    BY <2>2, <2>3 DEF Types, Flights, SingleFlightUpToInterrupts
<1> QED
  BY <1>1, Invariance, PTL

\* A payload has one disposer, is disposed of once and is out of the cell by then.
THEOREM PayloadsDisposedOnce == Spec => []DisposedOnce
<1>1. IInv => DisposedOnce
  BY DEF IInv, OnePlace, AtWork, DisposedOnce
<1> QED
  BY <1>1, Invariance, PTL

(***************************************************************************)
(* Refinement                                                              *)
(***************************************************************************)
Gone == (1..generationCounter) \ (Builds \union {value})

LEMMA Bounds == IInv => generationCounter <= MaxGeneration
<1> SUFFICES ASSUME IInv PROVE generationCounter <= MaxGeneration
  OBVIOUS
<1>1. Pending \in SUBSET Threads
  BY DEF Pending
<1>2. Cardinality(Pending) \in Nat
  BY <1>1, SubsetCard
<1>3. RoomKept /\ Types
  BY DEF IInv
<1> QED
  BY <1>2, <1>3, ConstantsAssumption DEF Types, RoomKept

\* Where the generations are, in the terms of the slot.
LEMMA Places ==
  ASSUME IInv
  PROVE  /\ generationCounter \in Nat /\ value \in 0..generationCounter
         /\ Builds \subseteq 1..generationCounter
         /\ value \notin Builds
         /\ \A t \in Threads : AtWork(t) => gen[t] \in 1..generationCounter
BY DEF IInv, Types, OnePlace, AtWork, Builds, Running

\* When thread t stops building, its generation is no longer among those built.
LEMMA BuildEnds ==
  ASSUME IInv, NEW t \in Threads, pc[t] = "run",
         \/ pc' = NotifyAll(t, "idle")
         \/ pc' = [pc EXCEPT ![t] = "idle"],
         gen' = [gen EXCEPT ![t] = None]
  PROVE  gen[t] \in Builds /\ Builds' = Builds \ {gen[t]}
<1>1. Running' = Running \ {t}
  BY DEF Running, NotifyAll, IInv, Types
<1>2. \A u \in Running \ {t} : gen'[u] = gen[u] /\ gen[u] # gen[t]
  BY DEF Running, IInv, Types, OnePlace, AtWork
<1>3. Builds' = {gen[u] : u \in Running \ {t}}
  BY <1>1, <1>2 DEF Builds
<1> QED
  BY <1>2, <1>3 DEF Builds, Running

\* A thread that is not at work moves or keeps its place: no build changes.
LEMMA BuildsStay ==
  ASSUME Running' = Running, \A u \in Running : gen'[u] = gen[u]
  PROVE  Builds' = Builds
BY DEF Builds

\* Every step of the cell is a step of the slot or leaves it alone.
LEMMA StepImplements == IInv /\ IInv' /\ [Next]_vars => [Slot!SlotNext]_(Slot!slotVars)
<1> SUFFICES ASSUME IInv, IInv', [Next]_vars
             PROVE  Slot!SlotNext \/ UNCHANGED Slot!slotVars
  OBVIOUS
<1> DEFINE Stutter == UNCHANGED <<value, generationCounter, disposed>> /\ Builds' = Builds
<1>s. Stutter => UNCHANGED Slot!slotVars
  BY DEF Slot!slotVars
<1>b. generationCounter' <= MaxGeneration /\ generationCounter <= MaxGeneration
  <2>1. generationCounter <= MaxGeneration
    BY Bounds
  <2>2. RoomKept' /\ Types'
    BY DEF IInv
  <2>3. Pending' \in SUBSET Threads
    BY DEF Pending
  <2>4. Cardinality(Pending') \in Nat
    BY <2>3, SubsetCard
  <2> QED
    BY <2>1, <2>2, <2>4, ConstantsAssumption DEF Types, RoomKept
<1>p. /\ generationCounter \in Nat /\ value \in 0..generationCounter
      /\ Builds \subseteq 1..generationCounter
      /\ value \notin Builds
      /\ \A t \in Threads : AtWork(t) => gen[t] \in 1..generationCounter
  BY Places
<1>t. /\ pc \in [Threads -> {"idle", "enter", "waiting", "woken", "run", "dispose"}]
      /\ gen \in [Threads -> 0..generationCounter]
  BY DEF IInv, Types
<1>1. ASSUME NEW t \in Threads,
             \/ BeginGet(t) \/ EnterAndLeave(t) \/ EnterAndWait(t) \/ WakeAndWait(t)
             \/ WakeAndLeave(t) \/ WakeAndRetry(t) \/ DeadlinePasses(t)
      PROVE  Stutter
  <2>1. Running' = Running /\ gen' = gen
    BY <1>1, <1>t DEF BeginGet, EnterAndLeave, EnterAndWait, WakeAndWait, WakeAndLeave,
       WakeAndRetry, DeadlinePasses, Running, Pending
  <2>2. Builds' = Builds
    BY <2>1, BuildsStay
  <2> QED
    BY <1>1, <2>2 DEF BeginGet, EnterAndLeave, EnterAndWait, WakeAndWait, WakeAndLeave,
       WakeAndRetry, DeadlinePasses, cell
<1>2. ASSUME NEW t \in Threads, EnterAndInitialize(t) PROVE Slot!Begin(generationCounter + 1)
  <2>1. Running' = Running \union {t} /\ t \notin Running
    BY <1>2, <1>t DEF EnterAndInitialize, Running
  <2>2. gen'[t] = generationCounter + 1 /\ \A u \in Running : gen'[u] = gen[u]
    BY <1>2, <1>t, <2>1 DEF EnterAndInitialize, Running
  <2>3. Builds' = Builds \union {generationCounter + 1}
    BY <2>1, <2>2 DEF Builds
  <2>4. Gone' = Gone
    BY <1>2, <1>p, <2>3 DEF EnterAndInitialize, Gone
  <2>5. generationCounter + 1 \in 1..MaxGeneration
    BY <1>2, <1>b, <1>p DEF EnterAndInitialize
  <2>6. generationCounter + 1 \notin Builds \union Gone \union {value}
    BY <1>p DEF Gone
  <2> QED
    BY <1>2, <2>3, <2>4, <2>5, <2>6 DEF EnterAndInitialize, Gone, Slot!Begin, Slot!Fresh
<1>3. ASSUME NEW t \in Threads, FactoryReturns(t) PROVE Slot!Install(gen[t])
  <2>1. gen[t] \in Builds /\ Builds' = Builds \ {gen[t]}
    BY <1>3, BuildEnds DEF FactoryReturns
  <2>2. Gone' = Gone \union ({value} \ {None})
    BY <1>3, <1>p, <2>1 DEF FactoryReturns, Gone
  <2> QED
    BY <1>3, <2>1, <2>2 DEF FactoryReturns, Gone, Slot!Install, Slot!Evicted
<1>4. ASSUME NEW t \in Threads, FactoryRaises(t) PROVE Slot!Fail(gen[t])
  <2>1. gen[t] \in Builds /\ Builds' = Builds \ {gen[t]}
    BY <1>4, BuildEnds DEF FactoryRaises
  <2>2. Gone' = Gone \union ({value} \ {None}) \union {gen[t]}
    <3>1. value' = 0 /\ generationCounter' = generationCounter
      BY <1>4 DEF FactoryRaises
    <3>2. Gone' = (1..generationCounter) \ (Builds \ {gen[t]})
      BY <1>p, <2>1, <3>1 DEF Gone
    <3>3. gen[t] \in 1..generationCounter
      BY <1>p, <2>1
    <3> QED
      BY <1>p, <3>2, <3>3 DEF Gone
  <2> QED
    BY <1>4, <2>1, <2>2 DEF FactoryRaises, Gone, Slot!Fail, Slot!Evicted
<1>5. ASSUME NEW t \in Threads, FactoryAborts(t) PROVE Slot!CutOff(gen[t])
  <2>1. gen[t] \in Builds /\ Builds' = Builds \ {gen[t]}
    BY <1>5, BuildEnds DEF FactoryAborts
  <2>2. Gone' = Gone \union {gen[t]}
    BY <1>5, <1>p, <2>1 DEF FactoryAborts, cell, Gone
  <2> QED
    BY <1>5, <2>1, <2>2 DEF FactoryAborts, cell, Gone, Slot!CutOff
<1>6. ASSUME NEW t \in Threads, Seed(t) PROVE Slot!InstallFresh(generationCounter + 1)
  <2>1. Running' = Running
    BY <1>6, <1>t DEF Seed, NotifyAll, Running
  <2>2. Builds' = Builds
    BY <1>6, <2>1, BuildsStay DEF Seed
  <2>3. Gone' = Gone
    BY <1>6, <1>p, <2>2 DEF Seed, Gone
  <2>4. generationCounter + 1 \in 1..MaxGeneration
    BY <1>6, <1>b, <1>p DEF Seed
  <2>5. generationCounter + 1 \notin Builds \union Gone \union {value}
    BY <1>p DEF Gone
  <2> QED
    BY <1>6, <2>2, <2>3, <2>4, <2>5 DEF Seed, Gone, Slot!InstallFresh, Slot!Fresh
<1>7. ASSUME NEW t \in Threads, Close(t) PROVE Slot!Clear
  <2>1. Running' = Running
    BY <1>7, <1>t DEF Close, NotifyAll, Running
  <2>2. \A u \in Running : gen'[u] = gen[u]
    BY <1>7, <1>t DEF Close, Running
  <2>3. Builds' = Builds
    BY <2>1, <2>2, BuildsStay
  <2>4. Gone' = Gone \union ({value} \ {None})
    BY <1>7, <1>p, <2>3 DEF Close, Gone
  <2> QED
    BY <1>7, <2>3, <2>4 DEF Close, Gone, Slot!Clear, Slot!Evicted
<1>8. ASSUME NEW t \in Threads, Dispose(t) PROVE Slot!Release(gen[t])
  <2>1. Running' = Running /\ \A u \in Running : gen'[u] = gen[u]
    BY <1>8, <1>t DEF Dispose, Running
  <2>2. Builds' = Builds
    BY <2>1, BuildsStay
  <2>3. gen[t] \notin Builds \union disposed \union {value}
    BY <1>8 DEF Dispose, IInv, OnePlace, AtWork, Builds, Running
  <2>4. gen[t] \in 1..generationCounter
    BY <1>8, <1>p DEF Dispose, AtWork
  <2>5. gen[t] \in Gone
    BY <2>3, <2>4 DEF Gone
  <2> QED
    BY <1>8, <2>2, <2>3, <2>5 DEF Dispose, cell, Gone, Slot!Release
<1>9. ASSUME NEW t \in Threads, RecordFailure(t) PROVE Stutter
  <2>1. Running' = Running
    BY <1>9, <1>t DEF RecordFailure, NotifyAll, Running
  <2>2. Builds' = Builds
    BY <1>9, <2>1, BuildsStay DEF RecordFailure
  <2> QED
    BY <1>9, <2>2 DEF RecordFailure
<1>10. ASSUME CooldownExpires \/ UNCHANGED vars PROVE Stutter
  <2>1. Builds' = Builds
    BY <1>10 DEF CooldownExpires, vars, Builds, Running
  <2> QED
    BY <1>10, <2>1 DEF CooldownExpires, vars
<1>i. /\ \A t \in Threads : AtWork(t) => gen[t] \in 1..MaxGeneration
      /\ \A t \in Threads : (FactoryEnds(t) \/ Dispose(t)) => AtWork(t)
  BY <1>b, <1>p, ConstantsAssumption
     DEF FactoryEnds, FactoryReturns, FactoryRaises, FactoryAborts, Dispose, AtWork
<1>n. \A t \in Threads : EnterAndInitialize(t) \/ Seed(t) =>
        generationCounter + 1 \in 1..MaxGeneration
  BY <1>b, <1>p DEF EnterAndInitialize, Seed
<1>11. ASSUME NEW t \in Threads, Resume(t) \/ FactoryEnds(t) PROVE Stutter \/ Slot!SlotNext
  BY <1>11, <1>1, <1>2, <1>3, <1>4, <1>5, <1>8, <1>i, <1>n, Zenon
     DEF Resume, FactoryEnds, Slot!SlotNext
<1>12. ASSUME NEW t \in Threads,
              BeginGet(t) \/ Seed(t) \/ Close(t) \/ RecordFailure(t) \/ DeadlinePasses(t)
       PROVE  Stutter \/ Slot!SlotNext
  BY <1>12, <1>1, <1>6, <1>7, <1>9, <1>n, Zenon DEF Slot!SlotNext
<1> QED
  BY <1>s, <1>10, <1>11, <1>12, Zenon DEF Next

\* The cell implements the life cycle of payloads that PayloadSlot promises.
THEOREM CellImplementsSlot == Spec => ImplementsSlot
<1>1. Init => Slot!SlotInit
  BY DEF Init, Slot!SlotInit, Builds, Running
<1> QED
  BY <1>1, StepImplements, Invariance, IInvStep, PTL DEF Spec, ImplementsSlot, Slot!SlotSpec
=============================================================================
