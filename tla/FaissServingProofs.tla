--------------------------- MODULE FaissServingProofs ---------------------------
(* Theorems about FaissServing, for any number of searches and any number of     *)
(* replacements of the index file.                                               *)
EXTENDS FaissServing, TLAPS

(***************************************************************************)
(* The inductive invariant                                                 *)
(***************************************************************************)
ServingTypes ==
  /\ file \in 0..MaxEpoch /\ index \in 0..MaxEpoch /\ floor \in 0..MaxEpoch
  /\ lock \in Callers \union Reloaders \union {Unlocked}
  /\ loop \in Deep \union {"free", "reload", "close", "closed"}
  /\ step \in [Callers -> ServingSteps]
  /\ got \in [Callers -> 0..MaxEpoch]
  /\ frame \in [Reloaders -> {Idle, "acquire", "clear", "drop"}]
  /\ goal \in [Reloaders -> 0..MaxEpoch]

ServingFlags ==
  /\ loaded \in BOOLEAN /\ overlapped \in BOOLEAN
  /\ wrapped \in BOOLEAN /\ crossed \in BOOLEAN
  /\ saved \in [Callers -> BOOLEAN]

\* The lock is held by who is between its acquisition and its release.
Locks ==
  /\ \A c \in Callers : step[c] \in {"read", "assign", "export", "release"} <=> lock = c
  /\ \A r \in Reloaders : frame[r] = "clear" <=> lock = r
  /\ frame["loop"] # Idle => loop = "reload"

\* A load that has read the file has read it after the flag was cleared by every
\* reload that has not dropped the index yet, and by those that have.
Reads ==
  /\ floor <= file /\ \A r \in Reloaders : goal[r] <= file
  /\ \A c \in Callers : step[c] \in {"acquire", "read"} => file # 0
  /\ \A c \in Callers : step[c] = "assign" =>
       /\ got[c] # 0 /\ floor <= got[c]
       /\ \A r \in Reloaders : frame[r] = "drop" => goal[r] <= got[c]
  /\ NeverStale

\* No load is under way, or has ended, between the two halves of a reload.
Closing == loop \in {"close", "closed"}
Apart ==
  /\ loaded => index # 0 /\ ~HalfReloaded
  /\ \A c \in Callers : step[c] \in {"read", "assign", "export"} => ~HalfReloaded
  /\ \A c \in Callers : step[c] = "export" => index # 0
ApartUnless == ~overlapped => Closing \/ Apart

\* While no guards have crossed, the outermost one is set, and what it saved is
\* the manager's own method.
Outermost == \E c \in Callers : step[c] = "stage0" /\ ~saved[c]
Nested == wrapped \/ (\E c \in Callers : Guarding(c) /\ saved[c]) => Outermost
GuardsNest ==
  /\ ~crossed => Nested
  /\ \A c \in Deep : step[c] \notin {"guard", "wrap", "stage0"}

ServingInv == ServingTypes /\ ServingFlags /\ Locks /\ Reads /\ ApartUnless /\ GuardsNest

LEMMA Names ==
  /\ Deep \subseteq Callers /\ Semantic \subseteq Callers
  /\ \A c \in Callers : c \notin {"loop", "signal", Unlocked, "free", "reload", "close", "closed"}
  /\ \A c \in Callers : c \in Deep \/ c \in Semantic
  /\ Semantic \intersect Deep = {} /\ MaxEpoch \in Nat /\ MaxEpoch # 0
BY ServingAssumption DEF Callers, Reloaders, Unlocked

LEMMA ServingInit_Inv == ServingInit => ServingInv
<1> SUFFICES ASSUME ServingInit PROVE ServingInv
  OBVIOUS
<1> USE DEF Idle
<1>1. ServingTypes
  BY Names DEF ServingInit, ServingTypes, ServingSteps
<1>2. ServingFlags
  BY Zenon DEF ServingInit, ServingFlags
<1>3. Locks
  BY Names DEF ServingInit, Locks, Reloaders, Unlocked
<1>4. Reads
  BY DEF ServingInit, Reads, NeverStale
<1>5. ApartUnless
  BY DEF ServingInit, ApartUnless, Apart
<1>6. GuardsNest
  BY Names DEF ServingInit, GuardsNest, Nested, Guarding
<1> QED
  BY <1>1, <1>2, <1>3, <1>4, <1>5, <1>6 DEF ServingInv

(***************************************************************************)
(* Types                                                                   *)
(***************************************************************************)
LEMMA TypesKept ==
  ASSUME ServingTypes, [ServingNext]_servingVars
  PROVE  ServingTypes'
<1> USE Names DEF ServingTypes, ServingSteps, Idle, guards, reloads
<1>1. Replace => ServingTypes'
  BY DEF Replace
<1>2. ASSUME NEW c \in Callers, Begin(c) \/ Check(c)
      PROVE  ServingTypes'
  BY <1>2 DEF Begin, Check, Moves, NotReady
<1>3. ASSUME NEW c \in Callers, Acquire(c) \/ Read(c) \/ Assign(c)
      PROVE  ServingTypes'
  BY <1>3 DEF Acquire, Read, Assign, Moves
<1>4. ASSUME NEW c \in Callers, LoadFails(c) \/ LoadEnds(c) \/ Release(c)
      PROVE  ServingTypes'
  BY <1>4 DEF LoadFails, LoadEnds, Release, Moves, NotReady, Raises
<1>5. ASSUME NEW c \in Callers, Guards(c) \/ Lookup(c) \/ Search(c)
      PROVE  ServingTypes'
  BY <1>5 DEF Guards, GuardSave, GuardWrap, GuardEnds, Lookup, Search, Moves
<1>6. ASSUME NEW r \in Reloaders, Reload(r)
      PROVE  ServingTypes'
  BY <1>6 DEF Reload, ReloadBegins, ReloadAcquires, ReloadClears, ReloadDrops, Unlocked
<1>7. CloseBegins \/ CloseEnds \/ UNCHANGED servingVars => ServingTypes'
  BY DEF CloseBegins, CloseEnds, servingVars
<1> QED
  BY <1>1, <1>2, <1>3, <1>4, <1>5, <1>6, <1>7 DEF ServingNext, Loads

LEMMA FlagsKept ==
  ASSUME ServingFlags, [ServingNext]_servingVars
  PROVE  ServingFlags'
<1> USE DEF ServingFlags, guards, reloads
<1>1. Replace \/ CloseBegins \/ CloseEnds \/ UNCHANGED servingVars => ServingFlags'
  BY Zenon DEF Replace, CloseBegins, CloseEnds, servingVars
<1>2. \A c \in Callers : Begin(c) \/ Check(c) \/ Loads(c) \/ Lookup(c) \/ Search(c) => ServingFlags'
  BY Zenon DEF Begin, Check, Loads, Read, Assign, LoadFails, LoadEnds, Release, Lookup, Search
<1>3. \A c \in Callers : Acquire(c) => ServingFlags'
  BY Zenon DEF Acquire
<1>4. ASSUME NEW c \in Callers, GuardSave(c)
      PROVE  ServingFlags'
  BY <1>4 DEF GuardSave
<1>5. ASSUME NEW c \in Callers, GuardWrap(c)
      PROVE  ServingFlags'
  BY <1>5, Zenon DEF GuardWrap
<1>6. ASSUME NEW c \in Callers, GuardEnds(c)
      PROVE  ServingFlags'
  <2>1. saved' \in [Callers -> BOOLEAN] /\ wrapped' \in BOOLEAN
    BY <1>6 DEF GuardEnds
  <2>2. crossed' \in BOOLEAN /\ UNCHANGED <<loaded, overlapped>>
    BY <1>6, Zenon DEF GuardEnds
  <2> QED
    BY <2>1, <2>2
<1>7. \A r \in Reloaders : Reload(r) => ServingFlags'
  BY Zenon DEF Reload, ReloadBegins, ReloadAcquires, ReloadClears, ReloadDrops
<1> QED
  BY <1>1, <1>2, <1>3, <1>4, <1>5, <1>6, <1>7, Names DEF ServingNext, Guards

(***************************************************************************)
(* The lock                                                                *)
(***************************************************************************)
LEMMA LocksKept ==
  ASSUME ServingTypes, Locks, [ServingNext]_servingVars
  PROVE  Locks'
<1> USE Names DEF Locks, ServingTypes, Idle, Unlocked, Reloaders, guards, reloads
<1>1. Replace \/ CloseBegins \/ CloseEnds \/ UNCHANGED servingVars => Locks'
  BY DEF Replace, CloseBegins, CloseEnds, Interrupted, servingVars
<1>2. ASSUME NEW c \in Callers, Begin(c) \/ Check(c)
      PROVE  Locks'
  BY <1>2 DEF Begin, Check, Moves, NotReady
<1>3. ASSUME NEW c \in Callers, Acquire(c)
      PROVE  Locks'
  BY <1>3 DEF Acquire, Moves
<1>4. ASSUME NEW c \in Callers, Read(c) \/ Assign(c) \/ LoadEnds(c)
      PROVE  Locks'
  BY <1>4 DEF Read, Assign, LoadEnds, Moves
<1>5. ASSUME NEW c \in Callers, LoadFails(c) \/ Release(c)
      PROVE  Locks'
  BY <1>5 DEF LoadFails, Release, Moves, NotReady, Raises
<1>6. ASSUME NEW c \in Callers, Guards(c) \/ Lookup(c) \/ Search(c)
      PROVE  Locks'
  BY <1>6 DEF Guards, GuardSave, GuardWrap, GuardEnds, Lookup, Search, Moves
<1>7. ASSUME NEW r \in Reloaders, ReloadBegins(r) \/ ReloadAcquires(r)
      PROVE  Locks'
  BY <1>7 DEF ReloadBegins, ReloadAcquires
<1>8. ASSUME NEW r \in Reloaders, ReloadClears(r) \/ ReloadDrops(r)
      PROVE  Locks'
  BY <1>8 DEF ReloadClears, ReloadDrops
<1> QED
  BY <1>1, <1>2, <1>3, <1>4, <1>5, <1>6, <1>7, <1>8 DEF ServingNext, Loads, Reload

(***************************************************************************)
(* No stale index                                                          *)
(***************************************************************************)
LEMMA ReadsKept ==
  ASSUME ServingTypes, Locks, Reads, [ServingNext]_servingVars
  PROVE  Reads'
<1> USE Names DEF Reads, NeverStale, ServingTypes, Idle, guards, reloads
<1>1. Replace \/ CloseBegins \/ CloseEnds \/ UNCHANGED servingVars => Reads'
  BY DEF Replace, CloseBegins, CloseEnds, servingVars
<1>2. ASSUME NEW c \in Callers, Begin(c) \/ Check(c)
      PROVE  Reads'
  BY <1>2 DEF Begin, Check, Moves, NotReady
<1>3. ASSUME NEW c \in Callers, Acquire(c) \/ Read(c)
      PROVE  Reads'
  BY <1>3 DEF Acquire, Read, Moves
<1>4. ASSUME NEW c \in Callers, Assign(c)
      PROVE  Reads'
  BY <1>4 DEF Assign, Moves
<1>5. ASSUME NEW c \in Callers, LoadFails(c) \/ LoadEnds(c) \/ Release(c)
      PROVE  Reads'
  BY <1>5 DEF LoadFails, LoadEnds, Release, Moves, NotReady, Raises
<1>6. ASSUME NEW c \in Callers, Guards(c) \/ Lookup(c) \/ Search(c)
      PROVE  Reads'
  BY <1>6 DEF Guards, GuardSave, GuardWrap, GuardEnds, Lookup, Search, Moves
<1>7. ASSUME NEW r \in Reloaders, ReloadBegins(r) \/ ReloadAcquires(r)
      PROVE  Reads'
  BY <1>7 DEF ReloadBegins, ReloadAcquires
<1>8. ASSUME NEW r \in Reloaders, ReloadClears(r)
      PROVE  Reads'
  <2>1. lock = r /\ \A c \in Callers : step[c] # "assign"
    BY <1>8 DEF ReloadClears, Locks, Reloaders
  <2> QED
    BY <1>8, <2>1 DEF ReloadClears
<1>9. ASSUME NEW r \in Reloaders, ReloadDrops(r)
      PROVE  Reads'
  BY <1>9 DEF ReloadDrops
<1> QED
  BY <1>1, <1>2, <1>3, <1>4, <1>5, <1>6, <1>7, <1>8, <1>9 DEF ServingNext, Loads, Reload

(***************************************************************************)
(* The loaded flag                                                         *)
(***************************************************************************)
\* A server that closes does not open again.
LEMMA ClosingStays ==
  ASSUME ServingTypes, Locks, [ServingNext]_servingVars, Closing
  PROVE  Closing'
<1> USE Names DEF Closing, Locks, ServingTypes, Idle, Reloaders, guards, reloads
<1>1. ASSUME NEW c \in Callers, Begin(c) \/ Check(c) \/ Acquire(c) \/ Loads(c)
      PROVE  Closing'
  BY <1>1 DEF Begin, Check, Acquire, Loads, Read, Assign, LoadFails, LoadEnds, Release,
    NotReady, Raises
<1>2. ASSUME NEW c \in Callers, Guards(c) \/ Lookup(c) \/ Search(c)
      PROVE  Closing'
  BY <1>2 DEF Guards, GuardSave, GuardWrap, GuardEnds, Lookup, Search
<1>3. ASSUME NEW r \in Reloaders, Reload(r)
      PROVE  Closing'
  BY <1>3 DEF Reload, ReloadBegins, ReloadAcquires, ReloadClears, ReloadDrops
<1>4. Replace \/ CloseBegins \/ CloseEnds \/ UNCHANGED servingVars => Closing'
  BY DEF Replace, CloseBegins, CloseEnds, servingVars
<1> QED
  BY <1>1, <1>2, <1>3, <1>4 DEF ServingNext

\* What the flag does in each step, and what it takes for the history to stay clean.
LEMMA LoadedMoves ==
  ASSUME ServingFlags, [ServingNext]_servingVars, ~overlapped'
  PROVE  /\ ~overlapped
         /\ \A c \in Callers : Acquire(c) => loaded \/ ~HalfReloaded
<1> USE DEF guards, reloads
<1>1. \A c \in Callers : Acquire(c) => ~overlapped /\ (loaded \/ ~HalfReloaded)
  BY Zenon DEF Acquire
<1>2. \A c \in Callers : Begin(c) \/ Check(c) \/ Loads(c) \/ Guards(c) \/ Lookup(c) \/ Search(c)
        => ~overlapped
  BY Zenon DEF Begin, Check, Loads, Read, Assign, LoadFails, LoadEnds, Release,
    Guards, GuardSave, GuardWrap, GuardEnds, Lookup, Search
<1>3. \A r \in Reloaders : Reload(r) => ~overlapped
  BY Zenon DEF Reload, ReloadBegins, ReloadAcquires, ReloadClears, ReloadDrops
<1>4. Replace \/ CloseBegins \/ CloseEnds \/ UNCHANGED servingVars => ~overlapped
  BY Zenon DEF Replace, CloseBegins, CloseEnds, servingVars
<1> QED
  BY <1>1, <1>2, <1>3, <1>4, Names DEF ServingNext

LEMMA ApartKept ==
  ASSUME ServingTypes, ServingFlags, Locks, Reads, ApartUnless, [ServingNext]_servingVars
  PROVE  ApartUnless'
<1>1. SUFFICES ASSUME ~overlapped', ~Closing' PROVE Apart'
  BY DEF ApartUnless
<1>2. Apart
  BY <1>1, ClosingStays, LoadedMoves DEF ApartUnless
<1>3. loaded \in BOOLEAN
  BY DEF ServingFlags
<1> USE Names, <1>2, <1>3 DEF Apart, HalfReloaded, ServingTypes, Idle, guards, reloads
<1>4. Replace \/ UNCHANGED servingVars => Apart'
  BY DEF Replace, servingVars
<1>5. CloseBegins \/ CloseEnds => Apart'
  BY <1>1 DEF CloseBegins, CloseEnds, Closing
<1>6. ASSUME NEW c \in Callers, Begin(c) \/ Check(c)
      PROVE  Apart'
  BY <1>6 DEF Begin, Check, Moves, NotReady
<1>7. ASSUME NEW c \in Callers, Acquire(c)
      PROVE  Apart'
  <2>1. loaded \/ ~HalfReloaded
    BY <1>1, <1>7, LoadedMoves
  <2> QED
    BY <1>7, <2>1 DEF Acquire, Moves
<1>8. ASSUME NEW c \in Callers, Read(c) \/ LoadEnds(c)
      PROVE  Apart'
  BY <1>8 DEF Read, LoadEnds, Moves
<1>9. ASSUME NEW c \in Callers, Assign(c)
      PROVE  Apart'
  BY <1>9 DEF Assign, Moves, Reads
<1>10. ASSUME NEW c \in Callers, LoadFails(c) \/ Release(c)
       PROVE  Apart'
  BY <1>10 DEF LoadFails, Release, Moves, NotReady, Raises
<1>11. ASSUME NEW c \in Callers, Guards(c) \/ Lookup(c) \/ Search(c)
       PROVE  Apart'
  BY <1>11 DEF Guards, GuardSave, GuardWrap, GuardEnds, Lookup, Search, Moves
<1>12. ASSUME NEW r \in Reloaders, ReloadBegins(r) \/ ReloadAcquires(r)
       PROVE  Apart'
  BY <1>12 DEF ReloadBegins, ReloadAcquires
<1>13. ASSUME NEW r \in Reloaders, ReloadClears(r)
       PROVE  Apart'
  <2>1. lock = r /\ \A c \in Callers : step[c] \notin {"read", "assign", "export"}
    BY <1>13 DEF ReloadClears, Locks, Reloaders
  <2> QED
    BY <1>13, <2>1 DEF ReloadClears
<1>14. ASSUME NEW r \in Reloaders, ReloadDrops(r)
       PROVE  Apart'
  BY <1>14 DEF ReloadDrops
<1> QED
  BY <1>4, <1>5, <1>6, <1>7, <1>8, <1>9, <1>10, <1>11, <1>12, <1>13, <1>14
    DEF ServingNext, Loads, Reload

(***************************************************************************)
(* The guard                                                               *)
(***************************************************************************)
\* A step that leaves the guards alone and moves nobody into or out of one.
LEMMA GuardsAlone ==
  ASSUME GuardsNest, UNCHANGED guards,
         \A c \in Callers : /\ step[c] \in {"wrap", "stage0"} => step'[c] = step[c]
                            /\ step'[c] \in {"wrap", "stage0"} => step'[c] = step[c],
         \A c \in Deep : step'[c] # "guard"
  PROVE  GuardsNest'
<1>1. Nested => Nested'
  BY Zenon DEF Nested, Outermost, Guarding, guards
<1>2. \A c \in Deep : step'[c] \notin {"guard", "wrap", "stage0"}
  BY Names DEF GuardsNest
<1> QED
  BY <1>1, <1>2, Zenon DEF GuardsNest, guards

LEMMA NestKept ==
  ASSUME ServingTypes, ServingFlags, GuardsNest, [ServingNext]_servingVars
  PROVE  GuardsNest'
<1> USE Names DEF ServingTypes, ServingSteps, Idle
<1>1. Replace \/ CloseBegins \/ CloseEnds \/ UNCHANGED servingVars => GuardsNest'
  BY GuardsAlone DEF Replace, CloseBegins, CloseEnds, servingVars, guards, GuardsNest
<1>2. ASSUME NEW c \in Callers, Begin(c) \/ Check(c) \/ Acquire(c) \/ Loads(c)
      PROVE  GuardsNest'
  <2>1. UNCHANGED guards /\ step[c] \notin {"wrap", "stage0"}
    BY <1>2 DEF Begin, Check, Acquire, Loads, Read, Assign, LoadFails, LoadEnds, Release, guards
  <2>2. \E to \in {Idle, "check", "acquire", "read", "assign", "export", "release", "search", "guard"} :
          /\ step' = [step EXCEPT ![c] = to]
          /\ to = "guard" => c \notin Deep
    BY <1>2 DEF Begin, Check, Acquire, Loads, Read, Assign, LoadFails, LoadEnds, Release,
      NotReady, Raises, Moves
  <2> QED
    BY <2>1, <2>2, GuardsAlone DEF GuardsNest
<1>3. ASSUME NEW c \in Callers, Lookup(c) \/ Search(c)
      PROVE  GuardsNest'
  BY <1>3, GuardsAlone DEF Lookup, Search, Moves, GuardsNest
<1>4. ASSUME NEW r \in Reloaders, Reload(r)
      PROVE  GuardsNest'
  BY <1>4, GuardsAlone DEF Reload, ReloadBegins, ReloadAcquires, ReloadClears, ReloadDrops, GuardsNest
<1>5. ASSUME NEW c \in Semantic, GuardSave(c)
      PROVE  GuardsNest'
  <2>1. /\ step[c] = "guard" /\ step' = [step EXCEPT ![c] = "wrap"]
        /\ saved' = [saved EXCEPT ![c] = wrapped] /\ UNCHANGED <<wrapped, crossed>>
    BY <1>5 DEF GuardSave, Moves
  <2>2. Nested => Nested'
    BY <2>1 DEF Nested, Outermost, Guarding, ServingFlags
  <2> QED
    BY <2>1, <2>2 DEF GuardsNest
<1>6. ASSUME NEW c \in Semantic, GuardWrap(c)
      PROVE  GuardsNest'
  <2>1. /\ step[c] = "wrap" /\ step' = [step EXCEPT ![c] = "stage0"]
        /\ UNCHANGED <<saved, crossed>>
    BY <1>6 DEF GuardWrap, Moves
  <2>2. Nested => Nested'
    BY <2>1 DEF Nested, Outermost, Guarding, ServingFlags
  <2> QED
    BY <2>1, <2>2 DEF GuardsNest
<1>7. ASSUME NEW c \in Semantic, GuardEnds(c)
      PROVE  GuardsNest'
  <2>1. /\ step[c] = "stage0" /\ step' = [step EXCEPT ![c] = Idle]
        /\ wrapped' = saved[c] /\ saved' = [saved EXCEPT ![c] = FALSE]
    BY <1>7 DEF GuardEnds, Moves
  <2>2. ~crossed' => ~crossed /\ (saved[c] \/ \A d \in Callers : Guarding(d) => ~saved[d])
    BY <1>7, Zenon DEF GuardEnds
  <2>3. Nested /\ (saved[c] \/ \A d \in Callers : Guarding(d) => ~saved[d]) => Nested'
    BY <2>1 DEF Nested, Outermost, Guarding, ServingFlags
  <2> QED
    BY <2>1, <2>2, <2>3 DEF GuardsNest
<1> QED
  BY <1>1, <1>2, <1>3, <1>4, <1>5, <1>6, <1>7 DEF ServingNext, Guards

LEMMA ServingInvariant == ServingSpec => []ServingInv
<1>1. ServingInv /\ [ServingNext]_servingVars => ServingInv'
  BY TypesKept, FlagsKept, LocksKept, ReadsKept, ApartKept, NestKept DEF ServingInv
<1> QED
  BY <1>1, ServingInit_Inv, PTL DEF ServingSpec

(***************************************************************************)
(* The theorems                                                            *)
(***************************************************************************)
\* Every variable of FaissServing keeps its kind of value.
THEOREM ServingTyped == ServingSpec => []ServingTypeOK
<1>1. ServingInv => ServingTypeOK
  BY DEF ServingInv, ServingTypes, ServingFlags, ServingTypeOK
<1> QED
  BY <1>1, ServingInvariant, PTL

\* reload_indices: what is served after it was read after the reload began.
THEOREM ReloadTakesEffect == ServingSpec => []NeverStale
<1>1. ServingInv => NeverStale
  BY DEF ServingInv, Reads
<1> QED
  BY <1>1, ServingInvariant, PTL

\* The loaded flag tells the truth unless a load began inside a reload.
THEOREM LoadedTruthful == ServingSpec => []LoadedMeansIndex
<1>1. ServingInv => LoadedMeansIndex
  BY Zenon DEF ServingInv, ApartUnless, Apart, Closing, LoadedMeansIndex
<1> QED
  BY <1>1, ServingInvariant, PTL

\* _faiss_guard restores the manager unless guards cross.
THEOREM GuardsRestore == ServingSpec => []GuardRestored
<1>1. ServingInv => GuardRestored
  <2>1. SUFFICES ASSUME ServingInv, wrapped, \A c \in Semantic : ~Guarding(c), ~crossed
                 PROVE  FALSE
    BY Zenon DEF GuardRestored
  <2>2. \E c \in Callers : step[c] = "stage0"
    BY <2>1, Zenon DEF ServingInv, GuardsNest, Nested, Outermost
  <2> QED
    BY <2>1, <2>2, Names DEF ServingInv, GuardsNest, Guarding
<1> QED
  BY <1>1, ServingInvariant, PTL

(***************************************************************************)
(* Who the main thread waits for                                           *)
(***************************************************************************)
\* A deep search makes the index ready on the event loop, and nothing else does.
OnLoop ==
  \A c \in Deep :
    loop = c <=> step[c] \in {"check", "acquire", "read", "assign", "export", "release"}

LEMMA OnLoopKept ==
  ASSUME ServingTypes, Locks, GuardsNest, OnLoop, [ServingNext]_servingVars
  PROVE  OnLoop'
<1> USE Names DEF OnLoop, ServingTypes, GuardsNest, Idle, guards, reloads
<1>1. Replace \/ CloseBegins \/ CloseEnds \/ UNCHANGED servingVars => OnLoop'
  BY DEF Replace, CloseBegins, CloseEnds, Interrupted, servingVars
<1>2. ASSUME NEW c \in Callers, Begin(c) \/ Check(c)
      PROVE  OnLoop'
  BY <1>2 DEF Begin, Check, Moves, NotReady
<1>3. ASSUME NEW c \in Callers, Acquire(c) \/ Read(c) \/ Assign(c) \/ LoadEnds(c)
      PROVE  OnLoop'
  BY <1>3 DEF Acquire, Read, Assign, LoadEnds, Moves
<1>4. ASSUME NEW c \in Callers, LoadFails(c) \/ Release(c)
      PROVE  OnLoop'
  BY <1>4 DEF LoadFails, Release, Moves, NotReady, Raises
<1>5. ASSUME NEW c \in Callers, Guards(c) \/ Lookup(c) \/ Search(c)
      PROVE  OnLoop'
  BY <1>5 DEF Guards, GuardSave, GuardWrap, GuardEnds, Lookup, Search, Moves
<1>6. ASSUME NEW r \in Reloaders, Reload(r)
      PROVE  OnLoop'
  BY <1>6 DEF Reload, ReloadBegins, ReloadAcquires, ReloadClears, ReloadDrops, Locks
<1> QED
  BY <1>1, <1>2, <1>3, <1>4, <1>5, <1>6, Names DEF ServingNext, Loads, Guards

\* The main thread waits for a worker thread at work on the index, or for itself.
THEOREM MainWaitsForWorkers == ServingSpec => []MainAwaitsWorker
<1>1. ServingInit => OnLoop
  BY Names DEF ServingInit, OnLoop, Idle
<1>2. ServingInv /\ OnLoop => MainAwaitsWorker
  <2> SUFFICES ASSUME ServingInv, OnLoop, MainWaits, lock # Unlocked, ~SelfDeadlocked
               PROVE  lock \in Semantic /\ step[lock] \in {"read", "assign", "export", "release"}
    BY DEF MainAwaitsWorker
  <2> USE Names
  <2>1. Locks /\ ServingTypes
    BY DEF ServingInv
  <2>2. lock # "signal"
    BY <2>1 DEF Locks, MainWaits, Interrupted, Idle, Reloaders
  <2>3. lock # "loop"
    BY <2>1 DEF Locks, MainWaits, SelfDeadlocked, OnLoop, Idle, Reloaders
  <2>4. lock \in Callers /\ step[lock] \in {"read", "assign", "export", "release"}
    BY <2>1, <2>2, <2>3 DEF ServingTypes, Locks, Reloaders
  <2>5. lock \notin Deep
    BY <2>1, <2>4 DEF Locks, MainWaits, SelfDeadlocked, OnLoop, Idle, Reloaders
  <2> QED
    BY <2>4, <2>5
<1>3. ServingInv /\ OnLoop /\ [ServingNext]_servingVars => OnLoop'
  BY OnLoopKept DEF ServingInv
<1>4. ServingSpec => []ServingInv
  BY ServingInvariant
<1> QED
  BY <1>1, <1>2, <1>3, <1>4, PTL DEF ServingSpec

(***************************************************************************)
(* The abstract specification                                              *)
(***************************************************************************)
\* A load is at work only while the flag is down, with contents the file has had.
Loading ==
  /\ \A c \in Callers : step[c] \in {"read", "assign", "export"} => ~loaded
  /\ \A c \in Callers : got[c] <= file

LEMMA LoadingKept ==
  ASSUME ServingTypes, ServingFlags, Locks, Loading, [ServingNext]_servingVars
  PROVE  Loading'
<1>1. loaded \in BOOLEAN
  BY DEF ServingFlags
<1> USE Names, <1>1 DEF Loading, ServingTypes, Idle, guards, reloads
<1>2. Replace \/ CloseBegins \/ CloseEnds \/ UNCHANGED servingVars => Loading'
  BY DEF Replace, CloseBegins, CloseEnds, servingVars
<1>3. ASSUME NEW c \in Callers, Begin(c) \/ Check(c)
      PROVE  Loading'
  BY <1>3 DEF Begin, Check, Moves, NotReady
<1>4. ASSUME NEW c \in Callers, Acquire(c) \/ Read(c) \/ Assign(c)
      PROVE  Loading'
  BY <1>4 DEF Acquire, Read, Assign, Moves
<1>5. ASSUME NEW c \in Callers, LoadFails(c) \/ Release(c)
      PROVE  Loading'
  BY <1>5 DEF LoadFails, Release, Moves, NotReady, Raises
<1>6. ASSUME NEW c \in Callers, LoadEnds(c)
      PROVE  Loading'
  <2>1. \A d \in Callers \ {c} : step[d] \notin {"read", "assign", "export"}
    BY <1>6 DEF LoadEnds, Locks
  <2> QED
    BY <1>6, <2>1 DEF LoadEnds, Moves
<1>7. ASSUME NEW c \in Callers, Guards(c) \/ Lookup(c) \/ Search(c)
      PROVE  Loading'
  BY <1>7 DEF Guards, GuardSave, GuardWrap, GuardEnds, Lookup, Search, Moves
<1>8. ASSUME NEW r \in Reloaders, Reload(r)
      PROVE  Loading'
  BY <1>8 DEF Reload, ReloadBegins, ReloadAcquires, ReloadClears, ReloadDrops
<1> QED
  BY <1>2, <1>3, <1>4, <1>5, <1>6, <1>7, <1>8 DEF ServingNext, Loads, Guards

Loose == overlapped \/ loop \in {"close", "closed"}

\* Only the beginning of a shut-down begins it.
LEMMA ClosingSame ==
  ASSUME ServingTypes, Locks, [ServingNext]_servingVars, ~CloseBegins
  PROVE  Closing <=> Closing'
<1> USE Names DEF Closing, Locks, ServingTypes, Idle, Reloaders, guards, reloads
<1>1. ASSUME NEW c \in Callers, Begin(c) \/ Check(c) \/ Acquire(c) \/ Loads(c)
      PROVE  Closing' => Closing
  BY <1>1 DEF Begin, Check, Acquire, Loads, Read, Assign, LoadFails, LoadEnds, Release,
    NotReady, Raises
<1>2. ASSUME NEW c \in Callers, Guards(c) \/ Lookup(c) \/ Search(c)
      PROVE  Closing' => Closing
  BY <1>2 DEF Guards, GuardSave, GuardWrap, GuardEnds, Lookup, Search
<1>3. ASSUME NEW r \in Reloaders, Reload(r)
      PROVE  Closing' => Closing
  BY <1>3 DEF Reload, ReloadBegins, ReloadAcquires, ReloadClears, ReloadDrops
<1>4. Replace \/ CloseEnds \/ UNCHANGED servingVars => (Closing' => Closing)
  BY DEF Replace, CloseEnds, servingVars
<1> QED
  BY <1>1, <1>2, <1>3, <1>4, ClosingStays DEF ServingNext

LEMMA StepImplements ==
  ServingInv /\ Loading /\ [ServingNext]_servingVars
    => [Serving!ServedNext]_(Serving!servedVars)
<1> SUFFICES ASSUME ServingInv, Loading, [ServingNext]_servingVars
             PROVE  Serving!ServedNext \/ UNCHANGED Serving!servedVars
  OBVIOUS
<1>t. /\ ServingTypes /\ ServingFlags /\ Locks /\ Reads
      /\ overlapped \/ Closing \/ Apart
  BY DEF ServingInv, ApartUnless
<1>1. CASE CloseBegins
  <2>1. Loose' = TRUE /\ index' = 0 /\ UNCHANGED <<file, loaded, floor>>
    BY <1>1, Zenon DEF CloseBegins, Loose, reloads
  <2>2. Serving!Loosen
    BY <2>1 DEF Serving!Loosen, Loose
  <2> QED
    BY <2>2 DEF Serving!ServedNext
<1>2. CASE ~CloseBegins
  <2>c. Closing <=> Closing'
    BY <1>t, <1>2, ClosingSame
  <2>u. ASSUME UNCHANGED overlapped PROVE UNCHANGED Loose
    BY <2>c, <2>u, Zenon DEF Loose, Closing
  <2>1. ASSUME Replace PROVE Serving!NewContent
    <3>1. UNCHANGED Loose
      BY <2>1, <2>u, Zenon DEF Replace
    <3> QED
      BY <2>1, <3>1, Zenon DEF Replace, Serving!NewContent, Loose, reloads
  <2>2. ASSUME NEW c \in Callers,
               \/ Begin(c) \/ Check(c) \/ Read(c) \/ LoadFails(c) \/ Release(c)
               \/ Guards(c) \/ Lookup(c) \/ Search(c)
        PROVE  UNCHANGED Serving!servedVars
    <3>1. UNCHANGED <<file, index, loaded, floor, overlapped>>
      BY <2>2, Zenon DEF Begin, Check, Read, LoadFails, Release, Guards, GuardSave, GuardWrap,
                         GuardEnds, Lookup, Search, reloads, guards
    <3> QED
      BY <3>1, <2>u, Zenon DEF Serving!servedVars, Loose
  <2>3. ASSUME NEW c \in Callers, Acquire(c)
        PROVE  Serving!Loosen \/ UNCHANGED Serving!servedVars
    <3>1. UNCHANGED <<file, index, loaded, floor>>
      BY <2>3, Zenon DEF Acquire, reloads
    <3>2. CASE ~loaded /\ HalfReloaded
      <4>1. Loose' = TRUE
        BY <2>3, <3>2, Zenon DEF Acquire, Loose
      <4> QED
        BY <3>1, <4>1 DEF Serving!Loosen, Loose
    <3>3. CASE ~(~loaded /\ HalfReloaded)
      <4>1. UNCHANGED overlapped
        BY <2>3, <3>3, <1>t, Zenon DEF Acquire, ServingFlags
      <4> QED
        BY <3>1, <4>1, <2>u, Zenon DEF Serving!servedVars, Loose
    <3> QED
      BY <3>2, <3>3
  <2>4. ASSUME NEW c \in Callers, Assign(c) PROVE Serving!Load
    <3>1. /\ index' = got[c] /\ got[c] \in floor..file /\ got[c] # 0
      BY <2>4, <1>t DEF Assign, Reads, Loading, ServingTypes
    <3>2. ~loaded /\ UNCHANGED <<file, loaded, floor, overlapped>>
      BY <2>4, Zenon DEF Assign, Loading, reloads
    <3>3. UNCHANGED Loose
      BY <3>2, <2>u
    <3> QED
      BY <3>1, <3>2, <3>3, Zenon DEF Serving!Load, Loose
  <2>5. ASSUME NEW c \in Callers, LoadEnds(c) PROVE Serving!CallReady
    <3>1. index # 0 \/ Loose
      BY <2>5, <1>t, Zenon DEF LoadEnds, Apart, Loose, Closing
    <3>2. loaded' = TRUE /\ UNCHANGED <<file, index, floor, overlapped>>
      BY <2>5, Zenon DEF LoadEnds, reloads
    <3>3. UNCHANGED Loose
      BY <3>2, <2>u
    <3> QED
      BY <3>1, <3>2, <3>3, Zenon DEF Serving!CallReady, Loose
  <2>6. ASSUME NEW r \in Reloaders, ReloadBegins(r) \/ ReloadAcquires(r)
        PROVE  UNCHANGED Serving!servedVars
    <3>1. UNCHANGED <<file, index, loaded, floor, overlapped>>
      BY <2>6, Zenon DEF ReloadBegins, ReloadAcquires
    <3> QED
      BY <3>1, <2>u, Zenon DEF Serving!servedVars, Loose
  <2>7. ASSUME \/ CloseEnds \/ \E r \in Reloaders : ReloadClears(r)
        PROVE  Serving!CallUnready
    <3>1. loaded' = FALSE /\ UNCHANGED <<file, index, floor, overlapped>>
      BY <2>7, Zenon DEF CloseEnds, ReloadClears, reloads
    <3>2. UNCHANGED Loose
      BY <3>1, <2>u
    <3> QED
      BY <3>1, <3>2, Zenon DEF Serving!CallUnready, Loose
  <2>8. ASSUME NEW r \in Reloaders, ReloadDrops(r) PROVE Serving!Drop
    <3>1. ~loaded \/ Loose
      BY <2>8, <1>t, Zenon DEF ReloadDrops, Apart, HalfReloaded, Loose, Closing
    <3>2. index' = 0 /\ floor' \in floor..file
      BY <2>8, <1>t DEF ReloadDrops, Reads, ServingTypes
    <3>3. UNCHANGED <<file, loaded, overlapped>>
      BY <2>8, Zenon DEF ReloadDrops
    <3>4. UNCHANGED Loose
      BY <3>3, <2>u
    <3> QED
      BY <3>1, <3>2, <3>3, <3>4, Zenon DEF Serving!Drop, Loose
  <2>9. ASSUME UNCHANGED servingVars PROVE UNCHANGED Serving!servedVars
    BY <2>9, Zenon DEF servingVars, Serving!servedVars
  <2> QED
    BY <1>2, <2>1, <2>2, <2>3, <2>4, <2>5, <2>6, <2>7, <2>8, <2>9, Names
       DEF ServingNext, Loads, Reload, Serving!ServedNext
<1> QED
  BY <1>1, <1>2

\* The index is served as ServedIndex promises, through loads, reloads on two threads'
\* frames, a handler on top of either, and shut-down.
THEOREM ServingImplementsServed == ServingSpec => ImplementsServed
<1>1. ServingInit => Serving!ServedInit
  BY Zenon DEF ServingInit, Serving!ServedInit
<1>2. ServingInit => Loading
  BY Names DEF ServingInit, Loading, Idle
<1>3. ServingInv /\ Loading /\ [ServingNext]_servingVars => Loading'
  BY LoadingKept DEF ServingInv
<1> QED
  BY <1>1, <1>2, <1>3, StepImplements, ServingInvariant, PTL
     DEF ServingSpec, ImplementsServed, Serving!ServedSpec
================================================================================
