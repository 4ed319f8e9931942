---------------------------- MODULE FaissStoreProofs ----------------------------
(* Theorems about FaissStore, for every set of identifiers and every number of   *)
(* copies.                                                                       *)
EXTENDS FaissStore, TLAPS

(***************************************************************************)
(* The inductive invariant                                                 *)
(***************************************************************************)
StoreTypes ==
  /\ cpu \in Indexes \union {None} /\ secondary \in Indexes \union {None}
  /\ primaryFile \in Indexes \union {None, Torn}
  /\ secondaryFile \in Indexes \union {None, Torn}
  /\ incremental \subseteq Ids
  /\ idsFile \in (SUBSET Ids) \union {None, Torn}

StoreFlags ==
  exposed \in BOOLEAN /\ orphaned \in BOOLEAN /\ parted \in BOOLEAN /\ hidden \in BOOLEAN

\* _primary_ids is what a fresh reading of the primary would give.
PrimaryIdsExact == primaryIds = IdsOf(cpu)

\* Nothing can be added twice: each vector of the secondary is known by an
\* identifier that update_index looks at.
Single ==
  /\ NoRepetition(cpu) /\ NoRepetition(secondary)
  /\ NoRepetition(primaryFile) /\ NoRepetition(secondaryFile)
Known == IdsOf(secondary) \subseteq incremental \union IdsOf(cpu)
NotExposed == ~exposed => Single /\ Known

NotOrphaned == ~orphaned => incremental \subseteq IdsOf(secondary)

\* Each index in memory holds what its file holds, up to what the primary file has.
PrimaryDescends == cpu # None => IdsOf(primaryFile) \subseteq IdsOf(cpu)
SecondaryDescends ==
  secondary # None => IdsOf(secondaryFile) \subseteq IdsOf(secondary) \union IdsOf(primaryFile)
NotParted == ~parted => PrimaryDescends /\ (~hidden => SecondaryDescends)

StoreInv == StoreTypes /\ PrimaryIdsExact /\ NotExposed /\ NotOrphaned /\ NotParted

(***************************************************************************)
(* Indexes and the identifiers they hold                                   *)
(***************************************************************************)
LEMMA NoIndex ==
  /\ IdsOf(None) = {} /\ IdsOf(Torn) = {}
  /\ NoRepetition(None) /\ NoRepetition(Torn)
  /\ None \notin Indexes /\ Torn \notin Indexes
<1>1. Indexes \subseteq [Ids -> Nat]
  BY StoreAssumption DEF Indexes
<1> QED
  BY <1>1, StoreAssumption DEF IdsOf, NoRepetition

LEMMA HeldBy ==
  ASSUME NEW x \in Indexes
  PROVE  IdsOf(x) = {i \in Ids : x[i] > 0} /\ x # None /\ x # Torn
BY NoIndex DEF IdsOf

LEMMA OnceHolds ==
  ASSUME NEW S \in SUBSET Ids
  PROVE  Once(S) \in Indexes /\ IdsOf(Once(S)) = S /\ NoRepetition(Once(S))
<1>1. Once(S) \in Indexes
  BY StoreAssumption DEF Once, Indexes
<1>2. IdsOf(Once(S)) = S
  BY <1>1, HeldBy DEF Once
<1>3. NoRepetition(Once(S))
  BY DEF Once, NoRepetition
<1> QED
  BY <1>1, <1>2, <1>3

\* One vector more for each identifier of a set.
LEMMA AddHolds ==
  ASSUME NEW x \in Indexes, NEW K \in SUBSET Ids, \A i \in K : x[i] < MaxCopies,
         NEW y, y = [i \in Ids |-> x[i] + (IF i \in K THEN 1 ELSE 0)]
  PROVE  /\ y \in Indexes /\ IdsOf(y) = IdsOf(x) \union K
         /\ NoRepetition(x) /\ K \intersect IdsOf(x) = {} => NoRepetition(y)
<1>1. y \in Indexes
  BY StoreAssumption DEF Indexes
<1>2. IdsOf(y) = {i \in Ids : y[i] > 0} /\ IdsOf(x) = {i \in Ids : x[i] > 0}
  BY <1>1, HeldBy
<1>3. IdsOf(y) = IdsOf(x) \union K
  BY <1>2 DEF Indexes
<1>4. ASSUME NoRepetition(x), K \intersect IdsOf(x) = {}
      PROVE  NoRepetition(y)
  <2>1. SUFFICES ASSUME NEW i \in Ids PROVE y[i] <= 1
    BY DEF NoRepetition
  <2>2. x[i] \in Nat /\ x[i] <= 1
    BY <1>4, HeldBy, StoreAssumption DEF NoRepetition, Indexes
  <2>3. i \in K => x[i] = 0
    BY <1>2, <1>4, <2>2
  <2> QED
    BY <2>2, <2>3
<1> QED
  BY <1>1, <1>3, <1>4

\* The vectors of the identifiers that the first index lacks.
LEMMA MergeHolds ==
  ASSUME NEW x \in Indexes, NEW z \in Indexes,
         NEW y, y = [i \in Ids |-> x[i] + (IF i \in IdsOf(x) THEN 0 ELSE z[i])]
  PROVE  /\ y \in Indexes /\ IdsOf(y) = IdsOf(x) \union IdsOf(z)
         /\ NoRepetition(x) /\ NoRepetition(z) => NoRepetition(y)
<1>1. /\ IdsOf(x) = {i \in Ids : x[i] > 0} /\ IdsOf(z) = {i \in Ids : z[i] > 0}
      /\ x # None /\ x # Torn /\ z # None /\ z # Torn
  BY HeldBy
<1>2. \A i \in Ids : x[i] \in 0..MaxCopies /\ z[i] \in 0..MaxCopies
  BY DEF Indexes
<1>3. \A i \in Ids : y[i] = IF i \in IdsOf(x) THEN x[i] ELSE z[i]
  BY <1>1, <1>2, StoreAssumption
<1>4. y \in Indexes
  BY <1>2, <1>3 DEF Indexes
<1>5. IdsOf(y) = {i \in Ids : y[i] > 0}
  BY <1>4, HeldBy
<1>6. IdsOf(y) = IdsOf(x) \union IdsOf(z)
  BY <1>1, <1>2, <1>3, <1>5
<1>7. NoRepetition(x) /\ NoRepetition(z) => NoRepetition(y)
  BY <1>1, <1>3 DEF NoRepetition
<1> QED
  BY <1>4, <1>6, <1>7

LEMMA StoreInit_Inv == StoreInit => StoreInv /\ StoreFlags
<1> USE NoIndex
<1>1. StoreInit => StoreTypes /\ PrimaryIdsExact /\ NotOrphaned
  BY DEF StoreInit, StoreTypes, PrimaryIdsExact, NotOrphaned
<1>2. StoreInit => NotExposed /\ NotParted
  BY DEF StoreInit, NotExposed, Single, Known, NotParted, PrimaryDescends, SecondaryDescends
<1>3. StoreInit => StoreFlags
  BY DEF StoreInit, StoreFlags
<1> QED
  BY <1>1, <1>2, <1>3 DEF StoreInv

(***************************************************************************)
(* The steps, one lemma per operation or kind of operation                 *)
(***************************************************************************)
LEMMA Flags ==
  ASSUME StoreFlags, [StoreNext]_storeVars
  PROVE  StoreFlags'
<1> USE DEF StoreFlags, disk, memory, storeFlags
<1>1. BuildIndex \/ LoadCPUIndex \/ LoadSecondaryMissing \/ MergeIndexes \/ Restart => StoreFlags'
  BY Zenon DEF BuildIndex, LoadCPUIndex, LoadSecondaryMissing, MergeIndexes, Restart
<1>2. SaveCPUIndex \/ SaveSecondaryIndex \/ LoadSecondaryIndex \/ PersistSecondary => StoreFlags'
  BY Zenon DEF SaveCPUIndex, SaveSecondaryIndex, LoadSecondaryIndex, PersistSecondary
<1>3. \A S : AddVectors(S) \/ UpdateIndex(S) \/ PersistPrimary(S) => StoreFlags'
  BY Zenon DEF AddVectors, UpdateIndex, PersistPrimary
<1>4. UNCHANGED storeVars => StoreFlags'
  BY Zenon DEF storeVars
<1> QED
  BY <1>1, <1>2, <1>3, <1>4 DEF StoreNext

\* The primary is emptied or read from its file, the secondary dropped.
LEMMA ResetKeeps ==
  ASSUME StoreInv, BuildIndex \/ LoadCPUIndex \/ Restart
  PROVE  StoreInv'
<1> USE NoIndex
<1>1. primaryFile \notin {None, Torn} => primaryFile \in Indexes
  BY DEF StoreInv, StoreTypes
<1>2. Once({}) \in Indexes /\ IdsOf(Once({})) = {} /\ NoRepetition(Once({}))
  BY OnceHolds
<1>3. /\ UNCHANGED disk /\ incremental' = {} /\ secondary' = None
      /\ \/ cpu' = Once({}) /\ primaryIds' = {} /\ parted'
         \/ cpu' = primaryFile /\ primaryFile \in Indexes /\ primaryIds' = IdsOf(primaryFile)
         \/ cpu' = None /\ primaryIds' = {}
  BY <1>1 DEF BuildIndex, LoadCPUIndex, Restart
<1>4. UNCHANGED exposed
  BY DEF BuildIndex, LoadCPUIndex, Restart
<1>5. StoreTypes' /\ PrimaryIdsExact' /\ NotOrphaned'
  BY <1>2, <1>3 DEF StoreInv, StoreTypes, PrimaryIdsExact, NotOrphaned, disk
<1>6. NotExposed'
  <2>1. Single => (Single /\ Known)'
    BY <1>2, <1>3 DEF Single, Known, disk
  <2> QED
    BY <2>1, <1>4 DEF StoreInv, NotExposed
<1>7. NotParted'
  <2>1. parted' \/ (PrimaryDescends /\ SecondaryDescends)'
    BY <1>3 DEF PrimaryDescends, SecondaryDescends, disk
  <2> QED
    BY <2>1, Zenon DEF NotParted
<1> QED
  BY <1>5, <1>6, <1>7 DEF StoreInv

LEMMA AddKeeps ==
  ASSUME StoreInv, NEW S \in SUBSET Ids, AddVectors(S)
  PROVE  StoreInv'
<1> USE NoIndex
<1>1. cpu \in Indexes /\ UNCHANGED <<disk, secondary, incremental, exposed, orphaned, parted, hidden>>
  BY DEF StoreInv, StoreTypes, AddVectors, storeFlags
<1>2. \A i \in S : cpu[i] = 0
  BY <1>1, HeldBy, StoreAssumption DEF AddVectors, Indexes
<1>3. \A i \in S : cpu[i] < MaxCopies
  BY <1>2, StoreAssumption
<1>4. cpu' = [i \in Ids |-> cpu[i] + (IF i \in S THEN 1 ELSE 0)]
  BY DEF AddVectors
<1>5. /\ cpu' \in Indexes /\ IdsOf(cpu') = IdsOf(cpu) \union S
      /\ NoRepetition(cpu) => NoRepetition(cpu')
  BY <1>1, <1>3, <1>4, AddHolds DEF AddVectors
<1>6. StoreTypes' /\ PrimaryIdsExact'
  BY <1>1, <1>5 DEF StoreInv, StoreTypes, PrimaryIdsExact, AddVectors, disk
<1>7. NotExposed'
  <2>1. Single /\ Known => (Single /\ Known)'
    BY <1>1, <1>5 DEF Single, Known, disk
  <2> QED
    BY <2>1, <1>1 DEF StoreInv, NotExposed
<1>8. NotOrphaned'
  BY <1>1, Zenon DEF StoreInv, NotOrphaned
<1>9. NotParted'
  <2>1. cpu # None /\ PrimaryDescends => PrimaryDescends'
    BY <1>1, <1>5 DEF PrimaryDescends, disk
  <2>2. SecondaryDescends => SecondaryDescends'
    BY <1>1 DEF SecondaryDescends, disk
  <2> QED
    BY <2>1, <2>2, <1>1 DEF StoreInv, NotParted
<1> QED
  BY <1>6, <1>7, <1>8, <1>9 DEF StoreInv

LEMMA UpdateKeeps ==
  ASSUME StoreInv, NEW S \in SUBSET Ids, UpdateIndex(S)
  PROVE  StoreInv'
<1> USE NoIndex
<1> DEFINE base == EnsuredSecondary
<1>1. EnsuredIds = IdsOf(cpu) /\ primaryIds' = IdsOf(cpu) /\ UNCHANGED <<cpu, primaryFile, secondaryFile>>
  BY DEF StoreInv, PrimaryIdsExact, EnsuredIds, UpdateIndex
<1>2. base \in Indexes /\ (secondary = None => base = Once({})) /\ (secondary # None => base = secondary)
  BY OnceHolds DEF StoreInv, StoreTypes, EnsuredSecondary
<1>3. PICK kept \in {S \ (incremental \union EnsuredIds), {}} :
         /\ secondary' = [i \in Ids |-> base[i] + (IF i \in kept THEN 1 ELSE 0)]
         /\ \A i \in kept : base[i] < MaxCopies
         /\ incremental' = incremental \union kept
         /\ idsFile' \in {idsFile, incremental', Torn}
  BY DEF UpdateIndex
<1>4. /\ secondary' \in Indexes /\ IdsOf(secondary') = IdsOf(base) \union kept
      /\ NoRepetition(base) /\ kept \intersect IdsOf(base) = {} => NoRepetition(secondary')
  <2>1. kept \in SUBSET Ids
    OBVIOUS
  <2> HIDE DEF base
  <2> QED
    BY <1>2, <1>3, <2>1, AddHolds
<1>5. /\ IdsOf(base) = IdsOf(secondary)
      /\ NoRepetition(secondary) => NoRepetition(base)
  BY <1>2, OnceHolds
<1> HIDE DEF base
<1>6. StoreTypes' /\ PrimaryIdsExact'
  BY <1>1, <1>3, <1>4 DEF StoreInv, StoreTypes, PrimaryIdsExact
<1>7. NotExposed'
  <2>1. Single /\ Known => (Single /\ Known)'
    BY <1>1, <1>3, <1>4, <1>5 DEF Single, Known
  <2>2. UNCHANGED exposed
    BY DEF UpdateIndex
  <2> QED
    BY <2>1, <2>2 DEF StoreInv, NotExposed
<1>8. NotOrphaned'
  <2>1. incremental \subseteq IdsOf(secondary) => (incremental \subseteq IdsOf(secondary))'
    BY <1>3, <1>4, <1>5
  <2>2. UNCHANGED orphaned
    BY DEF UpdateIndex
  <2> QED
    BY <2>1, <2>2 DEF StoreInv, NotOrphaned
<1>9. NotParted'
  <2>1. PrimaryDescends => PrimaryDescends'
    BY <1>1 DEF PrimaryDescends
  <2>2. UNCHANGED parted
    BY DEF UpdateIndex
  <2>3. ~hidden' => ~hidden /\ (secondary = None => IdsOf(secondaryFile) \subseteq IdsOf(primaryFile))
    BY Zenon DEF UpdateIndex
  <2>4. SecondaryDescends /\ (secondary = None => IdsOf(secondaryFile) \subseteq IdsOf(primaryFile))
          => SecondaryDescends'
    BY <1>1, <1>4, <1>5 DEF SecondaryDescends
  <2> QED
    BY <2>1, <2>2, <2>3, <2>4 DEF StoreInv, NotParted
<1> QED
  BY <1>6, <1>7, <1>8, <1>9 DEF StoreInv

LEMMA SavePrimaryKeeps ==
  ASSUME StoreInv, SaveCPUIndex
  PROVE  StoreInv'
<1> USE NoIndex
<1>1. /\ cpu \in Indexes /\ primaryFile' \in {cpu, Torn}
      /\ UNCHANGED <<memory, secondaryFile, idsFile, exposed, orphaned, hidden>>
  BY DEF StoreInv, StoreTypes, SaveCPUIndex
<1>2. ~parted' => ~parted /\ primaryFile' = cpu
  BY Zenon DEF SaveCPUIndex
<1>3. StoreTypes' /\ PrimaryIdsExact'
  BY <1>1 DEF StoreInv, StoreTypes, PrimaryIdsExact, memory
<1>4. NotExposed'
  <2>1. Single /\ Known => (Single /\ Known)'
    BY <1>1 DEF Single, Known, memory
  <2> QED
    BY <2>1, <1>1 DEF StoreInv, NotExposed
<1>5. NotOrphaned'
  BY <1>1, Zenon DEF StoreInv, NotOrphaned, memory
<1>6. NotParted'
  <2>1. primaryFile' = cpu /\ PrimaryDescends /\ SecondaryDescends => (PrimaryDescends /\ SecondaryDescends)'
    BY <1>1 DEF PrimaryDescends, SecondaryDescends, memory
  <2>2. primaryFile' = cpu => PrimaryDescends'
    BY <1>1 DEF PrimaryDescends, memory
  <2> QED
    BY <2>1, <2>2, <1>1, <1>2 DEF StoreInv, NotParted
<1> QED
  BY <1>3, <1>4, <1>5, <1>6 DEF StoreInv

LEMMA SaveSecondaryKeeps ==
  ASSUME StoreInv, SaveSecondaryIndex
  PROVE  StoreInv'
<1> USE NoIndex
<1>1. /\ secondary \in Indexes /\ secondaryFile' \in {secondary, Torn}
      /\ idsFile' \in {idsFile, incremental, None, Torn}
      /\ UNCHANGED <<memory, primaryFile, exposed, orphaned, parted, hidden>>
  BY DEF StoreInv, StoreTypes, SaveSecondaryIndex, Persisted, storeFlags
<1>2. StoreTypes' /\ PrimaryIdsExact'
  BY <1>1 DEF StoreInv, StoreTypes, PrimaryIdsExact, memory
<1>3. NotExposed'
  <2>1. Single /\ Known => (Single /\ Known)'
    BY <1>1 DEF Single, Known, memory
  <2> QED
    BY <2>1, <1>1 DEF StoreInv, NotExposed
<1>4. NotOrphaned'
  BY <1>1, Zenon DEF StoreInv, NotOrphaned, memory
<1>5. NotParted'
  <2>1. (PrimaryDescends => PrimaryDescends') /\ SecondaryDescends'
    BY <1>1 DEF PrimaryDescends, SecondaryDescends, memory
  <2> QED
    BY <2>1, <1>1 DEF StoreInv, NotParted
<1> QED
  BY <1>2, <1>3, <1>4, <1>5 DEF StoreInv

LEMMA LoadSecondaryKeeps ==
  ASSUME StoreInv, LoadSecondaryIndex
  PROVE  StoreInv'
<1> USE NoIndex
<1>1. /\ secondaryFile \in Indexes /\ secondary' = secondaryFile /\ incremental' = Remembered
      /\ UNCHANGED <<disk, cpu, primaryIds, parted>>
  BY DEF StoreInv, StoreTypes, LoadSecondaryIndex
<1>2. Remembered \in SUBSET Ids
  BY DEF StoreInv, StoreTypes, Remembered
<1>3. StoreTypes' /\ PrimaryIdsExact'
  BY <1>1, <1>2 DEF StoreInv, StoreTypes, PrimaryIdsExact, disk
<1>4. NotExposed'
  <2>1. ~exposed' => ~exposed /\ IdsOf(secondaryFile) \subseteq Remembered \union primaryIds
    BY Zenon DEF LoadSecondaryIndex
  <2>2. Single /\ IdsOf(secondaryFile) \subseteq Remembered \union primaryIds => (Single /\ Known)'
    BY <1>1 DEF StoreInv, PrimaryIdsExact, Single, Known, disk
  <2> QED
    BY <2>1, <2>2 DEF StoreInv, NotExposed
<1>5. NotOrphaned'
  BY Zenon DEF LoadSecondaryIndex, NotOrphaned
<1>6. NotParted'
  <2>1. (PrimaryDescends => PrimaryDescends') /\ SecondaryDescends'
    BY <1>1 DEF PrimaryDescends, SecondaryDescends, disk
  <2> QED
    BY <2>1, <1>1 DEF StoreInv, NotParted
<1> QED
  BY <1>3, <1>4, <1>5, <1>6 DEF StoreInv

LEMMA LoadMissingKeeps ==
  ASSUME StoreInv, LoadSecondaryMissing
  PROVE  StoreInv'
<1> USE NoIndex
<1>1. /\ secondary' = None /\ incremental' = {} /\ idsFile' \in {None, idsFile}
      /\ UNCHANGED <<cpu, primaryIds, primaryFile, secondaryFile, exposed, parted>>
  BY DEF LoadSecondaryMissing
<1>2. StoreTypes' /\ PrimaryIdsExact' /\ NotOrphaned'
  BY <1>1 DEF StoreInv, StoreTypes, PrimaryIdsExact, NotOrphaned
<1>3. NotExposed'
  <2>1. Single => (Single /\ Known)'
    BY <1>1 DEF Single, Known
  <2> QED
    BY <2>1, <1>1 DEF StoreInv, NotExposed
<1>4. NotParted'
  <2>1. (PrimaryDescends => PrimaryDescends') /\ SecondaryDescends'
    BY <1>1 DEF PrimaryDescends, SecondaryDescends
  <2> QED
    BY <2>1, <1>1 DEF StoreInv, NotParted
<1> QED
  BY <1>2, <1>3, <1>4 DEF StoreInv

LEMMA MergeKeeps ==
  ASSUME StoreInv, MergeIndexes
  PROVE  StoreInv'
<1> USE NoIndex
<1>1. /\ cpu \in Indexes /\ secondary \in Indexes /\ EnsuredIds = IdsOf(cpu)
      /\ secondary' = None /\ incremental' = {} /\ idsFile' \in {None, idsFile}
      /\ UNCHANGED <<primaryFile, secondaryFile, exposed, parted>>
  BY DEF StoreInv, StoreTypes, PrimaryIdsExact, EnsuredIds, MergeIndexes
<1>2. cpu' = [i \in Ids |-> cpu[i] + (IF i \in IdsOf(cpu) THEN 0 ELSE secondary[i])]
  BY <1>1 DEF MergeIndexes
<1>3. /\ cpu' \in Indexes /\ IdsOf(cpu') = IdsOf(cpu) \union IdsOf(secondary)
      /\ NoRepetition(cpu) /\ NoRepetition(secondary) => NoRepetition(cpu')
  BY <1>1, <1>2, MergeHolds
<1>4. primaryIds' = IdsOf(cpu) \union IdsOf(secondary)
  BY <1>1 DEF MergeIndexes
<1>5. StoreTypes' /\ PrimaryIdsExact' /\ NotOrphaned'
  BY <1>1, <1>3, <1>4 DEF StoreInv, StoreTypes, PrimaryIdsExact, NotOrphaned
<1>6. NotExposed'
  <2>1. Single => (Single /\ Known)'
    BY <1>1, <1>3 DEF Single, Known
  <2> QED
    BY <2>1, <1>1 DEF StoreInv, NotExposed
<1>7. NotParted'
  <2>1. cpu # None /\ PrimaryDescends => PrimaryDescends'
    BY <1>1, <1>3 DEF PrimaryDescends
  <2>2. SecondaryDescends'
    BY <1>1 DEF SecondaryDescends
  <2> QED
    BY <2>1, <2>2, <1>1 DEF StoreInv, NotParted
<1> QED
  BY <1>5, <1>6, <1>7 DEF StoreInv

LEMMA PersistKeeps ==
  ASSUME StoreInv, NEW S \in SUBSET Ids, PersistPrimary(S) \/ PersistSecondary
  PROVE  StoreInv'
<1> USE NoIndex
<1>1. /\ UNCHANGED <<memory, idsFile, exposed, orphaned>>
      /\ primaryFile' \in {primaryFile, Once(S), Torn}
      /\ secondaryFile' \in {secondaryFile, Once({}), Torn}
  BY DEF PersistPrimary, PersistSecondary
<1>2. \A R \in SUBSET Ids : Once(R) \in Indexes /\ NoRepetition(Once(R))
  BY OnceHolds
<1>3. StoreTypes' /\ PrimaryIdsExact'
  BY <1>1, <1>2 DEF StoreInv, StoreTypes, PrimaryIdsExact, memory
<1>4. NotExposed'
  <2>1. Single /\ Known => (Single /\ Known)'
    BY <1>1, <1>2 DEF Single, Known, memory
  <2> QED
    BY <2>1, <1>1 DEF StoreInv, NotExposed
<1>5. NotOrphaned'
  BY <1>1, Zenon DEF StoreInv, NotOrphaned, memory
<1>6. NotParted'
  BY Zenon DEF PersistPrimary, PersistSecondary, NotParted
<1> QED
  BY <1>3, <1>4, <1>5, <1>6 DEF StoreInv

LEMMA StutterKeeps ==
  ASSUME StoreInv, UNCHANGED storeVars
  PROVE  StoreInv'
<1> USE DEF storeVars
<1>1. StoreTypes' /\ PrimaryIdsExact'
  BY DEF StoreInv, StoreTypes, PrimaryIdsExact
<1>2. NotExposed' /\ NotOrphaned' /\ NotParted'
  BY Zenon DEF StoreInv, NotExposed, NotOrphaned, NotParted, Single, Known,
    PrimaryDescends, SecondaryDescends
<1> QED
  BY <1>1, <1>2 DEF StoreInv

LEMMA StoreStep ==
  ASSUME StoreInv, [StoreNext]_storeVars
  PROVE  StoreInv'
<1>1. CASE BuildIndex \/ LoadCPUIndex \/ Restart
  BY <1>1, ResetKeeps
<1>2. CASE SaveCPUIndex
  BY <1>2, SavePrimaryKeeps
<1>3. CASE SaveSecondaryIndex
  BY <1>3, SaveSecondaryKeeps
<1>4. CASE LoadSecondaryIndex
  BY <1>4, LoadSecondaryKeeps
<1>5. CASE LoadSecondaryMissing
  BY <1>5, LoadMissingKeeps
<1>6. CASE MergeIndexes
  BY <1>6, MergeKeeps
<1>7. ASSUME NEW S \in (SUBSET Ids) \ {{}}, AddVectors(S) \/ UpdateIndex(S) \/ PersistPrimary(S)
      PROVE  StoreInv'
  BY <1>7, AddKeeps, UpdateKeeps, PersistKeeps
<1>8. CASE PersistSecondary
  BY <1>8, PersistKeeps
<1>9. CASE UNCHANGED storeVars
  BY <1>9, StutterKeeps
<1> QED
  BY <1>1, <1>2, <1>3, <1>4, <1>5, <1>6, <1>7, <1>8, <1>9 DEF StoreNext

LEMMA StoreInvariant == StoreSpec => [](StoreInv /\ StoreFlags)
<1>1. StoreInv /\ StoreFlags /\ [StoreNext]_storeVars => (StoreInv /\ StoreFlags)'
  BY StoreStep, Flags
<1> QED
  BY <1>1, StoreInit_Inv, PTL DEF StoreSpec

(***************************************************************************)
(* The theorems                                                            *)
(***************************************************************************)
\* Every variable of FaissStore keeps its kind of value.
THEOREM StoreTyped == StoreSpec => []StoreTypeOK
<1>1. StoreInv => incremental \subseteq Ids /\ primaryIds \subseteq Ids
  BY DEF StoreInv, StoreTypes, PrimaryIdsExact, IdsOf
<1>2. StoreInv /\ StoreFlags => StoreTypeOK
  BY <1>1 DEF StoreInv, StoreTypes, StoreFlags, StoreTypeOK
<1> QED
  BY <1>2, StoreInvariant, PTL

\* update_index and merge_indexes add a chunk once, however loads, saves, crashes
\* and rebuilds come between, unless a secondary was loaded that the identifiers
\* do not cover.
THEOREM AddedOnce == StoreSpec => []HeldOnce
<1>1. StoreInv => HeldOnce
  BY DEF StoreInv, NotExposed, Single, HeldOnce
<1> QED
  BY <1>1, StoreInvariant, PTL

\* What update_index skips as known can be found, unless the identifiers were
\* read from a file that runs ahead of the secondary index.
THEOREM KnownIsHeld == StoreSpec => []SkippedIsHeld
<1>1. StoreInv => SkippedIsHeld
  BY DEF StoreInv, NotOrphaned, PrimaryIdsExact, SkippedIsHeld
<1> QED
  BY <1>1, StoreInvariant, PTL

\* No save or merge takes a saved chunk off the disk, but for the named causes.
THEOREM SavesKeep == StoreSpec => SavedStaysSaved
<1> DEFINE Kept == OnDisk \subseteq OnDisk' \/ parted' \/ hidden \/ Tears
<1>1. ASSUME StoreInv, [StoreNext]_storeVars
      PROVE  Kept
  <2> USE NoIndex DEF OnDisk
  <2>1. CASE SaveCPUIndex
    <3>1. ~parted' => ~parted /\ primaryFile' = cpu
      BY <2>1, Zenon DEF SaveCPUIndex
    <3>2. cpu # None /\ UNCHANGED secondaryFile
      BY <2>1 DEF SaveCPUIndex
    <3>3. ~parted => IdsOf(primaryFile) \subseteq IdsOf(cpu)
      BY <1>1, <3>2 DEF StoreInv, NotParted, PrimaryDescends
    <3> QED
      BY <3>1, <3>2, <3>3
  <2>2. CASE SaveSecondaryIndex
    <3>1. secondary # None /\ secondaryFile' \in {secondary, Torn} /\ UNCHANGED <<primaryFile, parted>>
      BY <2>2 DEF SaveSecondaryIndex, storeFlags
    <3>2. ~parted /\ ~hidden => IdsOf(secondaryFile) \subseteq IdsOf(secondary) \union IdsOf(primaryFile)
      BY <1>1, <3>1 DEF StoreInv, NotParted, SecondaryDescends
    <3> QED
      BY <3>1, <3>2 DEF Tears
  <2>3. ASSUME NEW S, PersistPrimary(S) \/ PersistSecondary
        PROVE  parted'
    BY <2>3, Zenon DEF PersistPrimary, PersistSecondary
  <2>4. ASSUME NEW S, AddVectors(S) \/ UpdateIndex(S)
        PROVE  OnDisk' = OnDisk
    BY <2>4 DEF AddVectors, UpdateIndex, disk
  <2>5. BuildIndex \/ LoadCPUIndex \/ LoadSecondaryIndex \/ LoadSecondaryMissing
          \/ MergeIndexes \/ Restart \/ UNCHANGED storeVars => OnDisk' = OnDisk
    BY DEF BuildIndex, LoadCPUIndex, LoadSecondaryIndex, LoadSecondaryMissing,
      MergeIndexes, Restart, disk, storeVars
  <2> QED
    BY <1>1, <2>1, <2>2, <2>3, <2>4, <2>5 DEF StoreNext
<1> QED
  BY <1>1, StoreInvariant, PTL DEF SavedStaysSaved, StoreSpec

(***************************************************************************)
(* The manager implements ChunkSets                                        *)
(***************************************************************************)
LEMMA ResetImplements ==
  ASSUME StoreInv, BuildIndex \/ LoadCPUIndex \/ Restart
  PROVE  Sets!Clear \/ Sets!LoadMain
<1>1. orphaned' = FALSE /\ UNCHANGED disk /\ secondary' = None
  BY Zenon DEF BuildIndex, LoadCPUIndex, Restart
<1>2. cpu' \in {Once({}), None, primaryFile}
  BY DEF BuildIndex, LoadCPUIndex, Restart
<1>3. UNCHANGED <<IdsOf(primaryFile), IdsOf(secondaryFile)>> /\ IdsOf(secondary') = {}
  BY <1>1, NoIndex DEF disk
<1>4. IdsOf(cpu') \in {{}, IdsOf(primaryFile)}
  BY <1>2, NoIndex, OnceHolds
<1>5. CASE IdsOf(cpu') = {}
  BY <1>1, <1>3, <1>5, Zenon DEF Sets!Clear, IdsOf
<1>6. CASE IdsOf(cpu') = IdsOf(primaryFile)
  BY <1>1, <1>3, <1>6, Zenon DEF Sets!LoadMain, IdsOf
<1> QED
  BY <1>4, <1>5, <1>6

LEMMA AddImplements ==
  ASSUME StoreInv, NEW S \in SUBSET Ids, AddVectors(S)
  PROVE  Sets!Add(S)
<1>1. cpu \in Indexes /\ UNCHANGED <<primaryFile, secondaryFile, secondary>>
  BY NoIndex DEF StoreInv, StoreTypes, AddVectors, disk
<1>2. UNCHANGED orphaned
  BY Zenon DEF AddVectors, storeFlags
<1>3. \A i \in S : cpu[i] < MaxCopies
  <2>1. \A i \in S : cpu[i] = 0
    BY <1>1, HeldBy, StoreAssumption DEF AddVectors, Indexes
  <2> QED
    BY <2>1, StoreAssumption
<1>4. cpu' = [i \in Ids |-> cpu[i] + (IF i \in S THEN 1 ELSE 0)]
  BY DEF AddVectors
<1>5. IdsOf(cpu') = IdsOf(cpu) \union S
  BY <1>1, <1>3, <1>4, AddHolds
<1>6. S \intersect IdsOf(cpu) = {}
  BY DEF AddVectors
<1> QED
  BY <1>1, <1>2, <1>5, <1>6, Zenon DEF Sets!Add, IdsOf

\* Comparing with the remembered identifiers is as good as looking into the indexes.
LEMMA UpdateImplements ==
  ASSUME StoreInv, NEW S \in SUBSET Ids, UpdateIndex(S)
  PROVE  Sets!Update(S) \/ UNCHANGED Sets!chunkVars
<1> DEFINE new == S \ (incremental \union EnsuredIds)
           base == EnsuredSecondary
<1>1. EnsuredIds = IdsOf(cpu) /\ UNCHANGED <<cpu, primaryFile, secondaryFile>>
  BY DEF StoreInv, PrimaryIdsExact, EnsuredIds, UpdateIndex
<1>2. base \in Indexes /\ IdsOf(base) = IdsOf(secondary)
  BY OnceHolds, NoIndex DEF StoreInv, StoreTypes, EnsuredSecondary
<1>3. PICK kept \in {new, {}} :
         /\ secondary' = [i \in Ids |-> base[i] + (IF i \in kept THEN 1 ELSE 0)]
         /\ \A i \in kept : base[i] < MaxCopies
  BY DEF UpdateIndex
<1>4. IdsOf(secondary') = IdsOf(secondary) \union kept
  <2>1. kept \in SUBSET Ids
    OBVIOUS
  <2> HIDE DEF new, base
  <2> QED
    BY <1>2, <1>3, <2>1, AddHolds
<1>5. UNCHANGED orphaned
  BY Zenon DEF UpdateIndex
<1> HIDE DEF base
<1>6. CASE kept = new
  <2>1. ~orphaned => incremental \subseteq IdsOf(secondary)
    BY Zenon DEF StoreInv, NotOrphaned
  <2>2. /\ IdsOf(secondary') \subseteq IdsOf(secondary) \union (S \ IdsOf(cpu))
        /\ IdsOf(secondary) \subseteq IdsOf(secondary')
    BY <1>1, <1>4, <1>6
  <2>3. incremental \subseteq IdsOf(secondary)
          => IdsOf(secondary') = IdsOf(secondary) \union (S \ IdsOf(cpu))
    BY <1>1, <1>4, <1>6
  <2>4. ~orphaned => IdsOf(secondary') = IdsOf(secondary) \union (S \ IdsOf(cpu))
    BY <2>1, <2>3, Zenon
  <2> QED
    BY <1>1, <1>5, <2>2, <2>4, Zenon DEF Sets!Update, IdsOf
\* FAISS raised: the secondary that may have been created holds nothing.
<1>7. CASE kept = {}
  <2>1. IdsOf(secondary') = IdsOf(secondary)
    BY <1>4, <1>7
  <2> QED
    BY <1>1, <1>5, <2>1, Zenon DEF Sets!chunkVars, IdsOf
<1> QED
  BY <1>3, <1>6, <1>7

LEMMA MergeImplements ==
  ASSUME StoreInv, MergeIndexes
  PROVE  Sets!Merge
<1>1. /\ cpu \in Indexes /\ secondary \in Indexes /\ EnsuredIds = IdsOf(cpu)
      /\ secondary' = None /\ UNCHANGED <<primaryFile, secondaryFile>>
  BY DEF StoreInv, StoreTypes, PrimaryIdsExact, EnsuredIds, MergeIndexes
<1>2. cpu' = [i \in Ids |-> cpu[i] + (IF i \in IdsOf(cpu) THEN 0 ELSE secondary[i])]
  BY <1>1 DEF MergeIndexes
<1>3. IdsOf(cpu') = IdsOf(cpu) \union IdsOf(secondary) /\ IdsOf(secondary') = {}
  BY <1>1, <1>2, MergeHolds, NoIndex
<1>4. orphaned' = FALSE
  BY Zenon DEF MergeIndexes
<1> QED
  BY <1>1, <1>3, <1>4, Zenon DEF Sets!Merge, IdsOf

LEMMA SaveImplements ==
  ASSUME SaveCPUIndex \/ SaveSecondaryIndex
  PROVE  Sets!SaveMain \/ Sets!SaveRest
<1>1. UNCHANGED orphaned
  BY Zenon DEF SaveCPUIndex, SaveSecondaryIndex, storeFlags
<1>2. CASE SaveCPUIndex
  <2>1. primaryFile' \in {cpu, Torn} /\ UNCHANGED <<cpu, secondary, secondaryFile>>
    BY <1>2 DEF SaveCPUIndex, memory
  <2>2. IdsOf(primaryFile') \in {IdsOf(cpu), {}}
    BY <2>1, NoIndex
  <2> QED
    BY <1>1, <2>1, <2>2, Zenon DEF Sets!SaveMain, IdsOf
<1>3. CASE SaveSecondaryIndex
  <2>1. secondaryFile' \in {secondary, Torn} /\ UNCHANGED <<cpu, secondary, primaryFile>>
    BY <1>3 DEF SaveSecondaryIndex, memory
  <2>2. IdsOf(secondaryFile') \in {IdsOf(secondary), {}}
    BY <2>1, NoIndex
  <2> QED
    BY <1>1, <2>1, <2>2, Zenon DEF Sets!SaveRest, IdsOf
<1> QED
  BY <1>2, <1>3

LEMMA LoadImplements ==
  ASSUME LoadSecondaryIndex \/ LoadSecondaryMissing
  PROVE  Sets!LoadRest
<1>1. secondary' \in {secondaryFile, None} /\ UNCHANGED <<cpu, primaryFile, secondaryFile>>
  BY DEF LoadSecondaryIndex, LoadSecondaryMissing, disk
<1>2. secondary' = secondaryFile
  BY DEF LoadSecondaryIndex, LoadSecondaryMissing
<1> QED
  BY <1>1, <1>2, Zenon DEF Sets!LoadRest, IdsOf

LEMMA PersistImplements ==
  ASSUME StoreInv, NEW S \in SUBSET Ids, PersistPrimary(S) \/ PersistSecondary
  PROVE  Sets!Rewrite
<1>1. /\ UNCHANGED <<cpu, secondary>>
      /\ primaryFile' \in {primaryFile, Once(S), Torn}
      /\ secondaryFile' \in {secondaryFile, Once({}), Torn}
  BY DEF PersistPrimary, PersistSecondary, memory
<1>2. UNCHANGED orphaned
  BY Zenon DEF PersistPrimary, PersistSecondary
<1>3. IdsOf(primaryFile') \subseteq Ids
  BY DEF IdsOf
<1>4. IdsOf(secondaryFile') \in {IdsOf(secondaryFile), {}}
  BY <1>1, NoIndex, OnceHolds
<1> QED
  BY <1>1, <1>2, <1>3, <1>4, Zenon DEF Sets!Rewrite, IdsOf

LEMMA StoreStepImplements ==
  StoreInv /\ [StoreNext]_storeVars => [Sets!ChunksNext]_Sets!chunkVars
<1> SUFFICES ASSUME StoreInv, [StoreNext]_storeVars
             PROVE  [Sets!ChunksNext]_Sets!chunkVars
  OBVIOUS
<1>1. CASE BuildIndex \/ LoadCPUIndex \/ Restart
  BY <1>1, ResetImplements, Zenon DEF Sets!ChunksNext
<1>2. CASE SaveCPUIndex \/ SaveSecondaryIndex
  BY <1>2, SaveImplements, Zenon DEF Sets!ChunksNext
<1>3. CASE LoadSecondaryIndex \/ LoadSecondaryMissing
  BY <1>3, LoadImplements, Zenon DEF Sets!ChunksNext
<1>4. CASE MergeIndexes
  BY <1>4, MergeImplements, Zenon DEF Sets!ChunksNext
<1>5. ASSUME NEW S \in (SUBSET Ids) \ {{}}, AddVectors(S) \/ UpdateIndex(S) \/ PersistPrimary(S)
      PROVE  [Sets!ChunksNext]_Sets!chunkVars
  <2>1. S \in SUBSET Ids
    OBVIOUS
  <2> QED
    BY <1>5, <2>1, AddImplements, UpdateImplements, PersistImplements, Zenon
       DEF Sets!ChunksNext
<1>6. CASE PersistSecondary
  <2>1. {} \in SUBSET Ids
    OBVIOUS
  <2> QED
    BY <1>6, <2>1, PersistImplements, Zenon DEF Sets!ChunksNext
<1>7. CASE UNCHANGED storeVars
  BY <1>7, Zenon DEF storeVars, Sets!chunkVars, IdsOf
<1> QED
  BY <1>1, <1>2, <1>3, <1>4, <1>5, <1>6, <1>7 DEF StoreNext

\* Through loads, saves, torn writes, merges, restarts and rebuilds by another process,
\* the manager with its remembered identifiers does what one would do that looks into
\* the indexes: an update adds exactly the chunks neither has, unless identifiers read
\* from disk ran ahead of the vectors, and a merge loses none.
THEOREM StoreImplementsChunks == StoreSpec => ImplementsChunks
<1>1. StoreInit => Sets!ChunksInit
  <2> SUFFICES ASSUME StoreInit PROVE Sets!ChunksInit
    OBVIOUS
  <2>1. /\ IdsOf(cpu) = {} /\ IdsOf(secondary) = {}
        /\ IdsOf(primaryFile) = {} /\ IdsOf(secondaryFile) = {}
    BY NoIndex DEF StoreInit
  <2>2. orphaned = FALSE
    BY DEF StoreInit
  <2> QED
    BY <2>1, <2>2, Zenon DEF Sets!ChunksInit
<1> QED
  BY <1>1, StoreStepImplements, StoreInvariant, PTL
     DEF StoreSpec, ImplementsChunks, Sets!ChunksSpec
================================================================================
