------------------------------- MODULE FaissStore -------------------------------
(***************************************************************************)
(* The two FAISS indexes of a manager, the identifiers it remembers, and   *)
(* the three files they are kept in (FAISSManager in                       *)
(* src/codeintel_rev/io/faiss_manager.py, faiss_store.py, and the build    *)
(* pipeline of services/index, which writes the same files from another    *)
(* process).                                                               *)
(*                                                                         *)
(* An index is the number of vectors it holds for each identifier: FAISS   *)
(* adds what it is given, an identifier it holds already included. A batch *)
(* is the set of its identifiers. A call that raises before it changes     *)
(* anything is a stuttering step; a write that raises half-way leaves a    *)
(* torn file. A crash is a restart that keeps the files only.              *)
(***************************************************************************)
EXTENDS Naturals, FiniteSets

CONSTANTS
  Ids,        \* chunk identifiers
  None,       \* no index, no file
  Torn,       \* a file whose write was cut short
  MaxCopies   \* bound on the vectors an index holds for one identifier

ASSUME StoreAssumption ==
  /\ None \notin [Ids -> Nat] /\ Torn \notin [Ids -> Nat]
  /\ \A S \in SUBSET Ids : S # None /\ S # Torn
  /\ None # Torn
  /\ MaxCopies \in Nat \ {0}

VARIABLES
  cpu, secondary,               \* the indexes in memory
  incremental, primaryIds,      \* incremental_ids and _primary_ids
  primaryFile, secondaryFile,   \* the indexes on disk
  idsFile,                      \* incremental_ids on disk
  exposed,    \* history: a secondary index was loaded of which some
              \* identifier was neither remembered nor in the primary
  orphaned,   \* some identifier read from the file was not in the secondary
  parted,     \* the primary in memory and the one on disk went their own ways:
              \* one was built anew, or a save was cut short
  hidden      \* the secondary was created although the one on disk holds
              \* identifiers that the primary on disk does not

memory == <<cpu, secondary, incremental, primaryIds>>
disk == <<primaryFile, secondaryFile, idsFile>>
storeFlags == <<exposed, orphaned, parted, hidden>>
storeVars == <<cpu, secondary, incremental, primaryIds,
               primaryFile, secondaryFile, idsFile, exposed, orphaned, parted, hidden>>

Indexes == [Ids -> 0..MaxCopies]
Once(S) == [i \in Ids |-> IF i \in S THEN 1 ELSE 0]
IdsOf(x) == IF x \in {None, Torn} THEN {} ELSE {i \in Ids : x[i] > 0}

\* _persist_incremental_ids removes the file of an empty set.
Persisted(S) == IF S = {} THEN None ELSE S

\* _load_incremental_ids takes a missing or unreadable file for an empty set.
Remembered == IF idsFile \in {None, Torn} THEN {} ELSE idsFile

\* _ensure_primary_ids.
EnsuredIds == IF primaryIds = {} THEN IdsOf(cpu) ELSE primaryIds

\* _ensure_secondary.
EnsuredSecondary == IF secondary = None THEN Once({}) ELSE secondary

StoreInit ==
  /\ cpu = None /\ secondary = None /\ incremental = {} /\ primaryIds = {}
  /\ primaryFile = None /\ secondaryFile = None /\ idsFile = None
  /\ exposed = FALSE /\ orphaned = FALSE /\ parted = FALSE /\ hidden = FALSE

(***************************************************************************)
(* Faulty variants of the definitions below, one per property: no part of  *)
(* the specification, they show that each property can fail.               *)
(***************************************************************************)
\* A batch is compared with the primary index only.
UpdateIndexAgain(S) == \E kept \in {S \ EnsuredIds, {}} :
  /\ cpu # None
  /\ \A i \in kept : EnsuredSecondary[i] < MaxCopies
  /\ primaryIds' = EnsuredIds
  /\ secondary' = [i \in Ids |-> EnsuredSecondary[i] + (IF i \in kept THEN 1 ELSE 0)]
  /\ incremental' = incremental \union kept
  /\ IF kept = {} THEN UNCHANGED idsFile ELSE idsFile' \in {idsFile, incremental', Torn}
  /\ hidden' = (hidden \/ (secondary = None /\ ~ IdsOf(secondaryFile) \subseteq IdsOf(primaryFile)))
  /\ UNCHANGED <<cpu, primaryFile, secondaryFile, exposed, orphaned, parted>>

\* The secondary index is dropped and its identifiers are remembered.
LoadCPUIndexRemembering ==
  /\ primaryFile \notin {None, Torn}
  /\ cpu' = primaryFile /\ primaryIds' = IdsOf(primaryFile)
  /\ secondary' = None
  /\ orphaned' = FALSE /\ parted' = FALSE /\ hidden' = FALSE
  /\ UNCHANGED <<disk, incremental, exposed>>

\* A merge removes the file of the secondary index before the primary is saved.
MergeIndexesUnlinking ==
  /\ cpu # None /\ secondary # None
  /\ cpu' = [i \in Ids |-> cpu[i] + (IF i \in EnsuredIds THEN 0 ELSE secondary[i])]
  /\ primaryIds' = EnsuredIds \union IdsOf(secondary)
  /\ secondary' = None /\ incremental' = {} /\ idsFile' \in {None, idsFile}
  /\ secondaryFile' = None
  /\ orphaned' = FALSE /\ hidden' = FALSE
  /\ UNCHANGED <<primaryFile, exposed, parted>>

\* Only the vectors that update_index remembers are merged.
MergeIndexesRemembered ==
  /\ cpu # None /\ secondary # None
  /\ cpu' = [i \in Ids |-> cpu[i] + (IF i \in EnsuredIds \/ i \notin incremental THEN 0
                                                                     ELSE secondary[i])]
  /\ primaryIds' = EnsuredIds \union (incremental \intersect IdsOf(secondary))
  /\ secondary' = None /\ incremental' = {} /\ idsFile' \in {None, idsFile}
  /\ orphaned' = FALSE /\ hidden' = FALSE
  /\ UNCHANGED <<primaryFile, secondaryFile, exposed, parted>>

-----------------------------------------------------------------------------
(* Operations of the manager. *)

\* build_index trains an empty primary; the other files stay as they are.
BuildIndex ==
  /\ cpu' = Once({}) /\ primaryIds' = {}
  /\ secondary' = None /\ incremental' = {}
  /\ orphaned' = FALSE /\ parted' = TRUE /\ hidden' = FALSE
  /\ UNCHANGED <<disk, exposed>>

\* add_vectors does not look for duplicates: its callers add each chunk once.
AddVectors(S) ==
  /\ cpu # None /\ S \intersect IdsOf(cpu) = {}
  /\ cpu' = [i \in Ids |-> cpu[i] + (IF i \in S THEN 1 ELSE 0)]
  /\ primaryIds' = primaryIds \union S
  /\ UNCHANGED <<disk, secondary, incremental, storeFlags>>

\* The identifiers go to disk at once, the vectors with save_secondary_index. No
\* vector is kept when none is new, or when FAISS raises on a secondary that may
\* just have been created; the write may raise before it opens the file.
UpdateIndex(S) == \E kept \in {S \ (incremental \union EnsuredIds), {}} :
  /\ cpu # None
  /\ \A i \in kept : EnsuredSecondary[i] < MaxCopies
  /\ primaryIds' = EnsuredIds
  /\ secondary' = [i \in Ids |-> EnsuredSecondary[i] + (IF i \in kept THEN 1 ELSE 0)]
  /\ incremental' = incremental \union kept
  /\ IF kept = {} THEN UNCHANGED idsFile ELSE idsFile' \in {idsFile, incremental', Torn}
  /\ hidden' = (hidden \/ (secondary = None /\ ~ IdsOf(secondaryFile) \subseteq IdsOf(primaryFile)))
  /\ UNCHANGED <<cpu, primaryFile, secondaryFile, exposed, orphaned, parted>>

SaveCPUIndex ==
  /\ cpu # None
  /\ primaryFile' \in {cpu, Torn}
  /\ parted' = (parted \/ primaryFile' = Torn)
  /\ UNCHANGED <<memory, secondaryFile, idsFile, exposed, orphaned, hidden>>

LoadCPUIndex ==
  /\ primaryFile \notin {None, Torn}
  /\ cpu' = primaryFile /\ primaryIds' = IdsOf(primaryFile)
  /\ secondary' = None /\ incremental' = {}
  /\ orphaned' = FALSE /\ parted' = FALSE /\ hidden' = FALSE
  /\ UNCHANGED <<disk, exposed>>

\* The vectors are written before the identifiers, and either may be cut short.
SaveSecondaryIndex ==
  /\ secondary # None
  /\ \/ secondaryFile' = Torn /\ UNCHANGED idsFile
     \/ secondaryFile' = secondary /\ idsFile' \in {idsFile, Persisted(incremental)}
     \/ secondaryFile' = secondary /\ incremental # {} /\ idsFile' = Torn
  /\ UNCHANGED <<memory, primaryFile, storeFlags>>

LoadSecondaryIndex ==
  /\ secondaryFile \notin {None, Torn}
  /\ secondary' = secondaryFile
  /\ incremental' = Remembered
  /\ exposed' = (exposed \/ ~ IdsOf(secondaryFile) \subseteq Remembered \union primaryIds)
  /\ orphaned' = ~ (Remembered \subseteq IdsOf(secondaryFile))
  /\ hidden' = FALSE
  /\ UNCHANGED <<disk, cpu, primaryIds, parted>>

\* A reader that reports a missing file with FileNotFoundError; FAISS itself
\* raises RuntimeError, which changes nothing. The identifiers file is removed,
\* unless the removal raises.
LoadSecondaryMissing ==
  /\ secondaryFile = None
  /\ secondary' = None /\ incremental' = {} /\ idsFile' \in {None, idsFile}
  /\ orphaned' = FALSE /\ hidden' = FALSE
  /\ UNCHANGED <<cpu, primaryIds, primaryFile, secondaryFile, exposed, parted>>

\* Neither index file is written: the merged vectors wait for save_cpu_index.
\* The identifiers file goes last, and its removal may raise.
MergeIndexes ==
  /\ cpu # None /\ secondary # None
  /\ cpu' = [i \in Ids |-> cpu[i] + (IF i \in EnsuredIds THEN 0 ELSE secondary[i])]
  /\ primaryIds' = EnsuredIds \union IdsOf(secondary)
  /\ secondary' = None /\ incremental' = {} /\ idsFile' \in {None, idsFile}
  /\ orphaned' = FALSE /\ hidden' = FALSE
  /\ UNCHANGED <<primaryFile, secondaryFile, exposed, parted>>

-----------------------------------------------------------------------------
(* The rest of the world. *)

Restart ==
  /\ cpu' = None /\ secondary' = None /\ incremental' = {} /\ primaryIds' = {}
  /\ orphaned' = FALSE /\ parted' = FALSE /\ hidden' = FALSE
  /\ UNCHANGED <<disk, exposed>>

\* The build pipeline of another process: the primary of all vectors, each
\* chunk once, and then an empty secondary beside whatever identifiers there are.
PersistPrimary(S) ==
  /\ primaryFile' \in {Once(S), Torn}
  /\ parted' = TRUE
  /\ UNCHANGED <<memory, secondaryFile, idsFile, exposed, orphaned, hidden>>

PersistSecondary ==
  /\ secondaryFile' \in {Once({}), Torn}
  /\ parted' = TRUE
  /\ UNCHANGED <<memory, primaryFile, idsFile, exposed, orphaned, hidden>>

StoreNext ==
  \/ BuildIndex \/ SaveCPUIndex \/ LoadCPUIndex
  \/ SaveSecondaryIndex \/ LoadSecondaryIndex \/ LoadSecondaryMissing \/ MergeIndexes
  \/ \E S \in (SUBSET Ids) \ {{}} : AddVectors(S) \/ UpdateIndex(S) \/ PersistPrimary(S)
  \/ Restart \/ PersistSecondary

StoreSpec == StoreInit /\ [][StoreNext]_storeVars

-----------------------------------------------------------------------------
(* Properties. *)

\* Every variable keeps its kind of value.
StoreTypeOK ==
  /\ {cpu, secondary} \subseteq Indexes \union {None}
  /\ {primaryFile, secondaryFile} \subseteq Indexes \union {None, Torn}
  /\ incremental \subseteq Ids /\ primaryIds \subseteq Ids
  /\ idsFile \in (SUBSET Ids) \union {None, Torn}
  /\ exposed \in BOOLEAN /\ orphaned \in BOOLEAN
  /\ parted \in BOOLEAN /\ hidden \in BOOLEAN

NoRepetition(x) == x # None /\ x # Torn => \A i \in Ids : x[i] <= 1

\* update_index and merge_indexes promise to add a chunk once. They do, across
\* reloads, merges and restarts, until a secondary index is loaded beside an
\* identifier file that was lost, torn or of an earlier save.
HeldOnce ==
  ~exposed => NoRepetition(cpu) /\ NoRepetition(secondary)

\* A chunk that update_index would skip as known is in one of the two indexes,
\* unless the identifiers were read from a file that runs ahead of the secondary
\* index: then it can be neither found nor added.
SkippedIsHeld ==
  ~orphaned => incremental \union primaryIds \subseteq IdsOf(cpu) \union IdsOf(secondary)

OnDisk == IdsOf(primaryFile) \union IdsOf(secondaryFile)

Tears == secondaryFile # Torn /\ secondaryFile' = Torn

\* What was saved can be loaded again: no save or merge takes a chunk off the
\* disk while the primary descends from its file and no write is cut short,
\* unless update_index created a secondary over one that was neither loaded nor
\* merged into the saved primary.
SavedStaysSaved ==
  [][OnDisk \subseteq OnDisk' \/ parted' \/ hidden \/ Tears]_storeVars

\* With identifiers remembered in three places and read from a file of their own, the
\* manager still does what one would do that looks into the indexes themselves.
Sets == INSTANCE ChunkSets WITH
          Chunks <- Ids, main <- IdsOf(cpu), rest <- IdsOf(secondary),
          mainSaved <- IdsOf(primaryFile), restSaved <- IdsOf(secondaryFile),
          astray <- orphaned
ImplementsChunks == Sets!ChunksSpec
================================================================================
