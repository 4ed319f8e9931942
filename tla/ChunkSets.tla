------------------------------- MODULE ChunkSets -------------------------------
(***************************************************************************)
(* What the FAISS manager promises about chunks                            *)
(* (src/codeintel_rev/io/faiss_manager.py): two sets in memory, the        *)
(* primary one and the rest, and what was saved of each.  An update looks  *)
(* into the sets themselves, a merge loses nothing, and whatever appears   *)
(* was added, loaded or written by another process.  The vectors, the      *)
(* remembered identifiers and their file are left open.                    *)
(***************************************************************************)
CONSTANT Chunks

VARIABLES
  main, rest,             \* the chunks of the two indexes in memory
  mainSaved, restSaved,   \* the chunks of the two files
  astray                  \* what is remembered and what is held disagree

chunkVars == <<main, rest, mainSaved, restSaved, astray>>

ChunksInit ==
  /\ main = {} /\ rest = {} /\ mainSaved = {} /\ restSaved = {}
  /\ astray = FALSE

\* An empty index is built, or the process starts again.
Clear ==
  /\ main' = {} /\ rest' = {} /\ astray' = FALSE
  /\ UNCHANGED <<mainSaved, restSaved>>

Add(S) ==
  /\ S \intersect main = {} /\ main' = main \union S
  /\ UNCHANGED <<rest, mainSaved, restSaved, astray>>

\* The chunks of a batch that are in neither set are added, all of them unless
\* the manager remembers chunks that it does not hold.
Update(S) ==
  /\ rest' \subseteq rest \union (S \ main) /\ rest \subseteq rest'
  /\ ~astray => rest' = rest \union (S \ main)
  /\ UNCHANGED <<main, mainSaved, restSaved, astray>>

Merge ==
  /\ main' = main \union rest /\ rest' = {} /\ astray' = FALSE
  /\ UNCHANGED <<mainSaved, restSaved>>

\* A save writes the whole set, or is cut short and leaves a file without any.
SaveMain ==
  /\ mainSaved' \in {main, {}}
  /\ UNCHANGED <<main, rest, restSaved, astray>>

SaveRest ==
  /\ restSaved' \in {rest, {}}
  /\ UNCHANGED <<main, rest, mainSaved, astray>>

LoadMain ==
  /\ main' = mainSaved /\ rest' = {} /\ astray' = FALSE
  /\ UNCHANGED <<mainSaved, restSaved>>

LoadRest ==
  /\ rest' = restSaved
  /\ UNCHANGED <<main, mainSaved, restSaved>>

\* Another process writes the files.
Rewrite ==
  /\ mainSaved' \subseteq Chunks /\ restSaved' \in {restSaved, {}}
  /\ UNCHANGED <<main, rest, astray>>

ChunksNext ==
  \/ \E S \in SUBSET Chunks : Add(S) \/ Update(S)
  \/ Clear \/ Merge \/ SaveMain \/ SaveRest \/ LoadMain \/ LoadRest \/ Rewrite

ChunksSpec == ChunksInit /\ [][ChunksNext]_chunkVars
================================================================================
