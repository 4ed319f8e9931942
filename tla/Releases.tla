------------------------------- MODULE Releases -------------------------------
(***************************************************************************)
(* What the index lifecycle promises its readers                           *)
(* (src/codeintel_rev/indexing/index_lifecycle.py): a version becomes      *)
(* complete in one step, from an empty directory or none, and stays so;    *)
(* one that is partial, published without a manifest, never becomes        *)
(* complete; one that only has Lucene assets linked may be emptied again,  *)
(* when they are linked anew; the active version is one that a call chose, *)
(* and it is lost only after overlapping switches.                         *)
(* Staging, CURRENT.tmp, file handles and the processes are left open.     *)
(***************************************************************************)
CONSTANTS
  Versions,
  None       \* no version is active

VARIABLES
  release,   \* what there is of each version
  pending,   \* versions that were chosen and may still become active
  active,    \* the active version, or None
  plain,     \* a version that was not complete has been chosen
  loose      \* switches have overlapped

releaseVars == <<release, pending, active, plain, loose>>

ReleasesInit ==
  /\ release = [v \in Versions |-> "absent"]
  /\ pending = {} /\ active = None
  /\ plain = FALSE /\ loose = FALSE

Unfilled == {"absent", "empty"}

\* A complete version appears, and is chosen at once.
Release(v) ==
  /\ release[v] \in Unfilled
  /\ release' = [release EXCEPT ![v] = "complete"]
  /\ pending' = pending \union {v}
  /\ UNCHANGED <<active, plain, loose>>

\* A directory appears, or is filled with anything but a complete version.
Grow(v) ==
  /\ release[v] \in Unfilled
  /\ release' \in {[release EXCEPT ![v] = c] : c \in {"empty", "partial"}}
  /\ UNCHANGED <<pending, active, plain, loose>>

\* The Lucene assets, all there is of a version, are removed.
Clear(v) ==
  /\ release[v] = "linked"
  /\ release' = [release EXCEPT ![v] = "empty"]
  /\ UNCHANGED <<pending, active, plain, loose>>

\* A version that is there is chosen, complete or not; Lucene assets may be linked.
Pick(v) ==
  /\ release[v] # "absent" /\ pending' = pending \union {v}
  /\ release' \in {release, [release EXCEPT ![v] = IF @ = "empty" THEN "linked" ELSE @]}
  /\ plain' = (plain \/ release[v] # "complete")
  /\ UNCHANGED <<active, loose>>

Activate(v) ==
  /\ v \in pending /\ pending' \subseteq pending
  /\ active' = v
  /\ UNCHANGED <<release, plain, loose>>

\* Only after an overlap.
Lose ==
  /\ loose /\ pending' \subseteq pending
  /\ active' = None
  /\ UNCHANGED <<release, plain, loose>>

\* A switch stops, or overlaps another one.
Withdraw ==
  /\ pending' \subseteq pending
  /\ loose => loose'
  /\ UNCHANGED <<release, active, plain>>

ReleasesNext ==
  \/ \E v \in Versions : Release(v) \/ Grow(v) \/ Clear(v) \/ Pick(v) \/ Activate(v)
  \/ Lose \/ Withdraw

ReleasesSpec == ReleasesInit /\ [][ReleasesNext]_releaseVars
===============================================================================
