--------------------------- MODULE MCIndexLifecycle ---------------------------
(* Finite instances of IndexLifecycle for TLC: two versions to switch between,  *)
(* and processes enough to stage, publish and switch the same one at once.      *)
EXTENDS IndexLifecycle, TLC

ProcSymmetry == Permutations(Procs)
FullSymmetry == Permutations(Procs) \union Permutations(Versions)
===============================================================================
