--------------------------- MODULE MCRuntimeCell ---------------------------
(* Finite instances of RuntimeCell for TLC, and two more statements of its     *)
(* docstrings that the code does not keep: TLC refutes each when it is put as  *)
(* an INVARIANT into a configuration.                                          *)
EXTENDS RuntimeCell

\* The docstring of get_or_initialize: "only one thread initializes at a time".
SingleFlight == Cardinality(Running) <= 1

\* The docstring of seed: the payload is there "to cache for subsequent calls",
\* so a call that finds the cell ready is not refused.
SeedServesCalls == state = "ready" => ~cooling
=============================================================================
