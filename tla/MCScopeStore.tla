----------------------------- MODULE MCScopeStore -----------------------------
(* Finite instances of ScopeStore for TLC.  Fetches, joins and writes of three  *)
(* tasks overlap in every way; two sets are enough for Redis to apply them in   *)
(* the other order.                                                             *)
EXTENDS ScopeStore
===============================================================================
