---------------------------- MODULE ScopeRegister ----------------------------
(***************************************************************************)
(* What the two-layer store promises about the scope of a session          *)
(* (src/codeintel_rev/app/scope_store.py) as long as writes neither overlap *)
(* other calls nor fail: a register that may forget.  It holds the scope   *)
(* of the last set or nothing, nothing that was deleted or forgotten comes *)
(* back, and what a get is answered at once is that scope or nothing.      *)
(* Layers, fetches and the times to live are left open.                    *)
(***************************************************************************)
EXTENDS Naturals

CONSTANT Nothing

VARIABLES
  last,    \* the number of the last set, which names its scope
  held,    \* the scope a get can still obtain, or Nothing
  shown,   \* the scope a get is answered without waiting, or Nothing
  loose    \* a write overlapped another call, or failed

registerVars == <<last, held, shown, loose>>

RegisterInit == last = 0 /\ held = Nothing /\ shown = Nothing /\ loose = FALSE

Set ==
  /\ last' = last + 1
  /\ held' = last' /\ shown' = last'
  /\ UNCHANGED loose

\* A delete, or the last copy expires or is evicted.
Erase ==
  /\ held' = Nothing /\ shown' = Nothing
  /\ UNCHANGED <<last, loose>>

Show == shown' = held /\ UNCHANGED <<last, held, loose>>

Hide == shown' = Nothing /\ UNCHANGED <<last, held, loose>>

\* From the first overlap on nothing is promised.
Loosen == loose' = TRUE /\ last' \in {last, last + 1}

RegisterNext == Set \/ Erase \/ Show \/ Hide \/ Loosen

RegisterSpec == RegisterInit /\ [][RegisterNext]_registerVars
==============================================================================
