---------------------------- MODULE PayloadSlot ----------------------------
(***************************************************************************)
(* What a RuntimeCell promises about the payloads themselves               *)
(* (src/codeintel_rev/runtime/cells.py): each one is built by one call, is *)
(* cached at most once, never comes back once it has left the cell, and is *)
(* released at most once and only after it has left.  Who builds, who      *)
(* waits and how calls are scheduled is left open.                         *)
(***************************************************************************)
CONSTANTS Payloads, NoPayload

VARIABLES building, cached, gone, released

slotVars == <<building, cached, gone, released>>

Fresh == Payloads \ (building \union gone \union {cached})
Evicted == {cached} \ {NoPayload}

SlotInit == building = {} /\ cached = NoPayload /\ gone = {} /\ released = {}

Begin(p) ==
  /\ p \in Fresh
  /\ building' = building \union {p}
  /\ UNCHANGED <<cached, gone, released>>

\* A finished payload takes the slot, from an older or a newer one if need be.
Install(p) ==
  /\ p \in building
  /\ building' = building \ {p}
  /\ cached' = p
  /\ gone' = gone \union Evicted
  /\ UNCHANGED released

InstallFresh(p) ==
  /\ p \in Fresh /\ cached = NoPayload
  /\ cached' = p
  /\ UNCHANGED <<building, gone, released>>

\* A build that fails clears the slot; one that is cut off leaves it alone.
Fail(p) ==
  /\ p \in building
  /\ building' = building \ {p}
  /\ cached' = NoPayload
  /\ gone' = gone \union Evicted \union {p}
  /\ UNCHANGED released

CutOff(p) ==
  /\ p \in building
  /\ building' = building \ {p}
  /\ gone' = gone \union {p}
  /\ UNCHANGED <<cached, released>>

Clear ==
  /\ cached' = NoPayload
  /\ gone' = gone \union Evicted
  /\ UNCHANGED <<building, released>>

Release(p) ==
  /\ p \in gone \ released
  /\ released' = released \union {p}
  /\ UNCHANGED <<building, cached, gone>>

SlotNext ==
  \/ Clear
  \/ \E p \in Payloads : \/ Begin(p) \/ Install(p) \/ InstallFresh(p)
                         \/ Fail(p) \/ CutOff(p) \/ Release(p)

SlotSpec == SlotInit /\ [][SlotNext]_slotVars
=============================================================================
