----------------------------- MODULE ServedIndex -----------------------------
(***************************************************************************)
(* What ApplicationContext promises about the FAISS index it serves        *)
(* (src/codeintel_rev/app/config_context.py): while the index is called    *)
(* ready it is there and stays the same; it is loaded and dropped only     *)
(* while it is not; and what is loaded is no older than a reload that has  *)
(* ended.  The lock, the steps of a load and of a reload, the signal       *)
(* handler and the guards are left open.                                   *)
(***************************************************************************)
EXTENDS Naturals

VARIABLES
  source,   \* how often the index file was replaced
  served,   \* which of these contents is served, 0 for none
  ready,    \* the index is called ready
  floor,    \* a reload that began at this content has ended
  loose     \* a load began inside a reload, or the server closes

servedVars == <<source, served, ready, floor, loose>>

ServedInit ==
  /\ source \in {0, 1} /\ served \in {0, source}
  /\ ready = FALSE /\ floor = 0 /\ loose = FALSE

NewContent ==
  /\ source' = source + 1
  /\ UNCHANGED <<served, ready, floor, loose>>

Load ==
  /\ ~ready
  /\ served' \in floor..source /\ served' # 0
  /\ UNCHANGED <<source, ready, floor, loose>>

CallReady ==
  /\ served # 0 \/ loose
  /\ ready' = TRUE
  /\ UNCHANGED <<source, served, floor, loose>>

CallUnready ==
  /\ ready' = FALSE
  /\ UNCHANGED <<source, served, floor, loose>>

\* A reload that began at some content drops what is served.
Drop ==
  /\ ~ready \/ loose
  /\ served' = 0 /\ floor' \in floor..source
  /\ UNCHANGED <<source, ready, loose>>

\* From here on the index may be missing although it is called ready; a server
\* that closes drops it at once.
Loosen ==
  /\ loose' = TRUE
  /\ served' \in {served, 0}
  /\ UNCHANGED <<source, ready, floor>>

ServedNext ==
  NewContent \/ Load \/ CallReady \/ CallUnready \/ Drop \/ Loosen

ServedSpec == ServedInit /\ [][ServedNext]_servedVars
==============================================================================
