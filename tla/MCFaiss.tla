-------------------------------- MODULE MCFaiss ---------------------------------
(* The two halves of the FAISS manager's life, checked side by side: a       *)
(* behaviour is one of the server around the index (FaissServing) or one of  *)
(* the indexes and their files (FaissStore), chosen at the start.            *)
EXTENDS FaissServing, FaissStore

VARIABLE part

mcVars == <<part, servingVars, storeVars>>

MCInit ==
  /\ part \in {"serving", "store"} /\ ServingInit /\ StoreInit
  /\ part = "store" => file = 0

MCNext ==
  \/ part = "serving" /\ ServingNext /\ UNCHANGED <<part, storeVars>>
  \/ part = "store" /\ StoreNext /\ UNCHANGED <<part, servingVars>>

MCSpec == MCInit /\ [][MCNext]_mcVars /\ ServingFairness
================================================================================
