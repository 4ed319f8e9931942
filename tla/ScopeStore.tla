------------------------------ MODULE ScopeStore ------------------------------
(***************************************************************************)
(* The two-layer store of session scopes                                   *)
(* (src/codeintel_rev/app/scope_store.py, classes ScopeStore, LRUCache and *)
(* AsyncSingleFlight), seen from one session: tasks of one event loop get, *)
(* set and delete its scope.  An action is what a task does between two    *)
(* awaits, or what Redis does meanwhile; the lock of the single flight is  *)
(* never held across an await, so its sections are part of such actions.   *)
(* A scope is identified with the number of the set that wrote it.         *)
(***************************************************************************)
EXTENDS Naturals, FiniteSets

CONSTANTS
  Tasks,       \* the tasks of the event loop, each one call after the other
  MaxWrites,   \* bound on the calls of set
  KeepL2       \* l2_ttl_seconds is None or positive

ASSUME StoreAssumption ==
  /\ IsFiniteSet(Tasks)
  /\ MaxWrites \in Nat \ {0}
  /\ KeepL2 \in BOOLEAN

VARIABLES
  l1,        \* the scope cached in this process, or None
  age,       \* how old the L1 entry is; at Expired it no longer counts
  l2,        \* what Redis holds: a scope, None, or bytes that do not decode
  inflight,  \* _inflight: the fetch registered for the session, if any
  fetch,     \* where the fetch each task started is
  got,       \* what that fetch read
  pc,        \* where each task is
  awaits,    \* the fetch each getter awaits: one, or none for other tasks
  arg,       \* the scope each setter writes
  writes,    \* the number of calls of set
  raced,     \* history: a write overlapped another call, or failed
  clear,     \* history: the deletes at work with which no set was at work
  deleted    \* history: such a delete has succeeded and no set came after it

layers == <<l1, age, l2>>
flight == <<inflight, fetch, got, awaits>>
history == <<writes, raced, clear, deleted>>
vars == <<l1, age, l2, inflight, fetch, got, pc, awaits, arg, writes, raced, clear, deleted>>

None == 0
Corrupt == MaxWrites + 1
Scopes == 1..MaxWrites
Expired == 2

\* LRUCache.get: an expired record is as good as none.
Cached == IF age = Expired THEN None ELSE l1

Fetching == {f \in Tasks : fetch[f] # "none"}
Writing == {t \in Tasks : pc[t] \in {"setting", "deleting"}}
Target(t) == IF pc[t] = "setting" /\ KeepL2 THEN arg[t] ELSE None

Init ==
  /\ l1 = None /\ age = 0 /\ l2 \in {None, Corrupt}
  /\ inflight = {}
  /\ fetch = [t \in Tasks |-> "none"]
  /\ got = [t \in Tasks |-> None]
  /\ pc = [t \in Tasks |-> "idle"]
  /\ awaits = [t \in Tasks |-> {}]
  /\ arg = [t \in Tasks |-> None]
  /\ writes = 0 /\ raced = FALSE /\ clear = {} /\ deleted = FALSE

\* The end of _execute: the key is popped and every awaiting getter answered.
Answered(f) == [t \in Tasks |-> IF awaits[t] = {f} THEN "idle" ELSE pc[t]]
Finish(f) ==
  /\ fetch' = [fetch EXCEPT ![f] = "none"]
  /\ got' = [got EXCEPT ![f] = None]
  /\ inflight' = {}
  /\ pc' = Answered(f)
  /\ awaits' = [t \in Tasks |-> awaits[t] \ {f}]
  /\ UNCHANGED <<arg, history>>

\* The deletes that are clear of sets once that of t has begun.
Undisturbed(t) == IF \E u \in Tasks : pc[u] = "setting" THEN clear ELSE clear \union {t}

(***************************************************************************)
(* Faulty variants of the definitions below, one per property: no part of  *)
(* the specification, they show that each property can fail.               *)
(***************************************************************************)
\* A hit refreshes the time the entry was inserted.
GetHitRefreshes(t) ==
  /\ pc[t] = "idle" /\ Cached # None
  /\ age' = 0
  /\ UNCHANGED <<l1, l2, flight, pc, arg, history>>

\* A miss does not look for a fetch to join.
GetFetchAlways(t) ==
  /\ pc[t] = "idle" /\ Cached = None
  /\ l1' = None /\ age' = 0
  /\ inflight' = {t}
  /\ fetch' = [fetch EXCEPT ![t] = "asked"]
  /\ awaits' = [awaits EXCEPT ![t] = {t}]
  /\ pc' = [pc EXCEPT ![t] = "getting"]
  /\ raced' = (raced \/ Writing # {})
  /\ UNCHANGED <<l2, got, arg, writes, clear, deleted>>

\* delete removes the scope from Redis only.
DeleteL2Only(t) ==
  /\ pc[t] = "idle"
  /\ pc' = [pc EXCEPT ![t] = "deleting"]
  /\ raced' = (raced \/ Writing # {} \/ Fetching # {})
  /\ clear' = Undisturbed(t)
  /\ UNCHANGED <<layers, flight, arg, writes, deleted>>

\* A failed fetch leaves its getters waiting.
FetchFailsSilently(f) ==
  /\ fetch[f] \in {"asked", "purging"}
  /\ fetch' = [fetch EXCEPT ![f] = "none"]
  /\ inflight' = {}
  /\ UNCHANGED <<layers, got, pc, awaits, arg, history>>

\* set writes Redis only.
SetL2Only(t) ==
  /\ pc[t] = "idle" /\ writes < MaxWrites
  /\ writes' = writes + 1
  /\ arg' = [arg EXCEPT ![t] = writes + 1]
  /\ pc' = [pc EXCEPT ![t] = "setting"]
  /\ raced' = (raced \/ Writing # {} \/ Fetching # {})
  /\ clear' = {} /\ deleted' = FALSE
  /\ UNCHANGED <<layers, flight>>

(***************************************************************************)
(* get                                                                     *)
(***************************************************************************)
GetHit(t) ==
  /\ pc[t] = "idle" /\ Cached # None
  /\ UNCHANGED vars

\* The first miss starts the fetch, the others join it.
GetFetch(t) ==
  /\ pc[t] = "idle" /\ Cached = None /\ inflight = {}
  /\ l1' = None /\ age' = 0
  /\ inflight' = {t}
  /\ fetch' = [fetch EXCEPT ![t] = "asked"]
  /\ awaits' = [awaits EXCEPT ![t] = {t}]
  /\ pc' = [pc EXCEPT ![t] = "getting"]
  /\ raced' = (raced \/ Writing # {})
  /\ UNCHANGED <<l2, got, arg, writes, clear, deleted>>

GetJoin(t) ==
  /\ pc[t] = "idle" /\ Cached = None
  /\ l1' = None /\ age' = 0
  /\ inflight # {}
  /\ awaits' = [awaits EXCEPT ![t] = inflight]
  /\ pc' = [pc EXCEPT ![t] = "getting"]
  /\ UNCHANGED <<l2, inflight, fetch, got, arg, history>>

\* The caller is cancelled; the shield keeps the fetch going.
GetCancelled(t) ==
  /\ pc[t] = "getting"
  /\ pc' = [pc EXCEPT ![t] = "idle"]
  /\ awaits' = [awaits EXCEPT ![t] = {}]
  /\ UNCHANGED <<layers, inflight, fetch, got, arg, history>>

(***************************************************************************)
(* _fetch_from_l2                                                          *)
(***************************************************************************)
RedisReads(f) ==
  /\ fetch[f] = "asked"
  /\ fetch' = [fetch EXCEPT ![f] = "read"]
  /\ got' = [got EXCEPT ![f] = l2]
  /\ UNCHANGED <<layers, inflight, pc, awaits, arg, history>>

FetchMisses(f) ==
  /\ fetch[f] = "read" /\ got[f] = None
  /\ UNCHANGED layers
  /\ Finish(f)

FetchInstalls(f) ==
  /\ fetch[f] = "read" /\ got[f] \in Scopes
  /\ l1' = got[f] /\ age' = 0
  /\ UNCHANGED l2
  /\ Finish(f)

\* A value that does not decode is deleted from Redis, whatever is there by then.
FetchPurges(f) ==
  /\ fetch[f] = "read" /\ got[f] = Corrupt
  /\ fetch' = [fetch EXCEPT ![f] = "purging"]
  /\ UNCHANGED <<layers, inflight, got, pc, awaits, arg, history>>

RedisPurges(f) ==
  /\ fetch[f] = "purging"
  /\ l2' = None
  /\ UNCHANGED <<l1, age>>
  /\ Finish(f)

\* Redis raises; a delete may have been applied all the same.
FetchFails(f) ==
  /\ fetch[f] \in {"asked", "purging"}
  /\ \/ l2' = l2
     \/ fetch[f] = "purging" /\ l2' = None
  /\ UNCHANGED <<l1, age>>
  /\ Finish(f)

(***************************************************************************)
(* set and delete                                                          *)
(***************************************************************************)
SetBegins(t) ==
  /\ pc[t] = "idle" /\ writes < MaxWrites
  /\ writes' = writes + 1
  /\ l1' = writes + 1 /\ age' = 0
  /\ arg' = [arg EXCEPT ![t] = writes + 1]
  /\ pc' = [pc EXCEPT ![t] = "setting"]
  /\ raced' = (raced \/ Writing # {} \/ Fetching # {})
  /\ clear' = {} /\ deleted' = FALSE
  /\ UNCHANGED <<l2, flight>>

DeleteBegins(t) ==
  /\ pc[t] = "idle"
  /\ l1' = None /\ age' = 0
  /\ pc' = [pc EXCEPT ![t] = "deleting"]
  /\ raced' = (raced \/ Writing # {} \/ Fetching # {})
  /\ clear' = Undisturbed(t)
  /\ UNCHANGED <<l2, flight, arg, writes, deleted>>

RedisWrites(t) ==
  /\ t \in Writing
  /\ l2' = Target(t)
  /\ pc' = [pc EXCEPT ![t] = "idle"]
  /\ deleted' = (deleted \/ (pc[t] = "deleting" /\ t \in clear))
  /\ clear' = clear \ {t}
  /\ arg' = [arg EXCEPT ![t] = None]
  /\ UNCHANGED <<l1, age, flight, writes, raced>>

\* Redis raises or the caller is cancelled, before or after the write is applied.
WriteFails(t) ==
  /\ t \in Writing
  /\ l2' \in {l2, Target(t)}
  /\ pc' = [pc EXCEPT ![t] = "idle"]
  /\ arg' = [arg EXCEPT ![t] = None]
  /\ raced' = TRUE
  /\ clear' = clear \ {t}
  /\ UNCHANGED <<l1, age, flight, writes, deleted>>

(***************************************************************************)
(* Eviction and time                                                       *)
(***************************************************************************)
\* evict_l1, or _enforce_size when other sessions fill the cache.
EvictL1 ==
  /\ l1 # None
  /\ l1' = None /\ age' = 0
  /\ UNCHANGED <<l2, flight, pc, arg, history>>

L1Ages ==
  /\ l1 # None /\ age < Expired
  /\ age' = age + 1
  /\ UNCHANGED <<l1, l2, flight, pc, arg, history>>

L2Expires ==
  /\ l2 \in Scopes
  /\ l2' = None
  /\ UNCHANGED <<l1, age, flight, pc, arg, history>>

FetchSteps(f) ==
  \/ RedisReads(f) \/ FetchMisses(f) \/ FetchInstalls(f)
  \/ FetchPurges(f) \/ RedisPurges(f) \/ FetchFails(f)
WriteSteps(t) == RedisWrites(t) \/ WriteFails(t)

Next ==
  \/ \E t \in Tasks : \/ GetHit(t) \/ GetFetch(t) \/ GetJoin(t) \/ GetCancelled(t)
                      \/ FetchSteps(t)
                      \/ SetBegins(t) \/ DeleteBegins(t) \/ WriteSteps(t)
  \/ EvictL1 \/ L1Ages \/ L2Expires

Spec == Init /\ [][Next]_vars

\* Redis answers or raises, the loop runs the fetch, and the clock runs.
Fairness ==
  /\ \A t \in Tasks : WF_vars(FetchSteps(t)) /\ WF_vars(WriteSteps(t))
  /\ WF_vars(L1Ages)

FairSpec == Spec /\ Fairness

(***************************************************************************)
(* Properties                                                              *)
(***************************************************************************)
\* Every variable keeps its kind of value; nothing undecodable enters L1.
TypeOK ==
  /\ l1 \in {None} \union Scopes /\ age \in 0..Expired
  /\ l2 \in {None, Corrupt} \union Scopes
  /\ inflight \subseteq Tasks
  /\ fetch \in [Tasks -> {"none", "asked", "read", "purging"}]
  /\ got \in [Tasks -> {None, Corrupt} \union Scopes]
  /\ pc \in [Tasks -> {"idle", "getting", "setting", "deleting"}]
  /\ awaits \in [Tasks -> SUBSET Tasks]
  /\ arg \in [Tasks -> {None} \union Scopes]
  /\ writes \in 0..MaxWrites
  /\ clear \subseteq Tasks
  /\ raced \in BOOLEAN /\ deleted \in BOOLEAN

\* AsyncSingleFlight: one fetch at a time, also when the caller that started it
\* is cancelled and comes back; what is registered is at work, so that nobody
\* joins a fetch that has ended; and a getter awaits the registered one.
OneFetch ==
  /\ Fetching = inflight /\ Cardinality(inflight) <= 1
  /\ \A t \in Tasks : awaits[t] = IF pc[t] = "getting" THEN inflight ELSE {}

\* As long as no write overlaps another call or fails, L1 never contradicts a
\* scope that Redis holds, whatever is evicted or expires meanwhile, and a deleted
\* scope is gone from both layers.
AgreeUnlessRaced ==
  ~raced /\ Writing = {} =>
    /\ l2 \in Scopes => Cached \in {None, l2}
    /\ deleted => Cached = None /\ l2 = None

\* The scopes of which a copy is left somewhere.
Kept == ({l2, Cached} \union {got[f] : f \in Tasks}) \intersect Scopes

\* The scope a get can still obtain: that of the set at work, none during a delete,
\* and otherwise the one of which copies are left.
Held ==
  IF \E t \in Tasks : pc[t] = "setting" THEN writes
  ELSE IF Writing # {} \/ Kept = {} THEN None
  ELSE CHOOSE s \in Kept : TRUE

\* As long as no write overlaps another call or fails, the layers and the fetches
\* together are one register that may forget, ScopeRegister: no copy of an older or
\* of a deleted scope is ever brought back.
Register == INSTANCE ScopeRegister WITH
              Nothing <- None, last <- writes, held <- Held, shown <- Cached,
              loose <- raced
ImplementsRegister == Register!RegisterSpec

\* Whoever awaits the single flight awaits a fetch that is at work, also when the
\* getter that started it was cancelled: the safety half of GetReturns.
GettersAwaitWork ==
  \A t \in Tasks : pc[t] = "getting" => \E f \in Fetching : awaits[t] = {f}

\* Every get returns, also those that joined a fetch that fails.
GetReturns == \A t \in Tasks : pc[t] = "getting" ~> pc[t] # "getting"

\* However calls raced, once the writes are over what L1 serves agrees with Redis:
\* the TTL counts from the insertion, so hits do not keep a stale scope alive.
Heals == <>[](Cached \in {None, l2})

\* The docstring of delete: "Remove cached scope for session_id from both layers".
\* Once a delete has succeeded, and neither during it nor since was a set at work,
\* the session has no scope in L1.
DeleteRemoves == deleted => Cached = None
===============================================================================
