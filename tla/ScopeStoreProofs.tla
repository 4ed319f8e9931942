-------------------------- MODULE ScopeStoreProofs --------------------------
(* Theorems about ScopeStore, for every number of tasks and of writes and both *)
(* settings of the Redis time to live.                                         *)
EXTENDS ScopeStore, FiniteSetTheorems, TLAPS

(***************************************************************************)
(* The inductive invariant                                                 *)
(***************************************************************************)
Kinds ==
  /\ l1 \in {None} \union Scopes /\ age \in 0..Expired
  /\ l2 \in {None, Corrupt} \union Scopes
  /\ inflight \subseteq Tasks
  /\ fetch \in [Tasks -> {"none", "asked", "read", "purging"}]
  /\ got \in [Tasks -> {None, Corrupt} \union Scopes]
  /\ pc \in [Tasks -> {"idle", "getting", "setting", "deleting"}]
  /\ awaits \in [Tasks -> SUBSET Tasks]
  /\ arg \in [Tasks -> {None} \union Scopes]
  /\ writes \in 0..MaxWrites
  /\ clear \subseteq Tasks
Flags == raced \in BOOLEAN /\ deleted \in BOOLEAN
Types == Kinds /\ Flags

\* OneFetch without cardinalities; a fetch that has read nothing holds nothing.
Flight ==
  /\ Fetching = inflight
  /\ \A f, g \in inflight : f = g
  /\ \A t \in Tasks : awaits[t] = IF pc[t] = "getting" THEN inflight ELSE {}
  /\ \A t \in Tasks : pc[t] = "getting" => inflight # {}
  /\ \A t \in Tasks : fetch[t] \in {"none", "asked"} => got[t] = None

\* Until a write is raced it is alone with the layers, and a fetch holds what
\* Redis holds, or held until it expired.
Quiet ==
  /\ Writing # {} => Fetching = {}
  /\ \A t, u \in Writing : t = u
  /\ \A t \in Tasks : pc[t] = "setting" => l1 \in {None, arg[t]}
  /\ \A t \in Tasks : pc[t] = "deleting" => l1 = None
  /\ Writing = {} /\ l2 \in Scopes => l1 \in {None, l2}
  /\ \A f \in Tasks : got[f] \in Scopes /\ l2 \in Scopes => l2 = got[f]

\* Nothing is left of a deleted scope.
Erased ==
  /\ l1 = None /\ l2 = None
  /\ \A t \in Tasks : pc[t] # "setting" /\ got[t] = None

Calm == ~raced => Quiet /\ (deleted => Erased)

IInv == Types /\ Flight /\ Calm

(***************************************************************************)
(* Values and sets of tasks                                                *)
(***************************************************************************)
LEMMA Values ==
  /\ None \notin Scopes /\ Corrupt \notin Scopes /\ Corrupt # None
  /\ 0 \in 0..Expired
  /\ \A n \in 0..MaxWrites : n < MaxWrites => n + 1 \in Scopes /\ n + 1 \in 0..MaxWrites
BY StoreAssumption DEF None, Corrupt, Scopes, Expired

LEMMA TargetKind == ASSUME Kinds, NEW t \in Tasks PROVE Target(t) \in {None} \union Scopes
BY DEF Kinds, Target

LEMMA AnsweredKind ==
  ASSUME Kinds, NEW f \in Tasks
  PROVE  /\ Answered(f) \in [Tasks -> {"idle", "getting", "setting", "deleting"}]
         /\ \A t \in Tasks : Answered(f)[t] = IF awaits[t] = {f} THEN "idle" ELSE pc[t]
BY DEF Kinds, Answered

LEMMA InitIInv == Init => IInv
<1> SUFFICES ASSUME Init PROVE IInv
  OBVIOUS
<1>1. Kinds
  BY Values, StoreAssumption DEF Init, Kinds
<1>2. Flags
  BY DEF Init, Flags
<1>3. Flight
  BY DEF Init, Flight, Fetching
<1>4. ~deleted /\ Quiet
  BY Values DEF Init, Quiet, Writing, Fetching
<1> QED
  BY <1>1, <1>2, <1>3, <1>4 DEF IInv, Types, Calm

(***************************************************************************)
(* Types                                                                   *)
(***************************************************************************)
LEMMA KindsStep == Kinds /\ [Next]_vars => Kinds'
<1> SUFFICES ASSUME Kinds, [Next]_vars PROVE Kinds'
  OBVIOUS
<1>1. ASSUME NEW t \in Tasks, GetFetch(t) \/ GetJoin(t) \/ GetCancelled(t) PROVE Kinds'
  BY <1>1, Values DEF GetFetch, GetJoin, GetCancelled, Kinds, layers, history
<1>2. ASSUME NEW t \in Tasks, SetBegins(t) PROVE Kinds'
  <2>1. writes + 1 \in Scopes /\ writes + 1 \in 0..MaxWrites
    BY <1>2, Values DEF SetBegins, Kinds
  <2> QED
    BY <1>2, <2>1, Values DEF SetBegins, Kinds, flight
<1>3. ASSUME NEW t \in Tasks, DeleteBegins(t) PROVE Kinds'
  BY <1>3, Values DEF DeleteBegins, Undisturbed, Kinds, flight
<1>4. ASSUME NEW t \in Tasks, WriteSteps(t) PROVE Kinds'
  BY <1>4, TargetKind DEF WriteSteps, RedisWrites, WriteFails, Kinds, flight
<1>5. ASSUME NEW f \in Tasks, RedisReads(f) \/ FetchPurges(f) PROVE Kinds'
  BY <1>5 DEF RedisReads, FetchPurges, Kinds, layers, history
<1>6. ASSUME NEW f \in Tasks, Finish(f),
             l1' \in {None} \union Scopes, age' \in 0..Expired, l2' \in {None, l2}
      PROVE  Kinds'
  BY <1>6, AnsweredKind DEF Finish, Kinds, history
<1>7. ASSUME NEW f \in Tasks,
             FetchMisses(f) \/ FetchInstalls(f) \/ RedisPurges(f) \/ FetchFails(f)
      PROVE  Kinds'
  <2>1. Finish(f) /\ l2' \in {None, l2}
    BY <1>7 DEF FetchMisses, FetchInstalls, RedisPurges, FetchFails, layers
  <2>2. l1' \in {None} \union Scopes /\ age' \in 0..Expired
    BY <1>7, Values DEF FetchMisses, FetchInstalls, RedisPurges, FetchFails, layers, Kinds
  <2> QED
    BY <1>6, <2>1, <2>2
<1>8. CASE EvictL1 \/ L2Expires
  BY <1>8, Values DEF EvictL1, L2Expires, Kinds, flight, history
<1>9. CASE L1Ages
  <2>1. age' \in 0..Expired
    BY <1>9 DEF L1Ages, Kinds, Expired
  <2> QED
    BY <1>9, <2>1 DEF L1Ages, Kinds, flight, history
<1>10. CASE UNCHANGED vars
  BY <1>10 DEF vars, Kinds
<1> QED
  BY <1>1, <1>2, <1>3, <1>4, <1>5, <1>7, <1>8, <1>9, <1>10 DEF Next, FetchSteps, GetHit

LEMMA FlagsStep == Flags /\ [Next]_vars => Flags'
BY Zenon DEF Flags, Next, vars, history, GetHit, GetFetch, GetJoin, GetCancelled,
     FetchSteps, RedisReads, FetchMisses, FetchInstalls, FetchPurges, RedisPurges,
     FetchFails, Finish, SetBegins, DeleteBegins, WriteSteps, RedisWrites, WriteFails,
     EvictL1, L1Ages, L2Expires

(***************************************************************************)
(* The flight                                                              *)
(***************************************************************************)
\* The only fetch ends: nothing is left registered and nobody waits.
LEMMA FlightEnds ==
  ASSUME Kinds, Flight, NEW f \in Tasks, fetch[f] # "none", Finish(f)
  PROVE  Flight' /\ inflight = {f} /\ \A t \in Tasks : got'[t] = None
<1>1. inflight = {f}
  BY DEF Flight, Fetching
<1>2. \A t \in Tasks : awaits'[t] = {} /\ pc'[t] # "getting"
  BY <1>1, AnsweredKind DEF Finish, Kinds, Flight
<1>3. \A t \in Tasks : fetch'[t] = "none"
  BY <1>1 DEF Finish, Kinds, Flight, Fetching
<1>4. \A t \in Tasks : got'[t] = None
  BY <1>1 DEF Finish, Kinds, Flight, Fetching
<1> QED
  BY <1>1, <1>2, <1>3, <1>4 DEF Finish, Flight, Fetching

LEMMA FlightStep == Kinds /\ Flight /\ [Next]_vars => Flight'
<1> SUFFICES ASSUME Kinds, Flight, [Next]_vars PROVE Flight'
  OBVIOUS
<1>1. ASSUME NEW t \in Tasks, GetFetch(t) PROVE Flight'
  <2>1. fetch[t] = "none" /\ got[t] = None /\ Fetching' = {t}
    BY <1>1 DEF GetFetch, Kinds, Flight, Fetching
  <2> QED
    BY <1>1, <2>1 DEF GetFetch, Kinds, Flight
<1>2. ASSUME NEW t \in Tasks, GetJoin(t) \/ GetCancelled(t) PROVE Flight'
  BY <1>2 DEF GetJoin, GetCancelled, Kinds, Flight, Fetching
<1>3. ASSUME NEW t \in Tasks, SetBegins(t) \/ DeleteBegins(t) \/ WriteSteps(t) PROVE Flight'
  BY <1>3 DEF SetBegins, DeleteBegins, WriteSteps, RedisWrites, WriteFails, Writing,
              flight, Kinds, Flight, Fetching
<1>4. ASSUME NEW f \in Tasks, RedisReads(f) \/ FetchPurges(f) PROVE Flight'
  <2>1. Fetching' = Fetching
    BY <1>4 DEF RedisReads, FetchPurges, Kinds, Fetching
  <2> QED
    BY <1>4, <2>1 DEF RedisReads, FetchPurges, Kinds, Flight
<1>5. ASSUME NEW f \in Tasks,
             FetchMisses(f) \/ FetchInstalls(f) \/ RedisPurges(f) \/ FetchFails(f)
      PROVE  Flight'
  <2>1. Finish(f) /\ fetch[f] # "none"
    BY <1>5 DEF FetchMisses, FetchInstalls, RedisPurges, FetchFails
  <2> QED
    BY <2>1, FlightEnds
<1>6. CASE EvictL1 \/ L1Ages \/ L2Expires \/ UNCHANGED vars
  BY <1>6 DEF EvictL1, L1Ages, L2Expires, vars, flight, Flight, Fetching
<1> QED
  BY <1>1, <1>2, <1>3, <1>4, <1>5, <1>6 DEF Next, FetchSteps, GetHit

(***************************************************************************)
(* The layers                                                              *)
(***************************************************************************)
\* What the history says of a step: a step after which nothing is raced had
\* nothing raced before, and did not overlap.
LEMMA History ==
  ASSUME Flags, [Next]_vars, ~raced'
  PROVE  /\ ~raced
         /\ \A t \in Tasks : GetFetch(t) => Writing = {}
         /\ \A t \in Tasks : SetBegins(t) => Writing = {} /\ Fetching = {} /\ ~deleted'
         /\ \A t \in Tasks : DeleteBegins(t) => Writing = {} /\ Fetching = {}
         /\ \A t \in Tasks : ~WriteFails(t)
         /\ deleted' => deleted \/ \E t \in Tasks : RedisWrites(t) /\ pc[t] = "deleting"
<1> DEFINE Erasing == \E t \in Tasks : RedisWrites(t) /\ pc[t] = "deleting"
<1>1. ASSUME NEW t \in Tasks, GetFetch(t)
      PROVE  ~raced /\ Writing = {} /\ (deleted' => deleted)
  BY <1>1, Zenon DEF GetFetch
<1>2. ASSUME NEW t \in Tasks, SetBegins(t)
      PROVE  ~raced /\ Writing = {} /\ Fetching = {} /\ ~deleted'
  BY <1>2, Zenon DEF SetBegins
<1>3. ASSUME NEW t \in Tasks, DeleteBegins(t)
      PROVE  ~raced /\ Writing = {} /\ Fetching = {} /\ (deleted' => deleted)
  BY <1>3, Zenon DEF DeleteBegins
<1>4. ASSUME NEW t \in Tasks, WriteFails(t) PROVE FALSE
  BY <1>4, Zenon DEF WriteFails
<1>5. ASSUME NEW t \in Tasks, RedisWrites(t) PROVE ~raced /\ (deleted' => deleted \/ Erasing)
  <2>1. raced' = raced /\ deleted' = (deleted \/ (pc[t] = "deleting" /\ t \in clear))
    BY <1>5, Zenon DEF RedisWrites
  <2> QED
    BY <1>5, <2>1, Zenon
<1>6. ASSUME UNCHANGED history PROVE ~raced /\ (deleted' => deleted)
  BY <1>6, Zenon DEF history
<1>7. ASSUME NEW t \in Tasks, GetHit(t) \/ GetJoin(t) \/ GetCancelled(t) \/ FetchSteps(t)
      PROVE  UNCHANGED history
  BY <1>7, Zenon DEF GetHit, GetJoin, GetCancelled, FetchSteps, RedisReads, FetchMisses,
     FetchInstalls, FetchPurges, RedisPurges, FetchFails, Finish, vars, history
<1>8. ASSUME EvictL1 \/ L1Ages \/ L2Expires \/ UNCHANGED vars PROVE UNCHANGED history
  BY <1>8, Zenon DEF EvictL1, L1Ages, L2Expires, vars, history
<1>9. ~raced /\ (deleted' => deleted \/ Erasing)
  <2> HIDE DEF Erasing
  <2> QED
    BY <1>1, <1>2, <1>3, <1>4, <1>5, <1>6, <1>7, <1>8, Zenon DEF Next, WriteSteps
<1> QED
  BY <1>1, <1>2, <1>3, <1>4, <1>9, Zenon

\* A step that overlaps nothing.
Alone ==
  /\ [Next]_vars
  /\ \A t \in Tasks : GetFetch(t) => Writing = {}
  /\ \A t \in Tasks : SetBegins(t) \/ DeleteBegins(t) => Writing = {} /\ Fetching = {}
  /\ \A t \in Tasks : ~WriteFails(t)

LEMMA QuietStep == Kinds /\ Flight /\ Quiet /\ Alone => Quiet'
<1> SUFFICES ASSUME Kinds, Flight, Quiet, Alone PROVE Quiet'
  OBVIOUS
<1>1. ASSUME NEW t \in Tasks, GetFetch(t) PROVE Quiet'
  <2>1. Writing = {} /\ Writing' = {}
    BY <1>1 DEF Alone, GetFetch, Kinds, Writing
  <2>2. l1' = None /\ got' = got /\ l2' = l2
    BY <1>1 DEF GetFetch
  <2> QED
    BY <1>1, <2>1, <2>2 DEF Quiet, Writing
<1>2. ASSUME NEW t \in Tasks, GetJoin(t) \/ GetCancelled(t) PROVE Quiet'
  <2>1. Writing' = Writing /\ Fetching' = Fetching
    BY <1>2 DEF GetJoin, GetCancelled, Kinds, Writing, Fetching
  <2>2. \A u \in Tasks : pc'[u] \in {"setting", "deleting"} => pc'[u] = pc[u]
    BY <1>2 DEF GetJoin, GetCancelled, Kinds
  <2> QED
    BY <1>2, <2>1, <2>2 DEF GetJoin, GetCancelled, Quiet, layers, history
<1>3. ASSUME NEW t \in Tasks, SetBegins(t) \/ DeleteBegins(t) PROVE Quiet'
  <2>1. Writing = {} /\ Fetching = {}
    BY <1>3 DEF Alone
  <2>2. Writing' = {t} /\ Fetching' = {}
    BY <1>3, <2>1 DEF SetBegins, DeleteBegins, flight, Kinds, Writing, Fetching
  <2>3. /\ pc'[t] = "setting" => l1' = arg'[t]
        /\ pc'[t] = "deleting" => l1' = None
    BY <1>3 DEF SetBegins, DeleteBegins, Kinds
  <2>4. \A f \in Tasks : got'[f] = None
    BY <1>3, <2>1 DEF SetBegins, DeleteBegins, flight, Kinds, Fetching, Flight
  <2> QED
    BY <2>2, <2>3, <2>4, Values DEF Quiet, Writing
<1>4. ASSUME NEW t \in Tasks, RedisWrites(t) PROVE Quiet'
  <2>1. Writing = {t} /\ Writing' = {}
    BY <1>4 DEF RedisWrites, Quiet, Kinds, Writing
  <2>2. Fetching = {} /\ \A f \in Tasks : got'[f] = None
    BY <1>4, <2>1 DEF RedisWrites, Quiet, flight, Kinds, Fetching, Flight
  <2>3. l2' \in Scopes => l1' \in {None, l2'}
    BY <1>4, Values DEF RedisWrites, Target, Quiet, Writing
  <2> QED
    BY <2>1, <2>2, <2>3, Values DEF Quiet, Writing
<1>5. ASSUME NEW f \in Tasks, RedisReads(f) \/ FetchPurges(f) PROVE Quiet'
  <2>1. f \in Fetching /\ Fetching' = Fetching /\ Writing' = Writing
    BY <1>5 DEF RedisReads, FetchPurges, Kinds, Writing, Fetching
  <2>2. UNCHANGED <<l1, l2, pc, arg>>
    BY <1>5 DEF RedisReads, FetchPurges, layers
  <2>3. \A g \in Tasks : got'[g] \in {got[g], l2}
    BY <1>5 DEF RedisReads, FetchPurges, Kinds
  <2> QED
    BY <2>1, <2>2, <2>3 DEF Quiet
<1>6. ASSUME NEW f \in Tasks,
             FetchMisses(f) \/ FetchInstalls(f) \/ RedisPurges(f) \/ FetchFails(f)
      PROVE  Quiet'
  <2>1. Finish(f) /\ fetch[f] # "none"
    BY <1>6 DEF FetchMisses, FetchInstalls, RedisPurges, FetchFails
  <2>2. Writing = {}
    BY <2>1 DEF Quiet, Fetching
  <2>3. Writing' = {} /\ \A t \in Tasks : pc'[t] \notin {"setting", "deleting"}
    BY <2>1, <2>2, AnsweredKind DEF Finish, Writing
  <2>4. \A t \in Tasks : got'[t] = None
    BY <2>1, FlightEnds
  <2>5. l2' \in Scopes => l1' \in {None, l2'}
    BY <1>6, <2>2, Values DEF FetchMisses, FetchInstalls, RedisPurges, FetchFails, layers, Quiet
  <2> QED
    BY <2>3, <2>4, <2>5, Values DEF Quiet
<1>7. CASE EvictL1 \/ L1Ages \/ L2Expires
  <2>1. l1' \in {None, l1} /\ l2' \in {None, l2} /\ UNCHANGED <<got, pc, arg, fetch>>
    BY <1>7 DEF EvictL1, L1Ages, L2Expires, flight
  <2> QED
    BY <2>1, Values DEF Quiet, Writing, Fetching
<1>8. CASE UNCHANGED vars
  BY <1>8 DEF vars, Quiet, Writing, Fetching
<1> QED
  BY <1>1, <1>2, <1>3, <1>4, <1>5, <1>6, <1>7, <1>8 DEF Alone, Next, FetchSteps, WriteSteps, GetHit

\* A deleted scope stays away until a set begins.
LEMMA ErasedStep ==
  ASSUME Kinds, Flight, Erased, Alone, \A t \in Tasks : ~SetBegins(t)
  PROVE  Erased'
<1>1. ASSUME NEW t \in Tasks,
             GetFetch(t) \/ GetJoin(t) \/ GetCancelled(t) \/ DeleteBegins(t)
      PROVE  Erased'
  BY <1>1 DEF GetFetch, GetJoin, GetCancelled, DeleteBegins, layers, flight, Kinds, Erased
<1>2. ASSUME NEW t \in Tasks, RedisWrites(t) PROVE Erased'
  BY <1>2 DEF RedisWrites, Target, flight, Kinds, Erased
<1>3. ASSUME NEW f \in Tasks, RedisReads(f) \/ FetchPurges(f) PROVE Erased'
  BY <1>3 DEF RedisReads, FetchPurges, layers, Kinds, Erased
<1>4. ASSUME NEW f \in Tasks,
             FetchMisses(f) \/ FetchInstalls(f) \/ RedisPurges(f) \/ FetchFails(f)
      PROVE  Erased'
  <2>1. Finish(f) /\ fetch[f] # "none" /\ l2' = None
    BY <1>4 DEF FetchMisses, FetchInstalls, RedisPurges, FetchFails, layers, Erased
  <2>2. l1' = None
    BY <1>4, Values DEF FetchMisses, FetchInstalls, RedisPurges, FetchFails, layers, Erased
  <2>3. \A t \in Tasks : got'[t] = None
    BY <2>1, FlightEnds
  <2>4. \A t \in Tasks : pc'[t] # "setting"
    BY <2>1, AnsweredKind DEF Finish, Erased
  <2> QED
    BY <2>1, <2>2, <2>3, <2>4 DEF Erased
<1>5. CASE EvictL1 \/ L1Ages \/ L2Expires \/ UNCHANGED vars
  BY <1>5 DEF EvictL1, L1Ages, L2Expires, vars, flight, Erased
<1> QED
  BY <1>1, <1>2, <1>3, <1>4, <1>5 DEF Alone, Next, FetchSteps, WriteSteps, GetHit

LEMMA DeleteErases ==
  ASSUME Kinds, Flight, Quiet, NEW t \in Tasks, RedisWrites(t), pc[t] = "deleting"
  PROVE  Erased'
<1>1. Writing = {t} /\ Fetching = {}
  BY DEF Quiet, Writing
<1>2. l1' = None /\ l2' = None
  BY DEF RedisWrites, Target, Quiet
<1>3. \A u \in Tasks : got'[u] = None
  BY <1>1 DEF RedisWrites, flight, Fetching, Flight, Kinds
<1>4. \A u \in Tasks : pc'[u] # "setting"
  BY <1>1 DEF RedisWrites, Writing, Kinds
<1> QED
  BY <1>2, <1>3, <1>4 DEF Erased

LEMMA CalmStep == IInv /\ [Next]_vars => Calm'
<1> SUFFICES ASSUME IInv, [Next]_vars, ~raced' PROVE Quiet' /\ (deleted' => Erased')
  BY Zenon DEF Calm
<1>1. Kinds /\ Flags /\ Flight /\ Calm
  BY DEF IInv, Types
<1>2. ~raced /\ Alone
  BY <1>1, History, Zenon DEF Alone
<1>3. Quiet /\ (deleted => Erased)
  BY <1>1, <1>2, Zenon DEF Calm
<1>4. ASSUME deleted' PROVE Erased'
  <2>1. \A t \in Tasks : ~SetBegins(t)
    BY <1>1, <1>4, History, Zenon
  <2>2. deleted \/ \E t \in Tasks : RedisWrites(t) /\ pc[t] = "deleting"
    BY <1>1, <1>4, History, Zenon
  <2>3. CASE deleted
    BY <1>1, <1>2, <1>3, <2>1, <2>3, ErasedStep, Zenon
  <2>4. CASE \E t \in Tasks : RedisWrites(t) /\ pc[t] = "deleting"
    BY <1>1, <1>3, <2>4, DeleteErases, Zenon
  <2> QED
    BY <2>2, <2>3, <2>4
<1> QED
  BY <1>1, <1>2, <1>3, <1>4, QuietStep, Zenon

LEMMA IInvStep == IInv /\ [Next]_vars => IInv'
BY KindsStep, FlagsStep, FlightStep, CalmStep, Zenon DEF IInv, Types

LEMMA Invariance == Spec => []IInv
BY InitIInv, IInvStep, PTL DEF Spec

(***************************************************************************)
(* The store implements ScopeRegister                                      *)
(***************************************************************************)
\* What the refinement adds to Quiet: a fetch at work has nothing of L1 to contradict,
\* and the set at work is the last one.
Latest ==
  /\ Fetching # {} => l1 = None
  /\ \A t \in Tasks : pc[t] = "setting" => arg[t] = writes

LEMMA LatestStep == Kinds /\ Flight /\ Quiet /\ Latest /\ Alone => Latest'
<1> SUFFICES ASSUME Kinds, Flight, Quiet, Latest, Alone PROVE Latest'
  OBVIOUS
<1>1. ASSUME NEW t \in Tasks, GetFetch(t) \/ GetJoin(t) \/ GetCancelled(t) PROVE Latest'
  <2>1. l1' \in {None, l1} /\ UNCHANGED <<arg, writes>>
    BY <1>1 DEF GetFetch, GetJoin, GetCancelled, layers, history
  <2>2. \A u \in Tasks : pc'[u] = "setting" => pc[u] = "setting"
    BY <1>1 DEF GetFetch, GetJoin, GetCancelled, Kinds
  <2>3. GetFetch(t) => l1' = None
    BY DEF GetFetch
  <2>4. ~GetFetch(t) => Fetching' = Fetching
    BY <1>1 DEF GetJoin, GetCancelled, Fetching
  <2> QED
    BY <2>1, <2>2, <2>3, <2>4 DEF Latest
<1>2. ASSUME NEW t \in Tasks, SetBegins(t) PROVE Latest'
  <2>1. Writing = {} /\ Fetching' = {}
    BY <1>2 DEF Alone, SetBegins, flight, Fetching
  <2>2. \A u \in Tasks : pc'[u] = "setting" => u = t
    BY <1>2, <2>1 DEF SetBegins, Kinds, Writing
  <2>3. arg'[t] = writes'
    BY <1>2 DEF SetBegins, Kinds
  <2> QED
    BY <2>1, <2>2, <2>3 DEF Latest
<1>3. ASSUME NEW t \in Tasks, DeleteBegins(t) PROVE Latest'
  <2>1. Fetching' = {}
    BY <1>3 DEF Alone, DeleteBegins, flight, Fetching
  <2>2. \A u \in Tasks : pc'[u] = "setting" => pc[u] = "setting"
    BY <1>3 DEF DeleteBegins, Kinds
  <2> QED
    BY <1>3, <2>1, <2>2 DEF DeleteBegins, Latest
<1>4. ASSUME NEW t \in Tasks, RedisWrites(t) PROVE Latest'
  <2>1. \A u \in Tasks : pc'[u] = "setting" => u # t /\ pc[u] = "setting"
    BY <1>4 DEF RedisWrites, Kinds
  <2>2. \A u \in Tasks : u # t => arg'[u] = arg[u]
    BY <1>4 DEF RedisWrites, Kinds
  <2> QED
    BY <1>4, <2>1, <2>2 DEF RedisWrites, Latest, Fetching, flight
<1>5. ASSUME NEW f \in Tasks, RedisReads(f) \/ FetchPurges(f) PROVE Latest'
  <2>1. Fetching' = Fetching
    BY <1>5 DEF RedisReads, FetchPurges, Kinds, Fetching
  <2> QED
    BY <1>5, <2>1 DEF RedisReads, FetchPurges, layers, history, Latest
<1>6. ASSUME NEW f \in Tasks,
             FetchMisses(f) \/ FetchInstalls(f) \/ RedisPurges(f) \/ FetchFails(f)
      PROVE  Latest'
  <2>1. Finish(f) /\ fetch[f] # "none"
    BY <1>6 DEF FetchMisses, FetchInstalls, RedisPurges, FetchFails
  <2>2. Fetching' = {}
    BY <2>1, FlightEnds DEF Finish, Flight
  <2>3. \A u \in Tasks : pc'[u] = "setting" => pc[u] = "setting"
    BY <2>1, AnsweredKind DEF Finish
  <2> QED
    BY <2>1, <2>2, <2>3 DEF Finish, Latest, history
<1>7. CASE EvictL1 \/ L1Ages \/ L2Expires \/ UNCHANGED vars
  <2>1. l1' \in {None, l1} /\ UNCHANGED <<fetch, pc, arg, writes>>
    BY <1>7 DEF EvictL1, L1Ages, L2Expires, vars, flight, history
  <2> QED
    BY <2>1 DEF Latest, Fetching
<1> QED
  BY <1>1, <1>2, <1>3, <1>4, <1>5, <1>6, <1>7 DEF Alone, Next, FetchSteps, WriteSteps, GetHit

CalmLatest == ~raced => Latest

LEMMA CalmLatestStep == IInv /\ CalmLatest /\ [Next]_vars => CalmLatest'
<1> SUFFICES ASSUME IInv, CalmLatest, [Next]_vars, ~raced' PROVE Latest'
  BY Zenon DEF CalmLatest
<1>1. Kinds /\ Flags /\ Flight /\ Calm
  BY DEF IInv, Types
<1>2. ~raced /\ Alone
  BY <1>1, History, Zenon DEF Alone
<1>3. Quiet /\ Latest
  BY <1>1, <1>2, Zenon DEF Calm, CalmLatest
<1> QED
  BY <1>1, <1>2, <1>3, LatestStep, Zenon

LEMMA CalmLatestInvariant == Spec => [](IInv /\ CalmLatest)
<1>1. Init => CalmLatest
  BY DEF Init, CalmLatest, Latest, Fetching
<1> QED
  BY <1>1, CalmLatestStep, InitIInv, IInvStep, PTL DEF Spec

\* Between writes all copies that are left are of one scope, and that is the one held.
OneScope ==
  /\ \A u, v \in Kept : u = v
  /\ (Held = None /\ Kept = {}) \/ Kept = {Held}
  /\ Cached \in {None, Held}

LEMMA OneScopeHeld == Kinds /\ Flight /\ Quiet /\ Latest /\ Writing = {} => OneScope
<1> SUFFICES ASSUME Kinds, Flight, Quiet, Latest, Writing = {} PROVE OneScope
  OBVIOUS
<1>1. \A u, v \in Kept : u = v
  <2>1. \A f \in Tasks : got[f] \in Scopes => f \in Fetching
    BY Values DEF Flight, Fetching
  <2>2. \A f, g \in Fetching : f = g
    BY DEF Flight
  <2>3. l2 \in Scopes /\ Cached \in Scopes => l2 = Cached
    BY Values DEF Quiet, Cached
  <2>4. \A f \in Tasks : got[f] \in Scopes /\ l2 \in Scopes => l2 = got[f]
    BY DEF Quiet
  <2>5. \A f \in Tasks : got[f] \in Scopes => Cached \notin Scopes
    BY <2>1, Values DEF Latest, Cached
  <2> QED
    BY <2>1, <2>2, <2>3, <2>4, <2>5 DEF Kept
<1>2. \A t \in Tasks : pc[t] # "setting"
  BY DEF Writing
<1>3. Held = IF Kept = {} THEN None ELSE CHOOSE s \in Kept : TRUE
  BY <1>2 DEF Held
<1>4. Kept = {} => Held = None
  BY <1>3
<1>5. Kept # {} => Kept = {Held}
  <2>1. Kept # {} => Held \in Kept
    BY <1>3
  <2> QED
    BY <1>1, <2>1
<1>6. Cached \in Scopes => Cached \in Kept
  BY DEF Kept
<1>7. Cached \in {None} \union Scopes
  BY DEF Kinds, Cached
<1> QED
  BY <1>1, <1>4, <1>5, <1>6, <1>7 DEF OneScope

LEMMA OneScopeNext == (Kinds /\ Flight /\ Quiet /\ Latest /\ Writing = {})' => OneScope'
BY OneScopeHeld, PTL

\* Away from writes copies only spread and vanish.
LEMMA CopiesSpread ==
  ASSUME Kinds, Flight, Quiet, Latest, Writing = {}, Quiet', Latest', Kinds', Flight',
         Writing' = {}, Kept' \subseteq Kept, UNCHANGED writes, raced' = raced
  PROVE  Register!RegisterNext \/ UNCHANGED Register!registerVars
<1>1. OneScope /\ OneScope'
  BY OneScopeHeld, OneScopeNext
<1>2. Held' \in {None, Held} /\ Cached' \in {None, Held'}
  BY <1>1 DEF OneScope
<1>3. CASE Held' = None
  BY <1>2, <1>3 DEF Register!RegisterNext, Register!Erase
<1>4. CASE Held' = Held
  BY <1>2, <1>4 DEF Register!RegisterNext, Register!Show, Register!Hide
<1> QED
  BY <1>2, <1>3, <1>4

\* While a write is at work alone, nothing but its own scope is held or shown.
LEMMA UnderWrite ==
  ASSUME Kinds, Quiet, Latest, NEW t \in Tasks, t \in Writing
  PROVE  /\ pc[t] = "setting" => Held = writes /\ l1 \in {None, writes}
         /\ pc[t] = "deleting" => Held = None /\ l1 = None
<1>1. \A u \in Tasks : u \in Writing => u = t
  BY DEF Quiet
<1>2. \A u \in Tasks : pc[u] = "setting" => u = t
  BY <1>1 DEF Writing
<1>3. pc[t] = "setting" => Held = writes
  BY DEF Held
<1>4. pc[t] = "deleting" => Held = None
  BY <1>2 DEF Held
<1> QED
  BY <1>3, <1>4 DEF Quiet, Latest

\* A step without overlap is one of the register.
LEMMA AloneImplements ==
  ASSUME Kinds, Flight, Quiet, Latest, Kinds', Flight', Quiet', Latest', Alone,
         raced' = raced
  PROVE  Register!RegisterNext \/ UNCHANGED Register!registerVars
<1>1. ASSUME NEW t \in Tasks, SetBegins(t) PROVE Register!Set
  <2>1. pc'[t] = "setting" /\ l1' = writes + 1 /\ writes' = writes + 1 /\ age' = 0
    BY <1>1 DEF SetBegins, Kinds
  <2>2. Held' = writes'
    BY <2>1 DEF Held
  <2>3. Cached' = writes + 1
    BY <2>1 DEF Cached, Expired
  <2> QED
    BY <2>1, <2>2, <2>3 DEF Register!Set
<1>2. ASSUME NEW t \in Tasks, DeleteBegins(t) PROVE Register!Erase
  <2>4. Writing = {}
    BY <1>2 DEF Alone
  <2>1. Writing' = {t} /\ pc'[t] = "deleting" /\ l1' = None /\ UNCHANGED writes
    BY <1>2, <2>4 DEF DeleteBegins, Kinds, Writing
  <2>2. \A u \in Tasks : pc'[u] # "setting"
    <3>1. \A u \in Tasks : pc'[u] = "setting" => u \in Writing'
      BY DEF Writing
    <3> QED
      BY <2>1, <3>1
  <2>3. Held' = None /\ Cached' = None
    BY <2>1, <2>2 DEF Held, Cached
  <2> QED
    BY <2>1, <2>3 DEF Register!Erase
<1>3. ASSUME NEW t \in Tasks, RedisWrites(t)
      PROVE  Register!RegisterNext \/ UNCHANGED Register!registerVars
  <2>1. t \in Writing /\ Writing' = {} /\ Fetching = {}
    BY <1>3 DEF RedisWrites, Quiet, Kinds, Writing
  <2>2. l1' = l1 /\ age' = age /\ l2' = Target(t) /\ got' = got /\ writes' = writes
    BY <1>3 DEF RedisWrites, flight
  <2>3. \A f \in Tasks : got[f] = None
    BY <2>1 DEF Flight, Fetching
  <2>4. Kept' = {Target(t), Cached} \intersect Scopes
    BY <2>2, <2>3, Values DEF Kept, Cached
  <2>5. Cached \in {None, l1} /\ Cached' = Cached
    BY <2>2 DEF Cached
  <2>8. OneScope'
    BY <2>1, OneScopeNext
  <2>6. CASE pc[t] = "setting"
    <3>1. Held = writes /\ Cached \in {None, writes} /\ Target(t) \in {None, writes}
      BY <2>1, <2>5, <2>6, UnderWrite DEF Latest, Target
    <3>2. Held' \in {None, Held} /\ Cached' \in {None, Held'}
      BY <2>4, <2>8, <3>1, Values DEF OneScope
    <3>4. CASE Held' = None
      BY <2>2, <3>2, <3>4 DEF Register!RegisterNext, Register!Erase
    <3>5. CASE Held' = Held
      BY <2>2, <2>5, <3>5 DEF Register!registerVars
    <3> QED
      BY <3>2, <3>4, <3>5
  <2>7. CASE pc[t] = "deleting"
    <3>1. Held = None /\ Cached = None /\ Target(t) = None
      BY <2>1, <2>5, <2>7, UnderWrite DEF Target
    <3>2. Held' = None
      BY <2>4, <2>8, <3>1, Values DEF OneScope
    <3> QED
      BY <2>2, <2>5, <3>1, <3>2 DEF Register!registerVars
  <2> QED
    BY <2>1, <2>6, <2>7 DEF Writing
<1>4. ASSUME UNCHANGED <<writes, pc>>, Writing # {}, Cached' \in {None, Cached}
      PROVE  Register!RegisterNext \/ UNCHANGED Register!registerVars
  <2>1. Held' = Held
    BY <1>4 DEF Held, Writing
  <2> QED
    BY <1>4, <2>1 DEF Register!RegisterNext, Register!Hide, Register!registerVars
<1>5. ASSUME NEW t \in Tasks, GetFetch(t) \/ GetJoin(t) \/ GetCancelled(t) \/ FetchSteps(t)
      PROVE  Writing = {} /\ Writing' = {}
  <2>1. Writing = {}
    <3>1. GetJoin(t) => Fetching # {}
      BY DEF GetJoin, Flight
    <3>2. GetCancelled(t) => Fetching # {}
      BY DEF GetCancelled, Flight
    <3>3. FetchSteps(t) => Fetching # {}
      BY DEF FetchSteps, RedisReads, FetchMisses, FetchInstalls, FetchPurges, RedisPurges,
             FetchFails, Fetching
    <3> QED
      BY <1>5, <3>1, <3>2, <3>3 DEF Alone, Quiet
  <2>2. \A u \in Tasks : pc'[u] \in {"setting", "deleting"} => pc'[u] = pc[u]
    BY <1>5, AnsweredKind
       DEF GetFetch, GetJoin, GetCancelled, FetchSteps, RedisReads, FetchMisses, FetchInstalls,
           FetchPurges, RedisPurges, FetchFails, Finish, Kinds
  <2> QED
    BY <2>1, <2>2 DEF Writing
<1>6. ASSUME NEW t \in Tasks, GetFetch(t) \/ GetJoin(t) \/ GetCancelled(t)
      PROVE  Kept' \subseteq Kept /\ UNCHANGED writes
  <2>1. Cached' \in {None, Cached} /\ UNCHANGED <<l2, got, writes>>
    BY <1>6 DEF GetFetch, GetJoin, GetCancelled, layers, history, Cached
  <2> QED
    BY <2>1, Values DEF Kept
<1>7. ASSUME NEW f \in Tasks, FetchSteps(f)
      PROVE  Kept' \subseteq Kept /\ UNCHANGED writes
  <2>1. l2' \in {None, l2} /\ Cached' \in {Cached, got[f], None} /\ UNCHANGED writes
    BY <1>7 DEF FetchSteps, RedisReads, FetchMisses, FetchInstalls, FetchPurges, RedisPurges,
       FetchFails, Finish, layers, history, Cached
  <2>2. \A g \in Tasks : got'[g] \in {None, got[g], l2}
    BY <1>7 DEF FetchSteps, RedisReads, FetchMisses, FetchInstalls, FetchPurges, RedisPurges,
       FetchFails, Finish, Kinds
  <2> QED
    BY <2>1, <2>2, Values DEF Kept
<1>8. ASSUME EvictL1 \/ L1Ages \/ L2Expires \/ UNCHANGED vars
      PROVE  /\ Kept' \subseteq Kept /\ UNCHANGED <<writes, pc>>
             /\ Cached' \in {None, Cached} /\ Writing' = Writing
  <2>1. l2' \in {None, l2} /\ Cached' \in {Cached, None} /\ UNCHANGED <<writes, pc, got>>
    BY <1>8 DEF EvictL1, L1Ages, L2Expires, vars, flight, history, Cached, Expired, Kinds
  <2> QED
    BY <2>1, Values DEF Kept, Writing
<1>9. CASE \E t \in Tasks : GetFetch(t) \/ GetJoin(t) \/ GetCancelled(t) \/ FetchSteps(t)
  BY <1>5, <1>6, <1>7, <1>9, CopiesSpread
<1>10. CASE EvictL1 \/ L1Ages \/ L2Expires \/ UNCHANGED vars
  <2>1. CASE Writing = {}
    BY <1>8, <1>10, <2>1, CopiesSpread
  <2>2. CASE Writing # {}
    BY <1>4, <1>8, <1>10, <2>2
  <2> QED
    BY <2>1, <2>2
<1> QED
  BY <1>1, <1>2, <1>3, <1>9, <1>10, Zenon
     DEF Alone, Next, WriteSteps, GetHit, Register!RegisterNext

LEMMA InitHolds == Init => Register!RegisterInit
<1> SUFFICES ASSUME Init PROVE Register!RegisterInit
  OBVIOUS
<1>1. Kept = {}
  BY Values DEF Init, Kept, Cached
<1>2. Held = None /\ Cached = None
  BY <1>1 DEF Init, Held, Cached
<1>3. raced = FALSE
  BY DEF Init
<1> QED
  BY <1>2, <1>3 DEF Init, Register!RegisterInit, None

LEMMA StepImplements ==
  (IInv /\ CalmLatest) /\ (IInv /\ CalmLatest)' /\ [Next]_vars
    => [Register!RegisterNext]_(Register!registerVars)
<1> SUFFICES ASSUME IInv, CalmLatest, IInv', CalmLatest', [Next]_vars
             PROVE  Register!RegisterNext \/ UNCHANGED Register!registerVars
  OBVIOUS
<1>a. Kinds /\ Flags /\ Flight /\ Calm /\ Kinds' /\ Flags' /\ Flight' /\ Calm'
  BY DEF IInv, Types
<1>1. CASE raced'
  <2>1. raced' = TRUE
    BY <1>1, <1>a, Zenon DEF Flags
  <2>2. writes' \in {writes, writes + 1}
    BY DEF Next, vars, history, GetHit, GetFetch, GetJoin, GetCancelled, FetchSteps,
       RedisReads, FetchMisses, FetchInstalls, FetchPurges, RedisPurges, FetchFails, Finish,
       SetBegins, DeleteBegins, WriteSteps, RedisWrites, WriteFails, EvictL1, L1Ages, L2Expires
  <2> QED
    BY <2>1, <2>2, Zenon DEF Register!RegisterNext, Register!Loosen
<1>2. CASE ~raced'
  <2>a. ~raced /\ Alone
    BY <1>a, <1>2, History, Zenon DEF Alone
  <2>b. Quiet /\ Latest /\ Quiet' /\ Latest'
    BY <1>a, <1>2, <2>a, Zenon DEF Calm, CalmLatest
  <2>c. raced' = raced
    BY <1>a, <1>2, <2>a, Zenon DEF Flags
  <2> QED
    BY <1>a, <2>a, <2>b, <2>c, AloneImplements
<1> QED
  BY <1>1, <1>2

(***************************************************************************)
(* Theorems                                                                *)
(***************************************************************************)
\* Types, for every number of tasks and writes: nothing undecodable enters L1.
THEOREM StoreTypes == Spec => []TypeOK
<1>1. IInv => TypeOK
  BY DEF IInv, Types, Kinds, Flags, TypeOK
<1> QED
  BY <1>1, Invariance, PTL

\* The single flight: at most one fetch, registered as long as it is at work, and
\* awaited by every getter, whoever is cancelled and whatever fails.
THEOREM SingleFetch == Spec => []OneFetch
<1>1. IInv => OneFetch
  <2> SUFFICES ASSUME IInv PROVE OneFetch
    OBVIOUS
  <2>1. Flight
    BY DEF IInv
  <2>2. Cardinality(inflight) <= 1
    <3>1. inflight = {} \/ \E f \in inflight : inflight = {f}
      BY <2>1 DEF Flight
    <3> QED
      BY <3>1, FS_EmptySet, FS_Singleton
  <2> QED
    BY <2>1, <2>2 DEF Flight, OneFetch
<1> QED
  BY <1>1, Invariance, PTL

\* As long as no write overlaps a call or fails, the layers agree and a delete
\* leaves nothing behind, whatever fetches, expiries and evictions do.
THEOREM LayersAgree == Spec => []AgreeUnlessRaced
<1>1. IInv => AgreeUnlessRaced
  <2> SUFFICES ASSUME IInv, ~raced, Writing = {}
               PROVE  /\ l2 \in Scopes => Cached \in {None, l2}
                      /\ deleted => Cached = None /\ l2 = None
    BY Zenon DEF AgreeUnlessRaced
  <2>1. Quiet /\ (deleted => Erased)
    BY Zenon DEF IInv, Calm
  <2>2. l2 \in Scopes => Cached \in {None, l2}
    BY <2>1 DEF Quiet, Cached
  <2>3. ASSUME deleted PROVE Cached = None /\ l2 = None
    <3>1. Erased
      BY <2>1, <2>3, Zenon
    <3> QED
      BY <3>1 DEF Erased, Cached
  <2> QED
    BY <2>2, <2>3
<1> QED
  BY <1>1, Invariance, PTL

\* As long as no write overlaps another call or fails, the store is a register that
\* may forget: a get obtains the scope of the last set or nothing, and what was
\* deleted or has expired in all layers never comes back.
THEOREM StoreImplementsRegister == Spec => ImplementsRegister
<1>1. Init => Register!RegisterInit
  BY InitHolds
<1> QED
  BY <1>1, StepImplements, CalmLatestInvariant, PTL
     DEF Spec, ImplementsRegister, Register!RegisterSpec

\* A getter in the single flight awaits a fetch that is at work.
THEOREM FetchesAreAwaited == Spec => []GettersAwaitWork
<1>1. IInv => GettersAwaitWork
  <2> SUFFICES ASSUME Flight, NEW t \in Tasks, pc[t] = "getting"
               PROVE  \E f \in Fetching : awaits[t] = {f}
    BY DEF IInv, GettersAwaitWork
  <2>1. awaits[t] = inflight /\ inflight # {} /\ Fetching = inflight
    BY DEF Flight
  <2>2. PICK f \in inflight : inflight = {f}
    BY <2>1 DEF Flight
  <2> QED
    BY <2>1, <2>2
<1> QED
  BY <1>1, Invariance, PTL
=============================================================================
