-------------------------- MODULE DuckDBPoolProofs --------------------------
(* Theorems about DuckDBPool, for every number of users, closers and           *)
(* connections and every pool size.                                            *)
EXTENDS DuckDBPool, FiniteSetTheorems, TLAPS

(***************************************************************************)
(* The inductive invariant                                                 *)
(***************************************************************************)
Types ==
  /\ pool \subseteq Conns /\ Cardinality(pool) <= PoolSize
  /\ created \in 0..PoolSize
  /\ pc \in [Users -> {"idle", "missed", "blocked", "using", "lowering"}]
  /\ held \in [Users -> SUBSET Conns]
  /\ closer \in [Closers -> {"open", "draining", "drained", "closed"}]
  /\ forgotten \in Nat

OneEach == \A u \in Users : held[u] = {} \/ \E c \in Conns : held[u] = {c}

Lowering == {u \in Users : pc[u] = "lowering"}

\* Users that closed a connection and have yet to lower the counter are counted
\* in; there are only as many as connections were forgotten, since the queue can
\* only be full when more connections are open than the counter allows.
Counted ==
  /\ Cardinality(Live) + Cardinality(Lowering) <= created + forgotten
  /\ Cardinality(Lowering) <= forgotten

IInv == Types /\ OneEach /\ Exclusive /\ Counted

\* Until the first close the counter is not an upper bound only.
Exact ==
  /\ created = Cardinality(Live)
  /\ \A u \in Users : pc[u] # "lowering"
  /\ \A u \in Users : pc[u] = "blocked" => created = PoolSize

(***************************************************************************)
(* Sets of connections                                                     *)
(***************************************************************************)
LEMMA ConnCard ==
  ASSUME NEW S \in SUBSET Conns
  PROVE  /\ IsFiniteSet(S) /\ Cardinality(S) \in Nat
         /\ \A c : c \notin S => Cardinality(S \union {c}) = Cardinality(S) + 1
         /\ \A c : c \in S => Cardinality(S \ {c}) = Cardinality(S) - 1
<1>1. IsFiniteSet(S)
  BY PoolAssumption, FS_Subset
<1> QED
  BY <1>1, FS_CardinalityType, FS_AddElement, FS_RemoveElement

LEMMA UserCard ==
  ASSUME NEW S \in SUBSET Users
  PROVE  /\ IsFiniteSet(S) /\ Cardinality(S) \in Nat
         /\ \A u : u \notin S => Cardinality(S \union {u}) = Cardinality(S) + 1
         /\ \A u : u \in S => Cardinality(S \ {u}) = Cardinality(S) - 1
<1>1. IsFiniteSet(S)
  BY PoolAssumption, FS_Subset
<1> QED
  BY <1>1, FS_CardinalityType, FS_AddElement, FS_RemoveElement

Others(u) == UNION {held[v] : v \in Users \ {u}}

LEMMA OutOf ==
  ASSUME Types, NEW u \in Users
  PROVE  /\ Out = held[u] \union Others(u)
         /\ Live \in SUBSET Conns
         /\ Exclusive => held[u] \intersect Others(u) = {}
BY DEF Types, Out, Live, Others, Exclusive

LEMMA OutAfter ==
  ASSUME Types, NEW u \in Users, NEW S, held' = [held EXCEPT ![u] = S]
  PROVE  Out' = S \union Others(u)
<1>1. held'[u] = S /\ \A v \in Users \ {u} : held'[v] = held[v]
  BY DEF Types
<1> QED
  BY <1>1 DEF Out, Others

\* How each step changes the set of open connections.
LEMMA LiveMoves ==
  ASSUME IInv, NEW u \in Users
  PROVE  /\ TakeIdle(u) \/ TakeReturned(u) \/ Release(u) => Live' = Live
         /\ Miss(u) \/ CreateFails(u) \/ Exhausted(u) \/ Lower(u) => Live' = Live
         /\ Create(u) => \E c \in Conns \ Live : Live' = Live \union {c}
         /\ Overflow(u) => \E c \in Live : Live' = Live \ {c} /\ c \notin pool
<1>1. Types /\ Exclusive /\ OneEach
  BY DEF IInv
<1>2. /\ Out = held[u] \union Others(u)
      /\ held[u] \intersect Others(u) = {} /\ held[u] \intersect pool = {}
  BY <1>1, OutOf DEF Exclusive
<1>3. ASSUME TakeIdle(u) \/ TakeReturned(u) PROVE Live' = Live
  <2>1. held[u] = {}
    BY <1>1, <1>3 DEF TakeIdle, TakeReturned, Exclusive
  <2>2. PICK c \in pool : pool' = pool \ {c} /\ held' = [held EXCEPT ![u] = {c}]
    BY <1>3 DEF TakeIdle, TakeReturned, Take
  <2>3. Out' = {c} \union Others(u)
    BY <1>1, <2>2, OutAfter
  <2> QED
    BY <1>2, <2>1, <2>2, <2>3 DEF Live
<1>4. ASSUME Release(u) PROVE Live' = Live
  <2>1. Out' = {} \union Others(u)
    BY <1>1, <1>4, OutAfter DEF Release
  <2> QED
    BY <1>2, <1>4, <2>1 DEF Release, Live
<1>5. ASSUME Miss(u) \/ CreateFails(u) \/ Exhausted(u) \/ Lower(u) PROVE Live' = Live
  BY <1>5 DEF Miss, CreateFails, Exhausted, Lower, Live, Out
<1>6. ASSUME Create(u) PROVE \E c \in Conns \ Live : Live' = Live \union {c}
  <2>1. held[u] = {}
    BY <1>1, <1>6 DEF Create, Exclusive
  <2>2. PICK c \in Conns \ Live : held' = [held EXCEPT ![u] = {c}]
    BY <1>6 DEF Create
  <2>3. Out' = {c} \union Others(u)
    BY <1>1, <2>2, OutAfter
  <2>4. Live' = Live \union {c}
    BY <1>2, <1>6, <2>1, <2>3 DEF Create, Live
  <2> QED
    BY <2>4
<1>7. ASSUME Overflow(u) PROVE \E c \in Live : Live' = Live \ {c} /\ c \notin pool
  <2>1. PICK c \in Conns : held[u] = {c}
    BY <1>1, <1>7 DEF Overflow, Exclusive, OneEach
  <2>2. Out' = {} \union Others(u)
    BY <1>1, <1>7, OutAfter DEF Overflow
  <2>3. Live' = Live \ {c} /\ c \in Live /\ c \notin pool
    BY <1>2, <1>7, <2>1, <2>2 DEF Overflow, Live
  <2> QED
    BY <2>3
<1> QED
  BY <1>3, <1>4, <1>5, <1>6, <1>7

LEMMA InitIInv == Init => IInv /\ Exact
<1> SUFFICES ASSUME Init PROVE IInv /\ Exact
  OBVIOUS
<1>1. Live = {}
  BY DEF Init, Live, Out
<1>3. Lowering = {}
  BY DEF Init, Lowering
<1>2. Cardinality(Live) = 0 /\ Cardinality(pool) = 0 /\ Cardinality(Lowering) = 0
  BY <1>1, <1>3, FS_EmptySet DEF Init
<1> QED
  BY <1>2, PoolAssumption DEF Init, IInv, Types, OneEach, Exclusive, Counted, Exact

(***************************************************************************)
(* Types and exclusive use                                                 *)
(***************************************************************************)
LEMMA UseStep == Types /\ OneEach /\ Exclusive /\ [Next]_vars
                   => Types' /\ OneEach' /\ Exclusive'
<1> SUFFICES ASSUME Types, OneEach, Exclusive, [Next]_vars
             PROVE  Types' /\ OneEach' /\ Exclusive'
  OBVIOUS
<1>c. Cardinality(pool) \in Nat
  BY ConnCard DEF Types
<1>1. ASSUME NEW u \in Users, TakeIdle(u) \/ TakeReturned(u)
      PROVE  Types' /\ OneEach' /\ Exclusive'
  <2>1. PICK c \in pool : /\ pool' = pool \ {c}
                          /\ held' = [held EXCEPT ![u] = {c}]
                          /\ pc' = [pc EXCEPT ![u] = "using"]
                          /\ UNCHANGED <<created, closer, forgotten>>
    BY <1>1 DEF TakeIdle, TakeReturned, Take
  <2>2. Cardinality(pool') <= PoolSize
    BY <1>c, <2>1, ConnCard, PoolAssumption DEF Types
  <2>3. Types' /\ OneEach'
    BY <2>1, <2>2 DEF Types, OneEach
  <2>4. Exclusive'
    BY <2>1 DEF Types, Exclusive
  <2> QED
    BY <2>3, <2>4
<1>2. ASSUME NEW u \in Users, Create(u) PROVE Types' /\ OneEach' /\ Exclusive'
  <2>1. PICK c \in Conns \ Live : held' = [held EXCEPT ![u] = {c}]
    BY <1>2 DEF Create
  <2>2. Types' /\ OneEach'
    BY <1>2, <2>1, PoolAssumption DEF Create, Types, OneEach
  <2>3. c \notin pool /\ \A v \in Users : c \notin held[v]
    BY DEF Live, Out
  <2>4. Exclusive'
    BY <1>2, <2>1, <2>3 DEF Create, Types, Exclusive
  <2> QED
    BY <2>2, <2>4
<1>3. ASSUME NEW u \in Users, Miss(u) \/ CreateFails(u) \/ Exhausted(u)
      PROVE  Types' /\ OneEach' /\ Exclusive'
  BY <1>3 DEF Miss, CreateFails, Exhausted, Types, OneEach, Exclusive
<1>4. ASSUME NEW u \in Users, Release(u) PROVE Types' /\ OneEach' /\ Exclusive'
  <2>1. PICK c \in Conns : held[u] = {c} /\ c \notin pool
    BY <1>4 DEF Release, Exclusive, OneEach
  <2>2. Cardinality(pool') = Cardinality(pool) + 1
    BY <1>4, <2>1, ConnCard DEF Release, Types
  <2>3. Types' /\ OneEach'
    BY <1>c, <1>4, <2>1, <2>2, PoolAssumption DEF Release, Types, OneEach
  <2>4. Exclusive'
    BY <1>4, <2>1 DEF Release, Types, Exclusive
  <2> QED
    BY <2>3, <2>4
<1>5. ASSUME NEW u \in Users, Overflow(u) PROVE Types' /\ OneEach' /\ Exclusive'
  BY <1>5 DEF Overflow, Types, OneEach, Exclusive
<1>6. ASSUME NEW u \in Users, Lower(u) PROVE Types' /\ OneEach' /\ Exclusive'
  BY <1>6, PoolAssumption DEF Lower, Types, OneEach, Exclusive
<1>7. ASSUME NEW c \in Closers, Drain(c) PROVE Types' /\ OneEach' /\ Exclusive'
  <2>1. PICK k \in pool : pool' = pool \ {k}
    BY <1>7 DEF Drain
  <2>2. Cardinality(pool') <= PoolSize
    BY <1>c, <2>1, ConnCard, PoolAssumption DEF Types
  <2> QED
    BY <1>7, <2>1, <2>2 DEF Drain, Types, OneEach, Exclusive
<1>8. ASSUME NEW c \in Closers, StartClose(c) \/ Drained(c)
      PROVE  Types' /\ OneEach' /\ Exclusive'
  BY <1>8 DEF StartClose, Drained, Types, OneEach, Exclusive
<1>9. ASSUME NEW c \in Closers, Reset(c) PROVE Types' /\ OneEach' /\ Exclusive'
  <2>1. Cardinality(Live) \in Nat
    <3>1. Live \in SUBSET Conns
      BY DEF Types, Live, Out
    <3> QED
      BY <3>1, ConnCard
  <2> QED
    BY <1>9, <2>1, PoolAssumption DEF Reset, Types, OneEach, Exclusive
<1>10. CASE UNCHANGED vars
  BY <1>10 DEF vars, Types, OneEach, Exclusive
<1> QED
  BY <1>1, <1>2, <1>3, <1>4, <1>5, <1>6, <1>7, <1>8, <1>9, <1>10
     DEF Next, Acquire, GiveBack, EndClose

(***************************************************************************)
(* The counter                                                             *)
(***************************************************************************)
LEMMA Sizes ==
  ASSUME IInv
  PROVE  /\ Live \in SUBSET Conns /\ Lowering \in SUBSET Users
         /\ Cardinality(Live) \in Nat /\ Cardinality(Lowering) \in Nat
         /\ created \in Nat /\ created <= PoolSize /\ forgotten \in Nat
<1>1. Types
  BY DEF IInv
<1>2. Live \in SUBSET Conns /\ Lowering \in SUBSET Users
  BY <1>1 DEF Types, Live, Out, Lowering
<1> QED
  BY <1>1, <1>2, ConnCard, UserCard, PoolAssumption DEF Types

\* The queue is full only when more connections are open than it holds.
LEMMA FullMeansMore ==
  ASSUME IInv, NEW u \in Users, Overflow(u)
  PROVE  Cardinality(Live) >= PoolSize + 1
<1>t. Types /\ OneEach /\ Exclusive
  BY DEF IInv
<1>1. PICK c \in Conns : held[u] = {c} /\ c \notin pool
  BY <1>t DEF Overflow, OneEach, Exclusive
<1>2. pool \union {c} \in SUBSET Live
  BY <1>1 DEF Live, Out
<1>3. IsFiniteSet(Live) /\ Cardinality(Live) \in Nat
  BY Sizes, ConnCard
<1>4. Cardinality(pool \union {c}) <= Cardinality(Live)
  BY <1>2, <1>3, FS_Subset
<1>5. Cardinality(pool \union {c}) = Cardinality(pool) + 1 /\ Cardinality(pool) \in Nat
  BY <1>t, <1>1, ConnCard DEF Types
<1> QED
  BY <1>3, <1>4, <1>5, PoolAssumption DEF Overflow

\* How each step moves what the counter is compared with.
LEMMA CounterMoves ==
  ASSUME IInv, [Next]_vars
  PROVE  \/ /\ Cardinality(Live') <= Cardinality(Live)
            /\ UNCHANGED <<created, forgotten, Lowering>>
            /\ Unclosed => Live' = Live
            /\ \A u \in Users : pc'[u] = "blocked" => pc[u] = "blocked" \/ created >= PoolSize
         \/ \E u \in Users : /\ Create(u)
                             /\ Cardinality(Live') = Cardinality(Live) + 1
                             /\ Lowering' = Lowering
         \/ \E u \in Users : /\ Overflow(u)
                             /\ Cardinality(Live') = Cardinality(Live) - 1
                             /\ Cardinality(Lowering') = Cardinality(Lowering) + 1
         \/ \E u \in Users : /\ Lower(u)
                             /\ Live' = Live
                             /\ Cardinality(Lowering') = Cardinality(Lowering) - 1
         \/ \E c \in Closers : Reset(c) /\ Live' = Live /\ Lowering' = Lowering
<1> DEFINE Same == /\ Cardinality(Live') <= Cardinality(Live)
                   /\ UNCHANGED <<created, forgotten, Lowering>>
                   /\ Unclosed => Live' = Live
                   /\ \A u \in Users : pc'[u] = "blocked" =>
                        pc[u] = "blocked" \/ created >= PoolSize
<1>t. Types
  BY DEF IInv
<1>l. /\ Live \in SUBSET Conns /\ Lowering \in SUBSET Users
      /\ Cardinality(Live) \in Nat /\ Cardinality(Lowering) \in Nat
  BY Sizes
<1>1. ASSUME NEW u \in Users, \/ TakeIdle(u) \/ TakeReturned(u) \/ Miss(u)
                              \/ CreateFails(u) \/ Exhausted(u) \/ Release(u)
      PROVE  Same
  <2>1. Live' = Live
    BY <1>1, LiveMoves
  <2>2. UNCHANGED <<created, forgotten>>
    BY <1>1 DEF TakeIdle, TakeReturned, Take, Miss, CreateFails, Exhausted, Release
  <2>3. Lowering' = Lowering
    BY <1>t, <1>1 DEF TakeIdle, TakeReturned, Take, Miss, CreateFails, Exhausted, Release,
                      Types, Lowering
  <2>4. \A v \in Users : pc'[v] = "blocked" => pc[v] = "blocked" \/ created >= PoolSize
    BY <1>t, <1>1 DEF TakeIdle, TakeReturned, Take, Miss, CreateFails, Exhausted, Release,
                      Types
  <2>5. Cardinality(Live') <= Cardinality(Live)
    BY <1>l, <2>1
  <2> QED
    BY <2>1, <2>2, <2>3, <2>4, <2>5
<1>2. ASSUME NEW u \in Users, Create(u)
      PROVE  Cardinality(Live') = Cardinality(Live) + 1 /\ Lowering' = Lowering
  <2>1. PICK c \in Conns \ Live : Live' = Live \union {c}
    BY <1>2, LiveMoves
  <2>2. Lowering' = Lowering
    BY <1>t, <1>2 DEF Create, Types, Lowering
  <2> QED
    BY <1>l, <2>1, <2>2, ConnCard
<1>3. ASSUME NEW u \in Users, Overflow(u)
      PROVE  /\ Cardinality(Live') = Cardinality(Live) - 1
             /\ Cardinality(Lowering') = Cardinality(Lowering) + 1
  <2>1. PICK c \in Live : Live' = Live \ {c}
    BY <1>3, LiveMoves
  <2>2. Lowering' = Lowering \union {u} /\ u \notin Lowering
    BY <1>t, <1>3 DEF Overflow, Types, Lowering
  <2> QED
    BY <1>l, <2>1, <2>2, ConnCard, UserCard
<1>4. ASSUME NEW u \in Users, Lower(u)
      PROVE  Live' = Live /\ Cardinality(Lowering') = Cardinality(Lowering) - 1
  <2>1. Live' = Live
    BY <1>4, LiveMoves
  <2>2. Lowering' = Lowering \ {u} /\ u \in Lowering
    BY <1>t, <1>4 DEF Lower, Types, Lowering
  <2> QED
    BY <1>l, <2>1, <2>2, UserCard
<1>5. ASSUME NEW c \in Closers, Drain(c) PROVE Same
  <2>1. Live' \in SUBSET Live
    BY <1>5 DEF Drain, Live, Out
  <2>2. IsFiniteSet(Live)
    BY <1>l, ConnCard
  <2>3. Cardinality(Live') <= Cardinality(Live)
    BY <2>1, <2>2, FS_Subset
  <2>4. ~Unclosed
    BY <1>5 DEF Drain, Unclosed
  <2> QED
    BY <1>5, <2>3, <2>4 DEF Drain, Lowering
<1>6. ASSUME NEW c \in Closers, StartClose(c) \/ Drained(c) PROVE Same
  <2>1. Live' = Live /\ Lowering' = Lowering
    BY <1>6 DEF StartClose, Drained, Live, Out, Lowering
  <2> QED
    BY <1>l, <1>6, <2>1 DEF StartClose, Drained
<1>7. ASSUME NEW c \in Closers, Reset(c) PROVE Live' = Live /\ Lowering' = Lowering
  BY <1>7 DEF Reset, Live, Out, Lowering
<1>8. ASSUME UNCHANGED vars PROVE Same
  <2>1. Live' = Live /\ Lowering' = Lowering
    BY <1>8 DEF vars, Live, Out, Lowering
  <2> QED
    BY <1>l, <1>8, <2>1 DEF vars
<1> QED
  BY <1>1, <1>2, <1>3, <1>4, <1>5, <1>6, <1>7, <1>8
     DEF Next, Acquire, GiveBack, EndClose

LEMMA CountedStep == IInv /\ [Next]_vars => Counted'
<1> SUFFICES ASSUME IInv, [Next]_vars PROVE Counted'
  OBVIOUS
<1>s. /\ Cardinality(Live) \in Nat /\ Cardinality(Lowering) \in Nat
      /\ created \in Nat /\ created <= PoolSize /\ forgotten \in Nat
  BY Sizes
<1>c. Counted
  BY DEF IInv
<1>l. Cardinality(Live') \in Nat
  <2>1. Types'
    BY UseStep DEF IInv
  <2>2. Live' \in SUBSET Conns
    BY <2>1 DEF Types, Live, Out
  <2> QED
    BY <2>2, ConnCard
<1>1. CASE Cardinality(Live') <= Cardinality(Live) /\ UNCHANGED <<created, forgotten, Lowering>>
  BY <1>s, <1>c, <1>l, <1>1 DEF Counted
<1>2. ASSUME NEW u \in Users, Create(u), Cardinality(Live') = Cardinality(Live) + 1,
             Lowering' = Lowering
      PROVE  Counted'
  BY <1>s, <1>c, <1>2 DEF Create, Counted
<1>3. ASSUME NEW u \in Users, Overflow(u), Cardinality(Live') = Cardinality(Live) - 1,
             Cardinality(Lowering') = Cardinality(Lowering) + 1
      PROVE  Counted'
  <2>1. Cardinality(Live) >= PoolSize + 1
    BY <1>3, FullMeansMore
  <2> QED
    BY <1>s, <1>c, <1>3, <2>1, PoolAssumption DEF Overflow, Counted
<1>4. ASSUME NEW u \in Users, Lower(u), Live' = Live,
             Cardinality(Lowering') = Cardinality(Lowering) - 1
      PROVE  Counted'
  BY <1>s, <1>c, <1>4 DEF Lower, Counted
<1>5. ASSUME NEW c \in Closers, Reset(c), Live' = Live, Lowering' = Lowering
      PROVE  Counted'
  BY <1>s, <1>c, <1>5 DEF Reset, Counted
<1> QED
  BY <1>1, <1>2, <1>3, <1>4, <1>5, CounterMoves

\* No step reopens what was closed.
LEMMA UnclosedBefore == Types /\ [Next]_vars /\ Unclosed' => Unclosed
<1> SUFFICES ASSUME Types, [Next]_vars, Unclosed', NEW c \in Closers
             PROVE  closer[c] = "open"
  BY DEF Unclosed
<1>1. closer'[c] = "open"
  BY DEF Unclosed
<1>2. ASSUME NEW u \in Users, Acquire(u) \/ GiveBack(u) PROVE closer' = closer
  BY <1>2 DEF Acquire, TakeIdle, TakeReturned, Take, Miss, Create, CreateFails, Exhausted,
              GiveBack, Release, Overflow, Lower
<1>3. ASSUME NEW d \in Closers, StartClose(d) \/ EndClose(d) PROVE closer[c] = "open"
  BY <1>1, <1>3 DEF Types, StartClose, EndClose, Drain, Drained, Reset
<1> QED
  BY <1>1, <1>2, <1>3 DEF Next, vars

LEMMA ExactStep == IInv /\ (Unclosed => Exact) /\ [Next]_vars => (Unclosed' => Exact')
<1> SUFFICES ASSUME IInv, Unclosed => Exact, [Next]_vars, Unclosed' PROVE Exact'
  OBVIOUS
<1>t. Types
  BY DEF IInv
<1>u. Unclosed /\ Exact
  BY <1>t, UnclosedBefore
<1>s. Cardinality(Live) \in Nat /\ created \in Nat /\ created <= PoolSize
  BY Sizes
<1>1. CASE /\ UNCHANGED <<created, Lowering>> /\ Live' = Live
           /\ \A u \in Users : pc'[u] = "blocked" => pc[u] = "blocked" \/ created >= PoolSize
  <2>1. \A u \in Users : pc'[u] # "lowering"
    BY <1>1, <1>u DEF Exact, Lowering
  <2> QED
    BY <1>1, <1>s, <1>u, <2>1, PoolAssumption DEF Exact
<1>2. ASSUME NEW u \in Users, Create(u), Cardinality(Live') = Cardinality(Live) + 1
      PROVE  Exact'
  BY <1>s, <1>t, <1>u, <1>2, PoolAssumption DEF Create, Exact, Types
<1>3. ASSUME NEW u \in Users, Overflow(u) PROVE FALSE
  <2>1. Cardinality(Live) >= PoolSize + 1
    BY <1>3, FullMeansMore
  <2> QED
    BY <1>s, <1>u, <2>1, PoolAssumption DEF Exact
<1>4. ASSUME NEW u \in Users, Lower(u) PROVE FALSE
  BY <1>u, <1>4 DEF Lower, Exact
<1>5. ASSUME NEW c \in Closers, Reset(c) PROVE FALSE
  BY <1>u, <1>5 DEF Reset, Unclosed
<1> QED
  BY <1>u, <1>1, <1>2, <1>3, <1>4, <1>5, CounterMoves

(***************************************************************************)
(* The pool implements Leases                                              *)
(***************************************************************************)
\* Until the first close no connection that comes back finds the queue full.
LEMMA OverflowsOnlyClosed ==
  ASSUME IInv, Unclosed => Exact, NEW u \in Users, Overflow(u)
  PROVE  ~Unclosed
<1>1. Cardinality(Live) >= PoolSize + 1
  BY FullMeansMore
<1> QED
  BY <1>1, Sizes, PoolAssumption DEF Exact

LEMMA SameCardinality == \A S : Lending!Cardinality(S) = Cardinality(S)
BY DEF Lending!Cardinality, Cardinality

\* What a step of a user or of a closer does to the leases.
LEMMA StepImplements ==
  IInv /\ (Unclosed => Exact) /\ [Next]_vars => [Lending!LeasesNext]_(Lending!leaseVars)
<1> SUFFICES ASSUME IInv, Unclosed => Exact, [Next]_vars
             PROVE  Lending!LeasesNext \/ UNCHANGED Lending!leaseVars
  OBVIOUS
<1>t. Types /\ OneEach /\ Exclusive /\ Counted
  BY DEF IInv
<1>o. Lending!Open = Live
  BY DEF Lending!Open, Live, Out
<1>c. ASSUME UNCHANGED <<closer, forgotten>> PROVE UNCHANGED <<PoolSize + forgotten, ~Unclosed>>
  BY <1>c DEF Unclosed
<1>k. \A S : Lending!Cardinality(S) = Cardinality(S)
  BY SameCardinality
<1>1. ASSUME NEW u \in Users, TakeIdle(u) \/ TakeReturned(u) PROVE Lending!Lend(u)
  <2>1. held[u] = {}
    BY <1>t, <1>1 DEF TakeIdle, TakeReturned, Exclusive
  <2>2. /\ \E c \in pool : pool' = pool \ {c} /\ held' = [held EXCEPT ![u] = {c}]
        /\ UNCHANGED <<closer, forgotten>>
    BY <1>1 DEF TakeIdle, TakeReturned, Take
  <2>3. UNCHANGED <<PoolSize + forgotten, ~Unclosed>>
    BY <1>c, <2>2
  <2> QED
    BY <2>1, <2>2, <2>3, Zenon DEF Lending!Lend
<1>2. ASSUME NEW u \in Users, Create(u) PROVE Lending!LendNew(u)
  <2>1. held[u] = {}
    BY <1>t, <1>2 DEF Create, Exclusive
  <2>2. Cardinality(Live) < PoolSize + forgotten
    BY <1>t, <1>2, Sizes, PoolAssumption DEF Create, Counted
  <2>3. /\ \E c \in Conns \ Live : held' = [held EXCEPT ![u] = {c}]
        /\ UNCHANGED <<pool, closer, forgotten>>
    BY <1>2 DEF Create
  <2>4. UNCHANGED <<pool, PoolSize + forgotten, ~Unclosed>>
    BY <1>c, <2>3
  <2>5. Lending!Cardinality(Lending!Open) < PoolSize + forgotten
    BY <1>k, <1>o, <2>2
  <2> QED
    BY <1>o, <2>1, <2>3, <2>4, <2>5, Zenon DEF Lending!LendNew
<1>3. ASSUME NEW u \in Users, Release(u) PROVE Lending!GiveBack(u)
  <2>1. held[u] # {}
    BY <1>t, <1>3 DEF Release, Exclusive
  <2>2. UNCHANGED <<PoolSize + forgotten, ~Unclosed>>
    BY <1>c, <1>3 DEF Release
  <2> QED
    BY <1>k, <1>3, <2>1, <2>2 DEF Release, Lending!GiveBack
<1>4. ASSUME NEW u \in Users, Overflow(u) PROVE Lending!Discard(u)
  <2>1. held[u] # {}
    BY <1>t, <1>4 DEF Overflow, Exclusive
  <2>2. ~Unclosed
    BY <1>4, OverflowsOnlyClosed
  <2> QED
    BY <1>c, <1>4, <2>1, <2>2 DEF Overflow, Lending!Discard
<1>5. ASSUME NEW u \in Users, Miss(u) \/ CreateFails(u) \/ Exhausted(u) \/ Lower(u)
      PROVE  UNCHANGED Lending!leaseVars
  <2>1. UNCHANGED <<pool, held, closer, forgotten>>
    BY <1>5 DEF Miss, CreateFails, Exhausted, Lower
  <2> QED
    BY <1>c, <2>1 DEF Lending!leaseVars
<1>6. ASSUME NEW c \in Closers, StartClose(c) PROVE Lending!BeginClose
  <2>1. ~Unclosed'
    BY <1>t, <1>6 DEF StartClose, Types, Unclosed
  <2> QED
    BY <1>6, <2>1 DEF StartClose, Lending!BeginClose
<1>7. ASSUME NEW c \in Closers, closer[c] # "open", closer'[c] # "open"
      PROVE  ~Unclosed /\ ~Unclosed'
  BY <1>7 DEF Unclosed
<1>8. ASSUME NEW c \in Closers, Drain(c) PROVE Lending!CloseIdle
  <2>1. ~Unclosed /\ ~Unclosed'
    BY <1>7, <1>8 DEF Drain
  <2> QED
    BY <1>8, <2>1 DEF Drain, Lending!CloseIdle
<1>9. ASSUME NEW c \in Closers, Drained(c) PROVE UNCHANGED Lending!leaseVars
  <2>1. ~Unclosed /\ ~Unclosed'
    BY <1>t, <1>7, <1>9 DEF Drained, Types
  <2> QED
    BY <1>9, <2>1 DEF Drained, Lending!leaseVars
<1>10. ASSUME NEW c \in Closers, Reset(c) PROVE Lending!Forget
  <2>1. ~Unclosed /\ ~Unclosed'
    BY <1>t, <1>7, <1>10 DEF Reset, Types
  <2>2. PoolSize + forgotten' = (PoolSize + forgotten) + Cardinality(Live)
    BY <1>10, Sizes, PoolAssumption DEF Reset
  <2> QED
    BY <1>k, <1>o, <1>10, <2>1, <2>2 DEF Reset, Lending!Forget
<1>11. ASSUME UNCHANGED vars PROVE UNCHANGED Lending!leaseVars
  BY <1>c, <1>11 DEF vars, Lending!leaseVars
<1> QED
  BY <1>1, <1>2, <1>3, <1>4, <1>5, <1>6, <1>8, <1>9, <1>10, <1>11, Zenon
     DEF Next, Acquire, GiveBack, EndClose, Lending!LeasesNext

(***************************************************************************)
(* Theorems                                                                *)
(***************************************************************************)
LEMMA IInvStep == IInv /\ [Next]_vars => IInv'
BY UseStep, CountedStep DEF IInv

LEMMA Invariance == Spec => []IInv
BY InitIInv, IInvStep, PTL DEF Spec

LEMMA ExactInvariance == Spec => [](IInv /\ (Unclosed => Exact))
BY InitIInv, IInvStep, ExactStep, PTL DEF Spec

\* Types, for every number of users and connections: the queue never exceeds its size.
THEOREM PoolTypes == Spec => []TypeOK
<1>1. IInv => TypeOK
  BY DEF IInv, Types, TypeOK
<1> QED
  BY <1>1, Invariance, PTL

\* No connection is ever used by two threads, or used and idle.
THEOREM ExclusiveUse == Spec => []Exclusive
<1>1. IInv => Exclusive
  BY DEF IInv
<1> QED
  BY <1>1, Invariance, PTL

\* Open connections exceed pool_size by no more than close forgot.
THEOREM OpenConnectionsBounded == Spec => []BoundedButForgotten
<1>1. IInv => BoundedButForgotten
  <2> SUFFICES ASSUME IInv PROVE BoundedButForgotten
    OBVIOUS
  <2>1. /\ Cardinality(Live) \in Nat /\ Cardinality(Lowering) \in Nat
        /\ created \in Nat /\ created <= PoolSize /\ forgotten \in Nat
    BY Sizes
  <2>2. Counted
    BY DEF IInv
  <2> QED
    BY <2>1, <2>2, PoolAssumption DEF Counted, BoundedButForgotten
<1> QED
  BY <1>1, Invariance, PTL

\* Until the first close the counter is exact, the queue never overflows, and
\* whoever blocks does so with all connections open.
THEOREM CounterIsExact == Spec => []CounterExact
<1>1. (Unclosed => Exact) => CounterExact
  BY DEF Exact, CounterExact
<1> QED
  BY <1>1, ExactInvariance, PTL

\* One user each, no more than the allowance, and nothing lost before a close: the
\* queue and the counter, never changed together, implement Leases.
THEOREM PoolImplementsLeases == Spec => ImplementsLeases
<1>1. Init => Lending!LeasesInit
  BY PoolAssumption DEF Init, Unclosed, Lending!LeasesInit
<1> QED
  BY <1>1, StepImplements, ExactInvariance, PTL
     DEF Spec, ImplementsLeases, Lending!LeasesSpec

\* Before a close nobody blocks on an empty queue unless somebody uses a connection
\* and so will put it back.
THEOREM BlockedAreLentTo == Spec => []BlockedHasLender
<1>1. IInv /\ (Unclosed => Exact) => BlockedHasLender
  <2> SUFFICES ASSUME IInv, Exact, pool = {}, NEW u \in Users, pc[u] = "blocked"
               PROVE  \E v \in Users : pc[v] = "using"
    BY DEF BlockedHasLender
  <2>1. Cardinality(Live) # 0
    BY PoolAssumption DEF Exact
  <2>2. PICK v \in Users : held[v] # {}
    BY <2>1, FS_EmptySet DEF Live, Out
  <2> QED
    BY <2>2 DEF IInv, Exclusive
<1> QED
  BY <1>1, ExactInvariance, PTL
=============================================================================
