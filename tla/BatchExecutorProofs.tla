-------------------------- MODULE BatchExecutorProofs --------------------------
(* Theorems about BatchExecutor, for any callers, closers and sizes.            *)
EXTENDS BatchExecutor, FiniteSetTheorems, SequenceTheorems, TLAPS

(***************************************************************************)
(* The inductive invariant                                                 *)
(***************************************************************************)
Jobs == [kind : {"job"}, by : Submitters, count : 1..MaxTexts]
Entries == Jobs \union {Sentinel}
Cells == Submitters \X (1..MaxTexts)
Futures == {Pending, Raised} \union {Rows(Texts(j)) : j \in Jobs}

Has(x, q) == \E i \in 1..Len(q) : q[i] = x
Uniq(x, q) == \A i, j \in 1..Len(q) : q[i] = x /\ q[j] = x => i = j

Types ==
  /\ queue \in Seq(Entries) /\ Len(queue) <= Capacity
  /\ batch \in Seq(Jobs) /\ fused \in Seq(Cells) /\ offset \in Nat
  /\ worker \in {"check", "next", "gather", "emit", "deliver", "exited"}
  /\ pc \in [Submitters -> {"idle", "putting", "waiting"}]
  /\ size \in [Submitters -> 1..MaxTexts]
  /\ closer \in [Closers -> {"open", "putting", "joining", "closed"}]

Flags == stop \in BOOLEAN /\ failed \in BOOLEAN /\ released \in BOOLEAN

\* A job that is queued or taken is the one its caller waits for, and it is in
\* one place only.
Current == \A e \in Jobs : Has(e, queue) \/ Has(e, batch) => e = Job(e.by)
PlacedOnce(s) ==
  /\ Uniq(Job(s), queue) /\ Uniq(Job(s), batch)
  /\ ~(Has(Job(s), queue) /\ Has(Job(s), batch))
  /\ Resolved(s) => ~Has(Job(s), queue) /\ ~Has(Job(s), batch)
  /\ pc[s] = "waiting" <=> Has(Job(s), queue) \/ Has(Job(s), batch) \/ Resolved(s)
Placed == Current /\ \A s \in Submitters : PlacedOnce(s)

\* start says where each gathered job's texts begin among the fused ones; the
\* first job left is the one at the offset.
Starts(start, b, f, o) ==
  /\ start \in [1..(Len(b) + 1) -> 0..Len(f)]
  /\ start[1] = o /\ start[Len(b) + 1] = Len(f)
  /\ \A k \in 1..Len(b) :
       /\ start[k + 1] = start[k] + b[k].count
       /\ \A i \in 1..b[k].count : f[start[k] + i] = <<b[k].by, i>>
LaidOut(b, f, o) == \E start : Starts(start, b, f, o)
Laid ==
  /\ LaidOut(batch, fused, offset)
  /\ worker # "deliver" => offset = 0
  /\ worker \in {"check", "next", "exited"} => batch = <<>> /\ fused = <<>>

Answered ==
  /\ future \in [Submitters -> Futures]
  /\ RowsAligned

IInv == Types /\ Placed /\ Laid /\ Answered /\ BatchBounded

(***************************************************************************)
(* Sequences, jobs and texts                                               *)
(***************************************************************************)
LEMMA Taken ==
  ASSUME NEW S, NEW q \in Seq(S), q # <<>>
  PROVE  /\ Head(q) \in S /\ Head(q) = q[1]
         /\ Tail(q) \in Seq(S) /\ Len(q) \in Nat \ {0} /\ Len(Tail(q)) = Len(q) - 1
         /\ \A i \in 1..Len(Tail(q)) : Tail(q)[i] = q[i + 1]
BY HeadTailProperties

LEMMA Appended ==
  ASSUME NEW S, NEW q \in Seq(S), NEW e \in S
  PROVE  /\ Append(q, e) \in Seq(S) /\ Len(q) \in Nat /\ Len(Append(q, e)) = Len(q) + 1
         /\ \A i \in 1..Len(q) : Append(q, e)[i] = q[i]
         /\ Append(q, e)[Len(q) + 1] = e
BY AppendProperties

LEMMA HasAppended ==
  ASSUME NEW S, NEW q \in Seq(S), NEW e \in S, NEW x
  PROVE  /\ Has(x, Append(q, e)) <=> Has(x, q) \/ x = e
         /\ Uniq(x, q) /\ (x = e => ~Has(x, q)) => Uniq(x, Append(q, e))
<1> DEFINE a == Append(q, e)
<1>1. /\ Len(q) \in Nat /\ Len(a) = Len(q) + 1 /\ a[Len(q) + 1] = e
      /\ \A i \in 1..Len(q) : a[i] = q[i]
  BY Appended
<1> HIDE DEF a
<1>2. \A i \in 1..Len(a) : i \in 1..Len(q) \/ i = Len(q) + 1
  BY <1>1
<1>3. Has(x, a) <=> Has(x, q) \/ x = e
  BY <1>1, <1>2 DEF Has
<1>4. ASSUME Uniq(x, q), x = e => ~Has(x, q)
      PROVE  Uniq(x, a)
  BY <1>1, <1>2, <1>4 DEF Uniq, Has
<1> QED
  BY <1>3, <1>4 DEF a

LEMMA HasTaken ==
  ASSUME NEW S, NEW q \in Seq(S), q # <<>>, NEW x
  PROVE  /\ Has(x, q) <=> Has(x, Tail(q)) \/ x = Head(q)
         /\ Uniq(x, q) => Uniq(x, Tail(q)) /\ ~(Has(x, Tail(q)) /\ x = Head(q))
<1> DEFINE t == Tail(q)
<1>1. /\ Len(q) \in Nat \ {0} /\ Len(t) = Len(q) - 1 /\ Head(q) = q[1]
      /\ \A i \in 1..Len(t) : t[i] = q[i + 1]
  BY Taken
<1> HIDE DEF t
<1>2. \A i \in 1..Len(q) : i = 1 \/ i - 1 \in 1..Len(t)
  BY <1>1
<1>3. \A i \in 1..Len(t) : i + 1 \in 1..Len(q) /\ i + 1 # 1
  BY <1>1
<1>4. Has(x, q) <=> Has(x, t) \/ x = Head(q)
  <2>1. ASSUME NEW i \in 1..Len(q), q[i] = x
        PROVE  Has(x, t) \/ x = Head(q)
    <3>1. i # 1 => t[i - 1] = q[i]
      BY <1>1, <1>2
    <3> QED
      BY <1>1, <1>2, <2>1, <3>1 DEF Has
  <2>2. Has(x, t) \/ x = Head(q) => Has(x, q)
    BY <1>1, <1>3 DEF Has
  <2> QED
    BY <2>1, <2>2 DEF Has
<1>5. ASSUME Uniq(x, q)
      PROVE  Uniq(x, t) /\ ~(Has(x, t) /\ x = Head(q))
  <2>1. Uniq(x, t)
    BY <1>1, <1>3, <1>5 DEF Uniq
  <2>2. 1 \in 1..Len(q)
    BY <1>1
  <2> QED
    BY <1>1, <1>3, <1>5, <2>1, <2>2 DEF Uniq, Has
<1> QED
  BY <1>4, <1>5 DEF t

LEMMA JobIn ==
  ASSUME Types, NEW s \in Submitters
  PROVE  Job(s) \in Jobs /\ Job(s).by = s /\ Job(s).count = size[s] /\ Job(s) # Sentinel
BY DEF Types, Jobs, Job, Sentinel

LEMMA NotSentinel == Sentinel \notin Jobs
BY DEF Jobs, Sentinel

LEMMA TextsOf ==
  ASSUME NEW j \in Jobs
  PROVE  /\ Texts(j) \in Seq(Cells) /\ Len(Texts(j)) = j.count /\ j.count \in 1..MaxTexts
         /\ j.by \in Submitters
         /\ \A i \in 1..j.count : Texts(j)[i] = <<j.by, i>>
<1>1. j.count \in 1..MaxTexts /\ j.by \in Submitters /\ MaxTexts \in Nat
  BY SizesAssumption DEF Jobs
<1>2. \A i \in 1..j.count : <<j.by, i>> \in Cells
  BY <1>1 DEF Cells
<1>3. Texts(j) \in [1..j.count -> Cells]
  BY <1>1, <1>2 DEF Texts
<1> QED
  BY <1>1, <1>3 DEF Texts

LEMMA FuturesDiffer ==
  /\ Pending # Raised /\ \A r : Rows(r) # Pending /\ Rows(r) # Raised
BY DEF Pending, Raised, Rows

LEMMA NothingLaid == LaidOut(<<>>, <<>>, 0)
<1>1. Starts([k \in 1..1 |-> 0], <<>>, <<>>, 0)
  BY DEF Starts
<1> QED
  BY <1>1 DEF LaidOut

LEMMA LaidAppended ==
  ASSUME NEW b \in Seq(Jobs), NEW f \in Seq(Cells), NEW o, NEW j \in Jobs, LaidOut(b, f, o)
  PROVE  LaidOut(Append(b, j), f \o Texts(j), o)
<1> DEFINE n == Len(b)
           m == Len(f)
           c == Append(b, j)
           g == f \o Texts(j)
<1>1. PICK start : Starts(start, b, f, o)
  BY DEF LaidOut
<1> DEFINE new == [k \in 1..(n + 2) |-> IF k = n + 2 THEN m + j.count ELSE start[k]]
<1>2. n \in Nat /\ m \in Nat
  BY LenProperties
<1>3. /\ Texts(j) \in Seq(Cells) /\ Len(Texts(j)) = j.count /\ j.count \in Nat
      /\ \A i \in 1..j.count : Texts(j)[i] = <<j.by, i>>
  BY TextsOf, SizesAssumption
<1>4. Len(c) = n + 1 /\ c[n + 1] = j /\ \A k \in 1..n : c[k] = b[k]
  BY Appended
<1>5. /\ Len(g) = m + j.count
      /\ \A i \in 1..(m + j.count) : g[i] = IF i <= m THEN f[i] ELSE Texts(j)[i - m]
  BY <1>3, ConcatProperties
<1>6. \A k \in 1..n : b[k].count \in Nat
  <2>1. \A k \in 1..n : b[k] \in Jobs
    BY ElementOfSeq
  <2> QED
    BY <2>1, TextsOf, SizesAssumption
<1>7. /\ start \in [1..(n + 1) -> 0..m] /\ start[1] = o /\ start[n + 1] = m
      /\ \A k \in 1..n : start[k + 1] = start[k] + b[k].count
      /\ \A k \in 1..n : \A i \in 1..b[k].count : f[start[k] + i] = <<b[k].by, i>>
  BY <1>1 DEF Starts
<1> HIDE DEF n, m, c, g
<1>8. /\ \A i \in 1..m : g[i] = f[i]
      /\ \A i \in 1..j.count : g[m + i] = <<j.by, i>>
  <2>1. \A i \in 1..m : i \in 1..(m + j.count) /\ i <= m
    BY <1>2, <1>3
  <2>2. \A i \in 1..j.count : m + i \in 1..(m + j.count) /\ ~(m + i <= m) /\ (m + i) - m = i
    BY <1>2, <1>3
  <2> QED
    BY <2>1, <2>2, <1>3, <1>5
<1>9. /\ new \in [1..(n + 2) -> 0..(m + j.count)] /\ new[n + 2] = m + j.count
      /\ \A k \in 1..(n + 1) : new[k] = start[k]
  BY <1>2, <1>3, <1>7
<1> HIDE DEF new
<1>10. ASSUME NEW k \in 1..(n + 1)
       PROVE  /\ new[k + 1] = new[k] + c[k].count
              /\ \A i \in 1..c[k].count : g[new[k] + i] = <<c[k].by, i>>
  <2>1. CASE k = n + 1
    <3>1. new[k] = m /\ new[k + 1] = m + j.count /\ c[k] = j
      <4>1. k + 1 = n + 2
        BY <2>1, <1>2
      <4> QED
        BY <4>1, <2>1, <1>4, <1>7, <1>9
    <3> QED
      BY <3>1, <1>8
  <2>2. CASE k \in 1..n
    <3>1. new[k + 1] = start[k + 1] /\ new[k] = start[k] /\ c[k] = b[k]
      <4>1. k + 1 \in 1..(n + 1) /\ k \in 1..(n + 1)
        BY <2>2, <1>2
      <4> QED
        BY <4>1, <2>2, <1>4, <1>9, Zenon
    <3>2. start[k] \in 0..m /\ start[k + 1] \in 0..m /\ start[k + 1] = start[k] + b[k].count
      BY <2>2, <1>2, <1>7
    <3>3. \A i \in 1..b[k].count : start[k] + i \in 1..m
      BY <2>2, <1>2, <1>6, <3>2
    <3>4. \A i \in 1..b[k].count : f[start[k] + i] = <<b[k].by, i>>
      BY <2>2, <1>7
    <3>5. \A i \in 1..b[k].count : g[start[k] + i] = <<b[k].by, i>>
      BY <3>3, <3>4, <1>8
    <3> QED
      BY <3>1, <3>2, <3>5
  <2>3. k = n + 1 \/ k \in 1..n
    BY <1>2
  <2> QED
    BY <2>1, <2>2, <2>3, Zenon
<1>11. new[1] = o
  BY <1>2, <1>7, <1>9
<1>12. Len(c) + 1 = n + 2
  BY <1>2, <1>4
<1>13. Starts(new, c, g, o)
  BY <1>4, <1>5, <1>9, <1>10, <1>11, <1>12 DEF Starts
<1> QED
  BY <1>13 DEF LaidOut, c, g

LEMMA LaidDelivered ==
  ASSUME NEW b \in Seq(Jobs), NEW f \in Seq(Cells), NEW o, LaidOut(b, f, o), b # <<>>
  PROVE  /\ LaidOut(Tail(b), f, o + Head(b).count)
         /\ SubSeq(f, o + 1, o + Head(b).count) = Texts(Head(b))
         /\ o \in Nat /\ o + Head(b).count <= Len(f)
<1> DEFINE n == Len(b)
           m == Len(f)
           j == Head(b)
           d == Tail(b)
<1>1. PICK start : Starts(start, b, f, o)
  BY DEF LaidOut
<1> DEFINE new == [k \in 1..n |-> start[k + 1]]
<1>2. /\ n \in Nat \ {0} /\ m \in Nat /\ j \in Jobs /\ j = b[1] /\ Len(d) = n - 1
      /\ \A k \in 1..(n - 1) : d[k] = b[k + 1]
  BY Taken, LenProperties
<1>3. /\ Texts(j) \in Seq(Cells) /\ Len(Texts(j)) = j.count /\ j.count \in Nat
      /\ \A i \in 1..j.count : Texts(j)[i] = <<j.by, i>>
  BY <1>2, TextsOf, SizesAssumption
<1>4. /\ start \in [1..(n + 1) -> 0..m] /\ start[1] = o /\ start[n + 1] = m
      /\ \A k \in 1..n : start[k + 1] = start[k] + b[k].count
      /\ \A k \in 1..n : \A i \in 1..b[k].count : f[start[k] + i] = <<b[k].by, i>>
  BY <1>1 DEF Starts
<1> HIDE DEF n, m, j, d
<1>5. /\ start[2] = o + j.count /\ o \in Nat /\ o + j.count <= m
      /\ \A i \in 1..j.count : f[o + i] = <<j.by, i>>
  <2>1. 1 \in 1..n /\ 1 + 1 = 2 /\ 1 \in 1..(n + 1) /\ 2 \in 1..(n + 1)
    BY <1>2
  <2>2. start[1] \in 0..m /\ start[2] \in 0..m
    BY <2>1, <1>4
  <2>3. start[2] = o + j.count
    BY <2>1, <1>2, <1>4
  <2>4. \A i \in 1..j.count : f[o + i] = <<j.by, i>>
    BY <2>1, <1>2, <1>4
  <2> QED
    BY <2>2, <2>3, <2>4, <1>2, <1>3, <1>4
<1>6. new \in [1..n -> 0..m] /\ \A k \in 1..n : new[k] = start[k + 1]
  BY <1>2, <1>4
<1> HIDE DEF new
<1>7. new[1] = o + j.count /\ new[n] = m
  BY <1>2, <1>4, <1>5, <1>6
<1>8. ASSUME NEW k \in 1..(n - 1)
      PROVE  /\ new[k + 1] = new[k] + d[k].count
             /\ \A i \in 1..d[k].count : f[new[k] + i] = <<d[k].by, i>>
  <2>1. k + 1 \in 1..n /\ k \in 1..n
    BY <1>2
  <2>2. d[k] = b[k + 1] /\ new[k] = start[k + 1] /\ new[k + 1] = start[(k + 1) + 1]
    BY <2>1, <1>2, <1>6
  <2>3. /\ start[(k + 1) + 1] = start[k + 1] + b[k + 1].count
        /\ \A i \in 1..b[k + 1].count : f[start[k + 1] + i] = <<b[k + 1].by, i>>
    BY <2>1, <1>4
  <2> QED
    BY <2>2, <2>3
<1>9. Starts(new, d, f, o + j.count)
  <2>1. Len(d) + 1 = n
    BY <1>2
  <2> QED
    BY <2>1, <1>2, <1>6, <1>7, <1>8 DEF Starts, m
<1>10. SubSeq(f, o + 1, o + j.count) = Texts(j)
  <2> DEFINE u == SubSeq(f, o + 1, o + j.count)
  <2>1. \A i \in (o + 1)..(o + j.count) : f[i] \in Cells
    <3>1. \A i \in (o + 1)..(o + j.count) : i \in 1..Len(f)
      BY <1>2, <1>3, <1>5 DEF m
    <3> QED
      BY <3>1, ElementOfSeq
  <2>2. o + 1 \in Int /\ o + j.count \in Int
    BY <1>3, <1>5
  <2>3. /\ u \in Seq(Cells)
        /\ Len(u) = IF o + 1 <= o + j.count THEN (o + j.count) - (o + 1) + 1 ELSE 0
        /\ \A i \in 1..((o + j.count) - (o + 1) + 1) : u[i] = f[(o + 1) + i - 1]
    BY <2>1, <2>2, SubSeqProperties
  <2> HIDE DEF u
  <2>4. Len(u) = j.count /\ (o + j.count) - (o + 1) + 1 = j.count
    BY <2>3, <1>3, <1>5
  <2>5. \A i \in 1..j.count : (o + 1) + i - 1 = o + i
    BY <1>3, <1>5
  <2>6. \A i \in 1..j.count : u[i] = Texts(j)[i]
    BY <2>3, <2>4, <2>5, <1>3, <1>5
  <2>7. u = Texts(j)
    BY <2>3, <2>4, <2>6, <1>3, SeqEqual
  <2> QED
    BY <2>7 DEF u
<1> QED
  BY <1>5, <1>9, <1>10 DEF LaidOut, j, d, m

LEMMA Init_IInv == Init => IInv /\ Flags
<1> SUFFICES ASSUME Init PROVE IInv /\ Flags
  OBVIOUS
<1>1. Types
  BY SizesAssumption DEF Init, Types
<1>2. Placed
  BY <1>1 DEF Init, Placed, Current, PlacedOnce, Has, Uniq, Resolved
<1>3. Laid
  BY NothingLaid DEF Init, Laid
<1>4. Answered
  BY DEF Init, Answered, Futures, RowsAligned, Resolved
<1>5. BatchBounded
  BY DEF Init, BatchBounded
<1>6. Flags
  BY Zenon DEF Init, Flags
<1> QED
  BY <1>1, <1>2, <1>3, <1>4, <1>5, <1>6 DEF IInv

(***************************************************************************)
(* Callers and closers                                                     *)
(***************************************************************************)
LEMMA SameJobs ==
  ASSUME UNCHANGED size
  PROVE  \A s : Job(s)' = Job(s)
BY DEF Job

\* What depends on the worker's variables only.
LEMMA WorkerAlone ==
  ASSUME IInv, UNCHANGED workerVars
  PROVE  Laid' /\ BatchBounded'
<1>1. Laid'
  BY Zenon DEF IInv, Laid, workerVars
<1>2. BatchBounded'
  BY DEF IInv, BatchBounded, workerVars
<1> QED
  BY <1>1, <1>2

\* What depends on the futures and the sizes only.
LEMMA AnswersAlone ==
  ASSUME IInv, UNCHANGED <<future, size>>
  PROVE  Answered'
<1>1. \A s : Job(s)' = Job(s)
  BY SameJobs
<1> QED
  BY <1>1 DEF IInv, Answered, RowsAligned, Resolved

LEMMA SubmitKeeps ==
  ASSUME IInv, NEW s \in Submitters, Submit(s)
  PROVE  IInv'
<1>1. /\ pc[s] = "idle" /\ pc' = [pc EXCEPT ![s] = "putting"]
      /\ future' = [future EXCEPT ![s] = Pending]
      /\ UNCHANGED <<queue, workerVars, closer>>
  BY DEF Submit, closeVars
<1>2. PICK n \in 1..MaxTexts : size' = [size EXCEPT ![s] = n]
  BY DEF Submit
<1>3. Types'
  BY <1>1, <1>2 DEF IInv, Types, workerVars
<1>4. \A t \in Submitters \ {s} : Job(t)' = Job(t) /\ future'[t] = future[t] /\ pc'[t] = pc[t]
  BY <1>1, <1>2 DEF Job, IInv, Types, Answered
<1>5. future'[s] = Pending /\ pc'[s] = "putting"
  BY <1>1 DEF IInv, Types, Answered
<1>6. \A e \in Jobs : Has(e, queue) \/ Has(e, batch) => e.by # s
  BY <1>1 DEF IInv, Placed, Current, PlacedOnce
<1>7. Job(s)' \in Jobs /\ Job(s)'.by = s
  BY <1>3 DEF Job, Types, Jobs
<1>8. ~Has(Job(s)', queue) /\ ~Has(Job(s)', batch)
  BY <1>6, <1>7
<1>9. Placed'
  <2>1. \A t \in Submitters \ {s} : PlacedOnce(t)'
    BY <1>1, <1>4 DEF IInv, Placed, PlacedOnce, Resolved, workerVars
  <2>2. PlacedOnce(s)'
    BY <1>1, <1>5, <1>8 DEF PlacedOnce, Resolved, Uniq, Has, workerVars
  <2>3. Current'
    <3>1. \A e \in Jobs : e.by \in Submitters
      BY DEF Jobs
    <3> QED
      BY <1>1, <1>4, <1>6, <3>1 DEF IInv, Placed, Current, workerVars
  <2> QED
    BY <2>1, <2>2, <2>3 DEF Placed
<1>10. Answered'
  <2>1. future' \in [Submitters -> Futures]
    BY <1>1 DEF IInv, Answered, Futures
  <2> QED
    BY <2>1, <1>4, <1>5 DEF IInv, Answered, RowsAligned, Resolved
<1> QED
  BY <1>1, <1>3, <1>9, <1>10, WorkerAlone DEF IInv

LEMMA EnqueueKeeps ==
  ASSUME IInv, NEW s \in Submitters, Enqueue(s)
  PROVE  IInv'
<1> USE DEF IInv
<1>1. /\ pc[s] = "putting" /\ Len(queue) < Capacity
      /\ queue' = Append(queue, Job(s)) /\ pc' = [pc EXCEPT ![s] = "waiting"]
      /\ UNCHANGED <<workerVars, size, future, closer>>
  BY DEF Enqueue, closeVars
<1>2. Job(s) \in Jobs /\ Job(s).by = s /\ queue \in Seq(Entries) /\ Job(s) \in Entries
  BY JobIn DEF Types, Entries
<1>3. queue' \in Seq(Entries) /\ Len(queue') = Len(queue) + 1 /\ Len(queue) \in Nat
  BY <1>1, <1>2, Appended
<1>4. Types'
  BY <1>1, <1>3, SizesAssumption DEF Types, workerVars
<1>5. \A x : /\ Has(x, queue') <=> Has(x, queue) \/ x = Job(s)
             /\ Uniq(x, queue) /\ (x = Job(s) => ~Has(x, queue)) => Uniq(x, queue')
  BY <1>1, <1>2, HasAppended
<1>6. /\ UNCHANGED <<batch, future>> /\ \A t : Job(t)' = Job(t)
      /\ pc'[s] = "waiting" /\ \A t \in Submitters \ {s} : pc'[t] = pc[t]
  BY <1>1, SameJobs DEF Types, workerVars
<1>7. \A t \in Submitters \ {s} : Job(t) # Job(s)
  BY JobIn
<1>8. Placed'
  <2>1. \A t \in Submitters \ {s} : PlacedOnce(t)'
    BY <1>5, <1>6, <1>7 DEF Placed, PlacedOnce, Resolved
  <2>2. ~Has(Job(s), queue) /\ ~Has(Job(s), batch) /\ ~Resolved(s)
    BY <1>1 DEF Placed, PlacedOnce
  <2>3. PlacedOnce(s)'
    BY <1>5, <1>6, <2>2 DEF Placed, PlacedOnce, Resolved
  <2>4. Current'
    BY <1>2, <1>5, <1>6 DEF Placed, Current
  <2> QED
    BY <2>1, <2>3, <2>4 DEF Placed
<1> QED
  BY <1>1, <1>4, <1>8, WorkerAlone, AnswersAlone

LEMMA ReturnKeeps ==
  ASSUME IInv, NEW s \in Submitters, Return(s)
  PROVE  IInv'
<1> USE DEF IInv
<1>1. /\ Resolved(s) /\ pc' = [pc EXCEPT ![s] = "idle"]
      /\ future' = [future EXCEPT ![s] = Pending]
      /\ UNCHANGED <<queue, workerVars, size, closer>>
  BY DEF Return, Resolved, closeVars
<1>2. Types'
  BY <1>1 DEF Types, workerVars
<1>3. /\ UNCHANGED <<queue, batch>> /\ \A t : Job(t)' = Job(t)
      /\ pc'[s] = "idle" /\ future'[s] = Pending
      /\ \A t \in Submitters \ {s} : pc'[t] = pc[t] /\ future'[t] = future[t]
  BY <1>1, SameJobs DEF Types, Answered, workerVars
<1>4. Placed'
  <2>1. \A t \in Submitters : PlacedOnce(t)'
    BY <1>1, <1>3 DEF Placed, PlacedOnce, Resolved
  <2>2. Current'
    BY <1>3 DEF Placed, Current
  <2> QED
    BY <2>1, <2>2 DEF Placed
<1>5. Answered'
  <2>1. future' \in [Submitters -> Futures]
    BY <1>1 DEF Answered, Futures
  <2> QED
    BY <2>1, <1>3 DEF Answered, RowsAligned, Resolved
<1> QED
  BY <1>1, <1>2, <1>4, <1>5, WorkerAlone

LEMMA CloserKeeps ==
  ASSUME IInv, NEW c \in Closers, CloseStop(c) \/ CloseRelease(c)
  PROVE  IInv'
<1> USE DEF IInv
<1>1. /\ closer' \in {[closer EXCEPT ![c] = "putting"], [closer EXCEPT ![c] = "closed"]}
      /\ UNCHANGED <<queue, workerVars, callerVars, future>>
  BY DEF CloseStop, CloseRelease
<1>2. Types'
  BY <1>1 DEF Types, workerVars, callerVars
<1>3. Placed'
  BY <1>1, SameJobs DEF Placed, Current, PlacedOnce, Resolved, workerVars, callerVars
<1> QED
  BY <1>1, <1>2, <1>3, WorkerAlone, AnswersAlone DEF callerVars

LEMMA ClosePutKeeps ==
  ASSUME IInv, NEW c \in Closers, ClosePut(c)
  PROVE  IInv'
<1> USE DEF IInv
<1>1. /\ closer' = [closer EXCEPT ![c] = "joining"] /\ Len(queue) < Capacity
      /\ queue' = Append(queue, Sentinel)
      /\ UNCHANGED <<workerVars, callerVars, future>>
  BY DEF ClosePut
<1>2. queue \in Seq(Entries) /\ Sentinel \in Entries
  BY DEF Types, Entries
<1>3. queue' \in Seq(Entries) /\ Len(queue') = Len(queue) + 1 /\ Len(queue) \in Nat
  BY <1>1, <1>2, Appended
<1>4. Types'
  BY <1>1, <1>3, SizesAssumption DEF Types, workerVars, callerVars
<1>5. \A x \in Jobs : (Has(x, queue') <=> Has(x, queue)) /\ (Uniq(x, queue) => Uniq(x, queue'))
  BY <1>1, <1>2, HasAppended, NotSentinel
<1>6. /\ \A t \in Submitters : Job(t)' = Job(t) /\ Job(t) \in Jobs
      /\ UNCHANGED <<batch, future, pc, size>>
  BY <1>1, SameJobs, JobIn DEF workerVars, callerVars
<1>7. Placed'
  BY <1>5, <1>6, SameJobs DEF Placed, Current, PlacedOnce, Resolved
<1> QED
  BY <1>1, <1>4, <1>6, <1>7, WorkerAlone, AnswersAlone

(***************************************************************************)
(* The worker                                                              *)
(***************************************************************************)
\* Steps of the worker that move no job.
LEMMA MoveKeeps ==
  ASSUME IInv, Check \/ GatherEnds \/ NextNone \/ Emit \/ BatchDone
  PROVE  Laid' /\ BatchBounded' /\ Answered' /\ UNCHANGED <<batch, callerVars, future, closer>>
<1> USE DEF IInv
<1>1. UNCHANGED <<batch, callerVars, future, closer>>
  BY DEF Check, GatherEnds, NextNone, Emit, BatchDone, closeVars
<1>2. Answered'
  BY <1>1, AnswersAlone DEF callerVars
<1>3. CASE Check
  <2>1. /\ worker = "check" /\ worker' \in {"exited", "next"}
        /\ UNCHANGED <<batch, fused, offset>>
    BY <1>3 DEF Check
  <2> QED
    BY <2>1, <1>1, <1>2 DEF Laid, BatchBounded
<1>4. CASE GatherEnds \/ NextNone \/ Emit
  <2>1. /\ \/ worker = "gather" /\ worker' = "emit"
           \/ worker = "next" /\ worker' = "check"
           \/ worker = "emit" /\ worker' = "deliver"
        /\ offset' = offset /\ UNCHANGED <<batch, fused>>
    BY <1>4 DEF GatherEnds, NextNone, Emit, Laid
  <2> QED
    BY <2>1, <1>1, <1>2 DEF Laid, BatchBounded
<1>5. CASE BatchDone
  <2>1. batch = <<>> /\ batch' = <<>> /\ fused' = <<>> /\ offset' = 0 /\ worker' = "check"
    BY <1>5 DEF BatchDone
  <2> QED
    BY <2>1, NothingLaid, <1>1, <1>2 DEF Laid, BatchBounded
<1> QED
  BY <1>3, <1>4, <1>5

\* The queue is as it was, or lost a sentinel at its head.
LEMMA SentinelKeeps ==
  ASSUME IInv, UNCHANGED <<batch, callerVars, future>>,
         queue' = queue \/ (queue # <<>> /\ Head(queue) = Sentinel /\ queue' = Tail(queue))
  PROVE  Placed' /\ queue' \in Seq(Entries) /\ Len(queue') <= Capacity
<1> USE DEF IInv
<1>1. queue \in Seq(Entries) /\ Len(queue) <= Capacity /\ Capacity \in Nat
  BY SizesAssumption DEF Types
<1>2. queue' \in Seq(Entries) /\ Len(queue') <= Capacity
  BY <1>1, Taken
<1>3. \A x \in Jobs : (Has(x, queue') <=> Has(x, queue)) /\ (Uniq(x, queue) => Uniq(x, queue'))
  <2>1. CASE queue' = queue
    BY <2>1
  <2>2. CASE queue # <<>> /\ Head(queue) = Sentinel /\ queue' = Tail(queue)
    <3>1. \A x : Has(x, queue) <=> Has(x, Tail(queue)) \/ x = Head(queue)
      BY <1>1, <2>2, HasTaken
    <3>2. \A x : Uniq(x, queue) => Uniq(x, Tail(queue))
      BY <1>1, <2>2, HasTaken
    <3>3. \A x \in Jobs : x # Head(queue)
      BY <2>2, NotSentinel
    <3> QED
      BY <2>2, <3>1, <3>2, <3>3, Zenon
  <2> QED
    BY <2>1, <2>2
<1>4. \A t : Job(t)' = Job(t)
  BY SameJobs DEF callerVars
<1>5. \A t \in Submitters : Job(t) \in Jobs
  BY JobIn
<1> QED
  BY <1>2, <1>3, <1>4, <1>5 DEF Placed, Current, PlacedOnce, Resolved, callerVars

LEMMA ControlKeeps ==
  ASSUME IInv, Check \/ GatherEnds \/ NextNone \/ Emit \/ BatchDone
  PROVE  IInv'
<1>1. Laid' /\ BatchBounded' /\ Answered' /\ UNCHANGED <<batch, callerVars, future, closer>>
  BY MoveKeeps
<1>2. queue' = queue \/ (queue # <<>> /\ Head(queue) = Sentinel /\ queue' = Tail(queue))
  BY DEF Check, GatherEnds, NextNone, Emit, BatchDone
<1>3. Placed' /\ queue' \in Seq(Entries) /\ Len(queue') <= Capacity
  BY <1>1, <1>2, SentinelKeeps
<1>4. /\ worker' \in {"check", "next", "gather", "emit", "deliver", "exited"}
      /\ offset' \in {offset, 0} /\ fused' \in {fused, <<>>}
  BY DEF Check, GatherEnds, NextNone, Emit, BatchDone
<1>5. fused' \in Seq(Cells) /\ offset' \in Nat
  <2>1. <<>> \in Seq(Cells) /\ fused \in Seq(Cells) /\ offset \in Nat
    BY DEF IInv, Types
  <2>2. fused' = fused \/ fused' = <<>>
    BY <1>4
  <2>3. fused' \in Seq(Cells)
    BY <2>1, <2>2, Zenon
  <2> QED
    BY <1>4, <2>1, <2>3
<1>6. Types'
  BY <1>1, <1>3, <1>4, <1>5 DEF IInv, Types, callerVars
<1> QED
  BY <1>1, <1>3, <1>6 DEF IInv

\* Steps of the worker that move a job from the queue to the batch.
LEMMA TakeKeeps ==
  ASSUME IInv, TakeJob, worker' = "gather",
         worker = "next" \/ (worker = "gather" /\ Len(fused) < MicroBatch)
  PROVE  IInv'
<1> USE DEF IInv
<1> DEFINE j == Head(queue)
<1>1. /\ queue # <<>> /\ j # Sentinel /\ queue' = Tail(queue)
      /\ batch' = Append(batch, j) /\ fused' = fused \o Texts(j)
      /\ UNCHANGED <<offset, pc, size, future, closer>>
  BY DEF TakeJob, callerVars, closeVars
<1>2. /\ queue \in Seq(Entries) /\ batch \in Seq(Jobs) /\ fused \in Seq(Cells) /\ offset \in Nat
      /\ Len(queue) <= Capacity /\ Capacity \in Nat
  BY SizesAssumption DEF Types
<1>3. /\ j \in Jobs /\ Tail(queue) \in Seq(Entries) /\ Len(Tail(queue)) <= Capacity
  BY <1>1, <1>2, Taken DEF Entries
<1>4. /\ Texts(j) \in Seq(Cells) /\ Len(Texts(j)) = j.count /\ j.count \in Nat
  BY <1>3, TextsOf, SizesAssumption
<1> HIDE DEF j
<1>5. Append(batch, j) \in Seq(Jobs) /\ fused \o Texts(j) \in Seq(Cells)
  <2>1. Append(batch, j) \in Seq(Jobs)
    BY <1>2, <1>3, Appended
  <2>2. fused \o Texts(j) \in Seq(Cells)
    BY <1>2, <1>4, ConcatProperties
  <2> QED
    BY <2>1, <2>2
<1>6. Types'
  BY <1>1, <1>2, <1>3, <1>5 DEF Types
<1>7. Laid'
  <2>1. LaidOut(Append(batch, j), fused \o Texts(j), offset)
    BY <1>2, <1>3, LaidAppended DEF Laid
  <2> QED
    BY <2>1, <1>1 DEF Laid
<1>8. BatchBounded'
  <2>1. Len(fused') = Len(fused) + j.count /\ Len(fused) \in Nat
    <3>1. Len(fused \o Texts(j)) = Len(fused) + Len(Texts(j))
      BY <1>2, <1>4, ConcatProperties
    <3> QED
      BY <3>1, <1>1, <1>2, <1>4, LenProperties
  <2>2. batch' # <<>> /\ Last(batch') = j
    <3>1. Len(batch') = Len(batch) + 1 /\ Len(batch) \in Nat /\ batch'[Len(batch) + 1] = j
      BY <1>1, <1>2, <1>3, Appended
    <3> QED
      BY <3>1 DEF Last
  <2>3. Len(fused) < MicroBatch
    <3>1. CASE worker = "next"
      BY <3>1, SizesAssumption DEF Laid
    <3> QED
      BY <3>1
  <2> QED
    BY <2>1, <2>2, <2>3, <1>4 DEF BatchBounded
<1>9. Placed'
  <2>1. \A x : /\ Has(x, queue) <=> Has(x, queue') \/ x = j
               /\ Uniq(x, queue) => Uniq(x, queue') /\ ~(Has(x, queue') /\ x = j)
    BY <1>1, <1>2, HasTaken DEF j
  <2>2. \A x : /\ Has(x, batch') <=> Has(x, batch) \/ x = j
               /\ Uniq(x, batch) /\ (x = j => ~Has(x, batch)) => Uniq(x, batch')
    BY <1>1, <1>2, <1>3, HasAppended
  <2>3. \A t : Job(t)' = Job(t) /\ (t \in Submitters => Job(t) \in Jobs)
    BY <1>1, SameJobs, JobIn
  <2>4. Current'
    BY <1>3, <2>1, <2>2, <2>3 DEF Placed, Current
  <2>5. ASSUME NEW s \in Submitters
        PROVE  PlacedOnce(s)'
    <3> DEFINE x == Job(s)
    <3>1. /\ Uniq(x, queue) /\ Uniq(x, batch) /\ ~(Has(x, queue) /\ Has(x, batch))
          /\ Resolved(s) => ~Has(x, queue) /\ ~Has(x, batch)
          /\ pc[s] = "waiting" <=> Has(x, queue) \/ Has(x, batch) \/ Resolved(s)
      BY DEF Placed, PlacedOnce
    <3>2. Job(s)' = x /\ pc'[s] = pc[s] /\ Resolved(s)' = Resolved(s)
      BY <1>1, <2>3 DEF Resolved
    <3> HIDE DEF x
    <3>3. /\ Uniq(x, queue') /\ Uniq(x, batch') /\ ~(Has(x, queue') /\ Has(x, batch'))
          /\ Resolved(s) => ~Has(x, queue') /\ ~Has(x, batch')
          /\ pc[s] = "waiting" <=> Has(x, queue') \/ Has(x, batch') \/ Resolved(s)
      BY <3>1, <2>1, <2>2
    <3> QED
      BY <3>2, <3>3 DEF PlacedOnce
  <2> QED
    BY <2>4, <2>5 DEF Placed
<1>10. Answered'
  BY <1>1, AnswersAlone
<1> QED
  BY <1>6, <1>7, <1>8, <1>9, <1>10

\* The worker sets the future of the first job left.
LEMMA DeliverKeeps ==
  ASSUME IInv, Deliver
  PROVE  IInv'
<1> USE DEF IInv
<1> DEFINE j == Head(batch)
           answer == IF failed THEN Raised
                               ELSE Rows(SubSeq(fused, offset + 1, offset + j.count))
<1>1. /\ worker = "deliver" /\ worker' = "deliver" /\ batch # <<>> /\ batch' = Tail(batch)
      /\ future' = [future EXCEPT ![j.by] = answer] /\ offset' = offset + j.count
      /\ UNCHANGED <<queue, fused, pc, size, closer>>
  BY DEF Deliver, callerVars, closeVars
<1>2. batch \in Seq(Jobs) /\ fused \in Seq(Cells) /\ offset \in Nat
  BY DEF Types
<1>3. j \in Jobs /\ Tail(batch) \in Seq(Jobs)
  BY <1>1, <1>2, Taken
<1>4. j.count \in Nat /\ j.by \in Submitters
  BY <1>3, TextsOf, SizesAssumption
<1>5. /\ LaidOut(Tail(batch), fused, offset + j.count)
      /\ SubSeq(fused, offset + 1, offset + j.count) = Texts(j)
  BY <1>1, <1>2, LaidDelivered DEF Laid
<1>6. answer \in {Raised, Rows(Texts(j))}
  BY <1>5
<1>7. \A x : /\ Has(x, batch) <=> Has(x, batch') \/ x = j
             /\ Uniq(x, batch) => Uniq(x, batch') /\ ~(Has(x, batch') /\ x = j)
  BY <1>1, <1>2, HasTaken
<1> HIDE DEF j, answer
<1>8. j = Job(j.by)
  BY <1>3, <1>7 DEF Placed, Current
<1>9. /\ answer # Pending /\ answer \in Futures
  BY <1>3, <1>6, FuturesDiffer DEF Futures
<1>10. /\ future'[j.by] = answer /\ future' \in [Submitters -> Futures]
       /\ \A t \in Submitters \ {j.by} : future'[t] = future[t]
  BY <1>1, <1>4, <1>9 DEF Answered
<1>11. \A t : Job(t)' = Job(t)
  BY <1>1, SameJobs
<1>12. Types'
  BY <1>1, <1>2, <1>3, <1>4 DEF Types
<1>13. Laid'
  BY <1>1, <1>5 DEF Laid
<1>14. BatchBounded'
  BY <1>1 DEF BatchBounded
<1>15. Answered'
  <2>1. ASSUME NEW t \in Submitters, Resolved(t)'
        PROVE  future'[t] \in {Raised, Rows(Texts(Job(t)'))}
    <3>1. CASE t = j.by
      BY <3>1, <1>6, <1>8, <1>10, <1>11
    <3>2. CASE t # j.by
      BY <3>2, <2>1, <1>10, <1>11 DEF Answered, RowsAligned, Resolved
    <3> QED
      BY <3>1, <3>2
  <2> QED
    BY <2>1, <1>10 DEF Answered, RowsAligned
<1>16. Placed'
  <2>1. Current'
    BY <1>1, <1>7, <1>11 DEF Placed, Current
  <2>2. ASSUME NEW t \in Submitters
        PROVE  PlacedOnce(t)'
    <3> DEFINE x == Job(t)
    <3>1. /\ Uniq(x, queue) /\ Uniq(x, batch) /\ ~(Has(x, queue) /\ Has(x, batch))
          /\ Resolved(t) => ~Has(x, queue) /\ ~Has(x, batch)
          /\ pc[t] = "waiting" <=> Has(x, queue) \/ Has(x, batch) \/ Resolved(t)
      BY DEF Placed, PlacedOnce
    <3>2. Job(t)' = x /\ pc'[t] = pc[t] /\ UNCHANGED queue
      BY <1>1, <1>11
    <3>3. x = j <=> t = j.by
      BY <1>8, JobIn
    <3>4. Resolved(t)' <=> Resolved(t) \/ t = j.by
      BY <1>9, <1>10 DEF Resolved
    <3> HIDE DEF x
    <3>5. /\ Uniq(x, queue) /\ Uniq(x, batch') /\ ~(Has(x, queue) /\ Has(x, batch'))
          /\ Resolved(t)' => ~Has(x, queue) /\ ~Has(x, batch')
          /\ pc[t] = "waiting" <=> Has(x, queue) \/ Has(x, batch') \/ Resolved(t)'
      BY <3>1, <3>3, <3>4, <1>7
    <3> QED
      BY <3>2, <3>5 DEF PlacedOnce
  <2> QED
    BY <2>1, <2>2 DEF Placed
<1> QED
  BY <1>12, <1>13, <1>14, <1>15, <1>16

LEMMA Flags_Step == Flags /\ [Next]_vars => Flags'
<1> SUFFICES ASSUME Flags, [Next]_vars PROVE Flags'
  OBVIOUS
<1> USE DEF Flags
<1>1. CASE WorkerStep
  BY <1>1, Zenon DEF WorkerStep, Check, NextNone, NextJob, GatherJob, TakeJob, GatherEnds,
                     Emit, Deliver, BatchDone, closeVars
<1>2. CASE \E s \in Submitters : Submit(s) \/ Enqueue(s) \/ Return(s)
  BY <1>2, Zenon DEF Submit, Enqueue, Return, workerVars, closeVars
<1>3. CASE \E c \in Closers : CloseStop(c) \/ ClosePut(c) \/ CloseRelease(c)
  BY <1>3, Zenon DEF CloseStop, ClosePut, CloseRelease, workerVars
<1>4. CASE UNCHANGED vars
  BY <1>4, Zenon DEF vars
<1> QED
  BY <1>1, <1>2, <1>3, <1>4 DEF Next

LEMMA IInv_Step == IInv /\ [Next]_vars => IInv'
<1> SUFFICES ASSUME IInv, [Next]_vars PROVE IInv'
  OBVIOUS
<1>1. CASE Check \/ GatherEnds \/ NextNone \/ Emit \/ BatchDone
  BY <1>1, ControlKeeps
<1>2. CASE NextJob \/ GatherJob
  BY <1>2, TakeKeeps DEF NextJob, GatherJob
<1>3. CASE Deliver
  BY <1>3, DeliverKeeps
<1>4. CASE \E s \in Submitters : Submit(s) \/ Enqueue(s) \/ Return(s)
  BY <1>4, SubmitKeeps, EnqueueKeeps, ReturnKeeps
<1>5. CASE \E c \in Closers : CloseStop(c) \/ ClosePut(c) \/ CloseRelease(c)
  BY <1>5, CloserKeeps, ClosePutKeeps
<1>6. CASE UNCHANGED vars
  <2>1. UNCHANGED <<queue, batch, pc, future, closer, workerVars, size>>
    BY <1>6 DEF vars, workerVars
  <2>2. Types'
    BY <2>1 DEF IInv, Types, workerVars
  <2>3. Placed'
    BY <2>1, SameJobs DEF IInv, Placed, Current, PlacedOnce, Resolved
  <2> QED
    BY <2>1, <2>2, <2>3, WorkerAlone, AnswersAlone DEF IInv
<1> QED
  BY <1>1, <1>2, <1>3, <1>4, <1>5, <1>6 DEF Next, WorkerStep

LEMMA Invariant == Spec => [](IInv /\ Flags)
BY Init_IInv, IInv_Step, Flags_Step, PTL DEF Spec

(***************************************************************************)
(* What the invariant implies                                              *)
(***************************************************************************)
LEMMA Counted ==
  ASSUME NEW x, NEW q, Len(q) \in Nat, Uniq(x, q)
  PROVE  Cardinality({i \in 1..Len(q) : q[i] = x}) = IF Has(x, q) THEN 1 ELSE 0
<1> DEFINE C == {i \in 1..Len(q) : q[i] = x}
<1>1. CASE Has(x, q)
  <2>1. PICK i \in 1..Len(q) : q[i] = x
    BY <1>1 DEF Has
  <2>2. C = {i}
    BY <2>1 DEF Uniq
  <2> QED
    BY <1>1, <2>2, FS_Singleton
<1>2. CASE ~Has(x, q)
  <2>1. C = {}
    BY <1>2 DEF Has
  <2> QED
    BY <1>2, <2>1, FS_EmptySet
<1> QED
  BY <1>1, <1>2

LEMMA Conserved == IInv => JobsConserved
<1> SUFFICES ASSUME IInv, NEW s \in Submitters
             PROVE  Times(s, queue) + Times(s, batch) + (IF Resolved(s) THEN 1 ELSE 0)
                      = (IF pc[s] = "waiting" THEN 1 ELSE 0)
  BY DEF JobsConserved
<1>1. PlacedOnce(s)
  BY DEF IInv, Placed
<1>2. Len(queue) \in Nat /\ Len(batch) \in Nat
  BY LenProperties DEF IInv, Types
<1>3. Times(s, queue) = IF Has(Job(s), queue) THEN 1 ELSE 0
  BY <1>1, <1>2, Counted DEF Times, PlacedOnce
<1>4. Times(s, batch) = IF Has(Job(s), batch) THEN 1 ELSE 0
  BY <1>1, <1>2, Counted DEF Times, PlacedOnce
<1> QED
  BY <1>1, <1>3, <1>4 DEF PlacedOnce

LEMMA Typed == IInv /\ Flags => TypeOK
<1> SUFFICES ASSUME IInv, Flags PROVE TypeOK
  OBVIOUS
<1>1. Types
  BY DEF IInv
<1>2. \A i \in 1..Len(queue) : queue[i] \in Entries
  BY <1>1, ElementOfSeq DEF Types
<1>3. \A i \in 1..Len(batch) : batch[i] \in Jobs
  BY <1>1, ElementOfSeq DEF Types
<1>4. \A e \in Jobs : e.by \in Submitters
  BY DEF Jobs
<1>5. \A i \in 1..Len(queue) : queue[i] = Sentinel \/ \E s \in Submitters : queue[i] = Job(s)
  <2> SUFFICES ASSUME NEW i \in 1..Len(queue), queue[i] # Sentinel
               PROVE  \E s \in Submitters : queue[i] = Job(s)
    OBVIOUS
  <2>1. queue[i] \in Jobs /\ Has(queue[i], queue)
    BY <1>2 DEF Entries, Has
  <2> QED
    BY <2>1, <1>4 DEF IInv, Placed, Current
<1>6. \A i \in 1..Len(batch) : \E s \in Submitters : batch[i] = Job(s)
  <2> SUFFICES ASSUME NEW i \in 1..Len(batch)
               PROVE  \E s \in Submitters : batch[i] = Job(s)
    OBVIOUS
  <2>1. batch[i] \in Jobs /\ Has(batch[i], batch)
    BY <1>3 DEF Has
  <2> QED
    BY <2>1, <1>4 DEF IInv, Placed, Current
<1>7. offset \in 0..Len(fused)
  <2>1. Len(batch) \in Nat
    BY <1>1, LenProperties DEF Types
  <2>2. PICK start : Starts(start, batch, fused, offset)
    BY DEF IInv, Laid, LaidOut
  <2>3. start \in [1..(Len(batch) + 1) -> 0..Len(fused)] /\ start[1] = offset
    BY <2>2 DEF Starts
  <2> QED
    BY <2>1, <2>3
<1>8. stop \in BOOLEAN /\ failed \in BOOLEAN /\ released \in BOOLEAN
  BY DEF Flags
<1> QED
  BY <1>1, <1>5, <1>6, <1>7, <1>8, Zenon DEF Types, TypeOK

(***************************************************************************)
(* The executor implements EmbedCalls                                      *)
(***************************************************************************)
\* How many texts each caller asks to be embedded, 0 outside a call.
Asked == [s \in Submitters |-> IF pc[s] = "idle" THEN 0 ELSE size[s]]

LEMMA AskedSame ==
  ASSUME UNCHANGED <<pc, size>>
  PROVE  Asked' = Asked
BY DEF Asked

\* submit, up to the put: the call begins.
LEMMA SubmitAsks ==
  ASSUME IInv, NEW s \in Submitters, Submit(s)
  PROVE  Calls!Ask(s)
<1>1. PICK n \in 1..MaxTexts : size' = [size EXCEPT ![s] = n]
  BY DEF Submit
<1>2. pc[s] = "idle" /\ pc' = [pc EXCEPT ![s] = "putting"] /\ future' = [future EXCEPT ![s] = Pending]
  BY DEF Submit
<1>3. /\ pc \in [Submitters -> {"idle", "putting", "waiting"}]
      /\ size \in [Submitters -> 1..MaxTexts] /\ future \in [Submitters -> Futures]
  BY DEF IInv, Types, Answered
<1>4. future[s] = Pending
  BY <1>2 DEF IInv, Placed, PlacedOnce, Resolved
<1>5. UNCHANGED future
  BY <1>2, <1>3, <1>4
<1>6. Asked[s] = 0
  BY <1>2 DEF Asked
<1>7. Asked' = [Asked EXCEPT ![s] = n]
  BY <1>1, <1>2, <1>3 DEF Asked
<1> QED
  BY <1>5, <1>6, <1>7 DEF Calls!Ask, Asked

\* The put moves the caller on inside its call.
LEMMA EnqueueStutters ==
  ASSUME IInv, NEW s \in Submitters, Enqueue(s)
  PROVE  Asked' = Asked /\ UNCHANGED future
<1>1. pc[s] = "putting" /\ pc' = [pc EXCEPT ![s] = "waiting"] /\ UNCHANGED <<size, future>>
  BY DEF Enqueue
<1>2. pc \in [Submitters -> {"idle", "putting", "waiting"}]
  BY DEF IInv, Types
<1>3. \A t \in Submitters : pc'[t] = "idle" <=> pc[t] = "idle"
  BY <1>1, <1>2
<1> QED
  BY <1>1, <1>3 DEF Asked

\* The end of submit: the caller takes its answer.
LEMMA ReturnTakes ==
  ASSUME IInv, NEW s \in Submitters, Return(s)
  PROVE  Calls!Take(s)
<1>1. /\ pc[s] = "waiting" /\ future[s] # Pending /\ pc' = [pc EXCEPT ![s] = "idle"]
      /\ future' = [future EXCEPT ![s] = Pending] /\ UNCHANGED size
  BY DEF Return
<1>2. pc \in [Submitters -> {"idle", "putting", "waiting"}]
  BY DEF IInv, Types
<1>3. Asked' = [Asked EXCEPT ![s] = 0]
  BY <1>1, <1>2 DEF Asked
<1> QED
  BY <1>1, <1>3 DEF Calls!Take, Asked

\* set_result and __exit__: the first job left is that of a caller in its call, not
\* answered yet, and what its future gets are its own rows or the failure.
LEMMA DeliverAnswers ==
  ASSUME IInv, Deliver
  PROVE  \E s \in Submitters : Calls!Answer(s)
<1> USE DEF IInv
<1> DEFINE j == Head(batch)
           s == j.by
           given == IF failed THEN Raised
                              ELSE Rows(SubSeq(fused, offset + 1, offset + j.count))
<1>1. /\ batch # <<>> /\ future' = [future EXCEPT ![s] = given] /\ UNCHANGED <<pc, size>>
  BY DEF Deliver, callerVars
<1>2. batch \in Seq(Jobs) /\ fused \in Seq(Cells)
  BY DEF Types
<1>3. j \in Jobs
  BY <1>1, <1>2, Taken
<1>4. s \in Submitters
  BY <1>3, TextsOf
<1>5. SubSeq(fused, offset + 1, offset + j.count) = Texts(j)
  BY <1>1, <1>2, LaidDelivered DEF Laid
<1>6. given \in {Raised, Rows(Texts(j))}
  BY <1>5
<1>7. Has(j, batch)
  BY <1>1, <1>2, HasTaken
<1>8. j = Job(s)
  BY <1>3, <1>7 DEF Placed, Current
<1>9. pc[s] = "waiting" /\ future[s] = Pending
  BY <1>4, <1>7, <1>8 DEF Placed, PlacedOnce, Resolved
<1>10. size[s] \in 1..MaxTexts /\ j.count = size[s]
  <2>1. size[s] \in 1..MaxTexts
    BY <1>4 DEF Types
  <2>2. Job(s).count = size[s]
    BY <1>4, JobIn
  <2> QED
    BY <2>1, <2>2, <1>8
<1> HIDE DEF given, j
<1>11. Asked[s] = size[s] /\ Asked[s] # 0 /\ Asked' = Asked
  BY <1>1, <1>4, <1>9, <1>10, SizesAssumption, AskedSame DEF Asked
<1>12. Rows(Texts(j)) = [kind |-> "rows", rows |-> [i \in 1..Asked[s] |-> <<s, i>>]]
  BY <1>10, <1>11 DEF Rows, Texts
<1> HIDE DEF s
<1>13. Calls!RowsFor(s) = Rows(Texts(j))
  BY <1>12 DEF Calls!RowsFor, Asked
<1>14. future' \in {[future EXCEPT ![s] = Raised], [future EXCEPT ![s] = Calls!RowsFor(s)]}
  BY <1>1, <1>6, <1>13
<1>15. Calls!Answer(s)
  BY <1>9, <1>11, <1>14 DEF Calls!Answer, Asked
<1> QED
  BY <1>4, <1>15

LEMMA StepImplements == IInv /\ [Next]_vars => [Calls!CallsNext]_(Calls!callVars)
<1> SUFFICES ASSUME IInv, [Next]_vars
             PROVE  Calls!CallsNext \/ UNCHANGED Calls!callVars
  OBVIOUS
<1>s. Asked' = Asked /\ UNCHANGED future => UNCHANGED Calls!callVars
  BY DEF Calls!callVars, Asked
<1>1. ASSUME Check \/ NextNone \/ NextJob \/ GatherJob \/ GatherEnds \/ Emit \/ BatchDone
      PROVE  UNCHANGED <<pc, size, future>>
  BY <1>1 DEF Check, NextNone, NextJob, GatherJob, TakeJob, GatherEnds, Emit, BatchDone, callerVars
<1>2. ASSUME NEW c \in Closers, CloseStop(c) \/ ClosePut(c) \/ CloseRelease(c)
      PROVE  UNCHANGED <<pc, size, future>>
  BY <1>2 DEF CloseStop, ClosePut, CloseRelease, callerVars
<1>3. ASSUME UNCHANGED vars PROVE UNCHANGED <<pc, size, future>>
  BY <1>3 DEF vars
<1>4. ASSUME UNCHANGED <<pc, size, future>> PROVE UNCHANGED Calls!callVars
  BY <1>4, <1>s, AskedSame
<1>5. ASSUME NEW s \in Submitters, Submit(s) \/ Enqueue(s) \/ Return(s)
      PROVE  Calls!CallsNext \/ UNCHANGED Calls!callVars
  BY <1>5, <1>s, SubmitAsks, EnqueueStutters, ReturnTakes DEF Calls!CallsNext
<1>6. ASSUME Deliver PROVE Calls!CallsNext
  BY <1>6, DeliverAnswers DEF Calls!CallsNext
<1> QED
  BY <1>1, <1>2, <1>3, <1>4, <1>5, <1>6, Zenon DEF Next, WorkerStep

(***************************************************************************)
(* Theorems                                                                *)
(***************************************************************************)
\* Every variable keeps its kind of value, the queue its capacity, and the offset
\* stays within the fused texts.
THEOREM ExecutorTyped == Spec => []TypeOK
BY Invariant, Typed, PTL

\* submit, _gather_jobs, set_result: the job of a waiting caller is in exactly one
\* place, whatever callers, closers, capacity and batch size there are.
THEOREM NoJobLost == Spec => []JobsConserved
BY Invariant, Conserved, PTL

\* set_result: each caller gets the rows of its own texts, however they were fused.
THEOREM RowsOfOwnTexts == Spec => []RowsAligned
<1>1. IInv => RowsAligned
  BY DEF IInv, Answered
<1> QED
  BY <1>1, Invariant, PTL

\* _gather_jobs: what was gathered before the last job is below the target size.
THEOREM BatchStopsInTime == Spec => []BatchBounded
<1>1. IInv => BatchBounded
  BY DEF IInv
<1> QED
  BY <1>1, Invariant, PTL

\* The executor answers each call once, while it is in progress, with its own rows or
\* a failure: it implements EmbedCalls.
THEOREM ExecutorImplementsCalls == Spec => ImplementsCalls
<1>1. Init => Calls!CallsInit
  BY DEF Init, Calls!CallsInit
<1> QED
  BY <1>1, StepImplements, Invariant, PTL DEF Spec, ImplementsCalls, Calls!CallsSpec


\* Whoever waits for an answer has its job on the queue or in a batch at work, and
\* the worker leaves only after a close began.
THEOREM WaitersAreServed == Spec => []WaitersHaveWorker
<1> DEFINE ExitsStopped == worker = "exited" => stop
<1>1. Init => ExitsStopped
  BY DEF Init
<1>2. ExitsStopped /\ [Next]_vars => ExitsStopped'
  <2> SUFFICES ASSUME ExitsStopped, [Next]_vars PROVE ExitsStopped'
    OBVIOUS
  <2>1. CASE Check
    BY <2>1, Zenon DEF Check
  <2>2. CASE NextNone \/ NextJob \/ GatherJob \/ GatherEnds \/ Emit \/ BatchDone
    BY <2>2 DEF NextNone, NextJob, GatherJob, GatherEnds, Emit, BatchDone
  <2>3. CASE UNCHANGED <<worker, stop>>
    BY <2>3, Zenon
  <2>4. CASE \E c \in Closers : CloseStop(c)
    BY <2>4 DEF CloseStop
  <2>5. CASE \/ Deliver \/ \E s \in Submitters : Submit(s) \/ Enqueue(s) \/ Return(s)
             \/ \E c \in Closers : ClosePut(c) \/ CloseRelease(c)
             \/ UNCHANGED vars
    <3>1. UNCHANGED <<worker, stop>>
      BY <2>5, Zenon DEF Deliver, Submit, Enqueue, Return, ClosePut, CloseRelease, workerVars, vars
    <3> QED
      BY <3>1, <2>3
  <2> QED
    BY <2>1, <2>2, <2>4, <2>5 DEF Next, WorkerStep
<1>3. IInv /\ ExitsStopped => WaitersHaveWorker
  <2> SUFFICES ASSUME IInv, ExitsStopped PROVE WaitersHaveWorker
    OBVIOUS
  <2>1. ASSUME NEW s \in Submitters, pc[s] = "waiting", ~Resolved(s)
        PROVE  \/ \E i \in 1..Len(queue) : queue[i] = Job(s)
               \/ /\ \E i \in 1..Len(batch) : batch[i] = Job(s)
                  /\ worker \in {"gather", "emit", "deliver"}
    <3>1. Has(Job(s), queue) \/ Has(Job(s), batch)
      BY <2>1 DEF IInv, Placed, PlacedOnce
    <3>2. ASSUME Has(Job(s), batch) PROVE worker \in {"gather", "emit", "deliver"}
      <4>1. batch # <<>>
        BY <3>2 DEF Has
      <4> QED
        BY <4>1 DEF IInv, Laid, Types
    <3> QED
      BY <3>1, <3>2 DEF Has
  <2> QED
    BY <2>1 DEF WaitersHaveWorker
<1> QED
  BY <1>1, <1>2, <1>3, Invariant, PTL DEF Spec
================================================================================
