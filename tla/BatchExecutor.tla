--------------------------- MODULE BatchExecutor ---------------------------
(***************************************************************************)
(* The micro-batching executor of the embedding providers and the close of *)
(* a provider (src/codeintel_rev/embeddings/embedding_service.py, classes  *)
(* _BoundedBatchExecutor, _BatchResultHandler and _ProviderBase).  Callers *)
(* put jobs on a bounded queue and block on a future; one worker fuses     *)
(* jobs into batches; closers set an event, put a sentinel and join the    *)
(* worker for a second.                                                    *)
(***************************************************************************)
EXTENDS Naturals, FiniteSets, SequencesExt

CONSTANTS
  Submitters,   \* threads inside embed_texts
  Closers,      \* calls of close, one each
  Capacity,     \* max_pending, at least 1
  MicroBatch,   \* micro_batch
  MaxTexts      \* bound on the texts of a job

ASSUME SizesAssumption ==
  /\ Capacity \in Nat \ {0} /\ MicroBatch \in Nat \ {0} /\ MaxTexts \in Nat \ {0}
  /\ Submitters \intersect Closers = {}

VARIABLES
  queue,      \* _queue: jobs and sentinels
  stop,       \* _stop
  worker,     \* where the worker thread is
  batch,      \* the jobs gathered, or those whose futures are still to be set
  fused,      \* the texts of the gathered jobs, one after the other
  failed,     \* the emission raised
  offset,     \* where the next job's rows start
  pc,         \* where each submitter is
  size,       \* the number of texts of its job
  future,     \* its future
  closer,     \* where each closer is
  released    \* _close_impl has run

workerVars == <<worker, batch, fused, failed, offset>>
callerVars == <<pc, size>>
closeVars == <<closer, released>>
vars == <<queue, stop, worker, batch, fused, failed, offset, pc, size, future,
          closer, released>>

Sentinel == [kind |-> "sentinel"]
Job(s) == [kind |-> "job", by |-> s, count |-> size[s]]
Texts(job) == [i \in 1..job.count |-> <<job.by, i>>]

Pending == [kind |-> "pending"]
Raised == [kind |-> "raised"]
Rows(r) == [kind |-> "rows", rows |-> r]

Init ==
  /\ queue = <<>> /\ stop = FALSE
  /\ worker = "check" /\ batch = <<>> /\ fused = <<>>
  /\ failed = FALSE /\ offset = 0
  /\ pc = [s \in Submitters |-> "idle"]
  /\ size = [s \in Submitters |-> 1]
  /\ future = [s \in Submitters |-> Pending]
  /\ closer = [c \in Closers |-> "open"]
  /\ released = FALSE

(***************************************************************************)
(* Faulty variants of the definitions below, one per property: no part of  *)
(* the specification, they show that each property can fail.               *)
(***************************************************************************)
\* A job read by _gather_jobs replaces the list instead of joining it.
TakeJobAlone ==
  /\ queue # <<>> /\ Head(queue) # Sentinel
  /\ queue' = Tail(queue)
  /\ batch' = <<Head(queue)>>
  /\ fused' = fused \o Texts(Head(queue))
  /\ UNCHANGED <<stop, failed, offset, callerVars, future, closeVars>>

\* The size test lets a full batch take one job more.
GatherOneTooMany ==
  /\ worker = "gather" /\ Len(fused) <= MicroBatch
  /\ queue # <<>> /\ Head(queue) # Sentinel
  /\ queue' = Tail(queue)
  /\ batch' = Append(batch, Head(queue))
  /\ fused' = fused \o Texts(Head(queue))
  /\ UNCHANGED <<stop, worker, failed, offset, callerVars, future, closeVars>>

\* An exception of _emit ends the worker thread.
EmitUnguarded ==
  /\ worker = "emit"
  /\ failed' = FALSE /\ offset' = 0
  /\ worker' \in {"deliver", "exited"}
  /\ UNCHANGED <<queue, stop, batch, fused, callerVars, future, closeVars>>

\* set_result does not advance.
DeliverSameOffset ==
  /\ worker = "deliver" /\ batch # <<>>
  /\ LET job == Head(batch)
     IN  future' = [future EXCEPT ![job.by] =
           IF failed THEN Raised
                     ELSE Rows(SubSeq(fused, offset + 1, offset + job.count))]
  /\ batch' = Tail(batch)
  /\ UNCHANGED <<queue, stop, worker, fused, failed, offset, callerVars, closeVars>>

\* The loop does not look at the stop event.
CheckNothing ==
  /\ worker = "check" /\ worker' = "next"
  /\ UNCHANGED <<queue, stop, batch, fused, failed, offset, callerVars, future, closeVars>>

(***************************************************************************)
(* submit                                                                  *)
(***************************************************************************)
\* The stop event is read; the put comes later.
Submit(s) ==
  /\ pc[s] = "idle" /\ ~stop
  /\ \E n \in 1..MaxTexts : size' = [size EXCEPT ![s] = n]
  /\ pc' = [pc EXCEPT ![s] = "putting"]
  /\ future' = [future EXCEPT ![s] = Pending]
  /\ UNCHANGED <<queue, stop, workerVars, closeVars>>

Enqueue(s) ==
  /\ pc[s] = "putting" /\ Len(queue) < Capacity
  /\ queue' = Append(queue, Job(s))
  /\ pc' = [pc EXCEPT ![s] = "waiting"]
  /\ UNCHANGED <<stop, workerVars, size, future, closeVars>>

Return(s) ==
  /\ pc[s] = "waiting" /\ future[s] # Pending
  /\ pc' = [pc EXCEPT ![s] = "idle"]
  /\ future' = [future EXCEPT ![s] = Pending]
  /\ UNCHANGED <<queue, stop, workerVars, size, closeVars>>

(***************************************************************************)
(* The worker: _run, _next_job, _gather_jobs                               *)
(***************************************************************************)
Check ==
  /\ worker = "check"
  /\ worker' = IF stop THEN "exited" ELSE "next"
  /\ UNCHANGED <<queue, stop, batch, fused, failed, offset, callerVars, future, closeVars>>

\* An empty queue times out, a sentinel stops: both go back to the loop's test.
NextNone ==
  /\ worker = "next"
  /\ \/ queue = <<>> /\ UNCHANGED <<queue, stop>>
     \/ /\ queue # <<>> /\ Head(queue) = Sentinel
        /\ queue' = Tail(queue) /\ stop' = TRUE
  /\ worker' = "check"
  /\ UNCHANGED <<batch, fused, failed, offset, callerVars, future, closeVars>>

TakeJob ==
  /\ queue # <<>> /\ Head(queue) # Sentinel
  /\ queue' = Tail(queue)
  /\ batch' = Append(batch, Head(queue))
  /\ fused' = fused \o Texts(Head(queue))
  /\ UNCHANGED <<stop, failed, offset, callerVars, future, closeVars>>

NextJob == worker = "next" /\ worker' = "gather" /\ TakeJob

GatherJob ==
  /\ worker = "gather" /\ Len(fused) < MicroBatch
  /\ worker' = "gather" /\ TakeJob

\* The batch is full, the wait is over, or a sentinel was read.
GatherEnds ==
  /\ worker = "gather"
  /\ \/ UNCHANGED <<queue, stop>>
     \/ /\ Len(fused) < MicroBatch
        /\ queue # <<>> /\ Head(queue) = Sentinel
        /\ queue' = Tail(queue) /\ stop' = TRUE
  /\ worker' = "emit"
  /\ UNCHANGED <<batch, fused, failed, offset, callerVars, future, closeVars>>

\* _emit returns one row per text, in order, or raises.
Emit ==
  /\ worker = "emit"
  /\ failed' \in BOOLEAN
  /\ offset' = 0
  /\ worker' = "deliver"
  /\ UNCHANGED <<queue, stop, batch, fused, callerVars, future, closeVars>>

\* set_result, or the set_exception of __exit__: one future after the other.
Deliver ==
  /\ worker = "deliver" /\ batch # <<>>
  /\ LET job == Head(batch)
     IN  /\ future' = [future EXCEPT ![job.by] =
              IF failed THEN Raised
                        ELSE Rows(SubSeq(fused, offset + 1, offset + job.count))]
         /\ offset' = offset + job.count
  /\ batch' = Tail(batch)
  /\ UNCHANGED <<queue, stop, worker, fused, failed, callerVars, closeVars>>

BatchDone ==
  /\ worker = "deliver" /\ batch = <<>>
  /\ worker' = "check" /\ fused' = <<>> /\ failed' = FALSE /\ offset' = 0
  /\ UNCHANGED <<queue, stop, batch, callerVars, future, closeVars>>

(***************************************************************************)
(* close of the executor, then of the provider                             *)
(***************************************************************************)
CloseStop(c) ==
  /\ closer[c] = "open"
  /\ stop' = TRUE
  /\ closer' = [closer EXCEPT ![c] = "putting"]
  /\ UNCHANGED <<queue, workerVars, callerVars, future, released>>

ClosePut(c) ==
  /\ closer[c] = "putting" /\ Len(queue) < Capacity
  /\ queue' = Append(queue, Sentinel)
  /\ closer' = [closer EXCEPT ![c] = "joining"]
  /\ UNCHANGED <<stop, workerVars, callerVars, future, released>>

\* join(timeout=1) returns when the worker has exited, and after a second anyway.
CloseRelease(c) ==
  /\ closer[c] = "joining"
  /\ closer' = [closer EXCEPT ![c] = "closed"]
  /\ released' = TRUE
  /\ UNCHANGED <<queue, stop, workerVars, callerVars, future>>

WorkerStep ==
  Check \/ NextNone \/ NextJob \/ GatherJob \/ GatherEnds \/ Emit \/ Deliver \/ BatchDone

Next ==
  \/ WorkerStep
  \/ \E s \in Submitters : Submit(s) \/ Enqueue(s) \/ Return(s)
  \/ \E c \in Closers : CloseStop(c) \/ ClosePut(c) \/ CloseRelease(c)

Spec == Init /\ [][Next]_vars

\* The worker runs and emissions end; a blocked put gets its turn when slots keep
\* falling free; a caller whose future is set takes it.
Fairness ==
  /\ WF_vars(WorkerStep)
  /\ \A s \in Submitters : SF_vars(Enqueue(s)) /\ WF_vars(Return(s))
  /\ \A c \in Closers : SF_vars(ClosePut(c)) /\ WF_vars(CloseRelease(c))

FairSpec == Spec /\ Fairness

(***************************************************************************)
(* Properties                                                              *)
(***************************************************************************)
Times(s, q) == Cardinality({i \in 1..Len(q) : q[i] = Job(s)})
Resolved(s) == future[s] # Pending

\* Every variable keeps its kind of value; the queue never exceeds its capacity.
TypeOK ==
  /\ Len(queue) <= Capacity
  /\ \A i \in 1..Len(queue) : queue[i] = Sentinel \/ \E s \in Submitters : queue[i] = Job(s)
  /\ stop \in BOOLEAN /\ failed \in BOOLEAN /\ released \in BOOLEAN
  /\ worker \in {"check", "next", "gather", "emit", "deliver", "exited"}
  /\ \A i \in 1..Len(batch) : \E s \in Submitters : batch[i] = Job(s)
  /\ offset \in 0..Len(fused)
  /\ pc \in [Submitters -> {"idle", "putting", "waiting"}]
  /\ size \in [Submitters -> 1..MaxTexts]
  /\ closer \in [Closers -> {"open", "putting", "joining", "closed"}]

\* submit: a caller that waits has its job in exactly one place - the queue, the
\* worker's batch, or its future - so no job is lost or embedded twice.
JobsConserved ==
  \A s \in Submitters :
    Times(s, queue) + Times(s, batch) + (IF Resolved(s) THEN 1 ELSE 0)
      = (IF pc[s] = "waiting" THEN 1 ELSE 0)

\* set_result: the rows a caller gets are those of its own texts, in their order,
\* whatever it was fused with.
RowsAligned ==
  \A s \in Submitters :
    Resolved(s) => future[s] \in {Raised, Rows(Texts(Job(s)))}

\* _gather_jobs stops at the job that fills the batch: what was gathered before
\* the last job is below the target size.
BatchBounded ==
  worker \in {"gather", "emit"} =>
    batch # <<>> /\ Len(fused) - Last(batch).count < MicroBatch

\* Each call is answered once, with its own rows or a failure, while it waits:
\* the executor with its queue, batches and closes is what EmbedCalls promises.
Calls == INSTANCE EmbedCalls WITH
           Callers <- Submitters, NoAnswer <- Pending, Failure <- Raised,
           asked <- [s \in Submitters |-> IF pc[s] = "idle" THEN 0 ELSE size[s]],
           answer <- future
ImplementsCalls == Calls!CallsSpec

\* A caller that waits without an answer has its job on the queue or in a batch of a
\* worker at work, and until a close the worker is there: the safety half of
\* TakenJobsAnswered and SubmitReturns.
WaitersHaveWorker ==
  /\ \A s \in Submitters : pc[s] = "waiting" /\ ~Resolved(s) =>
       \/ \E i \in 1..Len(queue) : queue[i] = Job(s)
       \/ /\ \E i \in 1..Len(batch) : batch[i] = Job(s)
          /\ worker \in {"gather", "emit", "deliver"}
  /\ worker = "exited" => stop

\* What the worker has taken is answered even if the executor is closed meanwhile
\* (by JobsConserved a job leaves the batch for its caller's future only).
TakenJobsAnswered == batch # <<>> ~> batch = <<>>

\* The worker thread ends after a close, whatever is on the queue.
WorkerStops == stop ~> worker = "exited"

\* Until a close every submit returns, however the jobs are fused and whatever
\* emissions fail.
SubmitReturns == \A s \in Submitters : pc[s] = "putting" ~> pc[s] = "idle" \/ stop

\* The docstring of _BoundedBatchExecutor.close: "Stop the background worker and
\* drain the queue."
CloseDrains ==
  worker = "exited" /\ (\E c \in Closers : closer[c] = "closed") =>
    \A s \in Submitters : Times(s, queue) = 0
=============================================================================
