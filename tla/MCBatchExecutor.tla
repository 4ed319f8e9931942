-------------------------- MODULE MCBatchExecutor --------------------------
(* Finite instances of BatchExecutor for TLC, and three more statements of the *)
(* docstrings that the code does not keep: TLC refutes each of them.           *)
EXTENDS BatchExecutor

\* The docstring of submit: "The executor cannot accept new jobs after close() has
\* been called."
NoJobAfterClose ==
  [][\A s \in Submitters : (\E c \in Closers : closer[c] = "closed") =>
       ~(pc[s] = "putting" /\ pc'[s] = "waiting")]_vars

\* The docstring of _ProviderBase.close: "idempotent and safe to call multiple
\* times": every call returns.
CloseReturns == \A c \in Closers : closer[c] = "putting" ~> closer[c] = "closed"

\* The docstring of _ProviderBase.close: it "stops the worker thread" and "then
\* calls" _close_impl, so nothing is emitted from released resources.
ReleasedQuiet == released => worker # "emit"
=============================================================================
