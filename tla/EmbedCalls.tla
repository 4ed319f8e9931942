----------------------------- MODULE EmbedCalls -----------------------------
(***************************************************************************)
(* What the batch executor promises to its callers                         *)
(* (src/codeintel_rev/embeddings/embedding_service.py): a call with some   *)
(* texts is answered at most once, while it is in progress, with exactly   *)
(* its own rows or with a failure, and the answer stands until the caller  *)
(* has taken it.  Queues, batches and the worker are left open.            *)
(***************************************************************************)
EXTENDS Naturals

CONSTANTS Callers, MaxTexts, NoAnswer, Failure

VARIABLES
  asked,   \* the number of texts of each caller's call, 0 outside a call
  answer   \* what each call was answered

callVars == <<asked, answer>>

RowsFor(c) == [kind |-> "rows", rows |-> [i \in 1..asked[c] |-> <<c, i>>]]

CallsInit == asked = [c \in Callers |-> 0] /\ answer = [c \in Callers |-> NoAnswer]

Ask(c) ==
  /\ asked[c] = 0
  /\ \E n \in 1..MaxTexts : asked' = [asked EXCEPT ![c] = n]
  /\ UNCHANGED answer

Answer(c) ==
  /\ asked[c] # 0 /\ answer[c] = NoAnswer
  /\ answer' \in {[answer EXCEPT ![c] = Failure], [answer EXCEPT ![c] = RowsFor(c)]}
  /\ UNCHANGED asked

Take(c) ==
  /\ answer[c] # NoAnswer
  /\ asked' = [asked EXCEPT ![c] = 0]
  /\ answer' = [answer EXCEPT ![c] = NoAnswer]

CallsNext == \E c \in Callers : Ask(c) \/ Answer(c) \/ Take(c)

CallsSpec == CallsInit /\ [][CallsNext]_callVars
=============================================================================
