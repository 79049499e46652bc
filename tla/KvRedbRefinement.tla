-------------------------- MODULE KvRedbRefinement --------------------------
(***************************************************************************)
(* As long as nothing expires, the redb backend implements the promise of  *)
(* KvStore: every call, however many transactions it is made of, takes     *)
(* effect at one moment.  Lookups do when their value is read, batch reads *)
(* when their snapshot is opened, writes when they commit.                 *)
(***************************************************************************)
EXTENDS KvRedb

\* The answer of a batch read is settled with its snapshot.
Settled(r) == pc[r] \in {"check", "clock"} /\ call[r].op \in {"mget", "keys"}

BatchAnswer(r) ==
  IF call[r].op = "mget" THEN [k \in call[r].keys |-> snap[r][k]]
  ELSE {k \in call[r].keys : snap[r][k] # Nil}

PhaseOf(r) ==
  CASE Settled(r) -> "done"
    [] pc[r] \in {"idle", "done", "failed"} -> pc[r]
    [] OTHER -> "called"

AnswerOf(r) ==
  CASE Settled(r) -> BatchAnswer(r)
    [] pc[r] = "done" -> ans[r]
    [] OTHER -> Nil

Phase == [r \in Requests |-> PhaseOf(r)]
Answers == [r \in Requests |-> AnswerOf(r)]
Asked == [r \in Requests |-> 0]

Promise == INSTANCE KvStore WITH
  MaxNow <- 0, TicksPerSecond <- 1,
  store <- kv, expiry <- ttl, now <- 0, changed <- 0,
  asked <- Asked, phase <- Phase, ans <- Answers

\* Without TTLs the answers of the redb backend are those of one map whose
\* operations are atomic, across aborted transactions and restarts.
ImplementsPromise == Promise!Spec

\* What a task does for a call that sets no expiry, where no timestamp is to be found.
PlainStep(r) ==
  \/ OpenBatch(r) \/ CheckRow(r) \/ ClockGet(r) \/ ReadValue(r) \/ ClockBatch(r) \/ OpenTtl(r)
  \/ BeginSet(r) \/ BeginMset(r) \/ BeginDel(r) \/ BeginIncr(r)
  \/ Commit(r) \/ Abort(r)

\* Until the next restart every request makes one call: no Reply.
PlainNext ==
  \/ \E r \in Requests : (\E c \in Calls[r] : Invoke(r, c)) \/ PlainStep(r)
  \/ Tick
  \/ Crash

\* A task, once running, goes on: its transactions are blocking calls on a thread of its
\* own.  With finitely many calls weak fairness is enough for begin_write, whose
\* condition variable does not promise to serve the waiting writers in order.
LiveSpec ==
  /\ Init /\ [][PlainNext]_vars
  /\ \A r \in Requests : WF_vars(PlainStep(r))
=============================================================================
