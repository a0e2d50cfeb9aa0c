-------------------------- MODULE ExecutorPoolProps --------------------------
(***************************************************************************)
(* What sessions rely on when they hand a frame to the pool.               *)
(***************************************************************************)
EXTENDS ExecutorPool, SequencesExt

\* A worker holds one request Scope at a time: jobs of one SQLite connection never
\* interleave, although onMessage in the worker would start any number of them.
RunsAlone == \A i \in Slots : Cardinality(worker[i].running) <= 1

\* Whatever the database has of a job becomes known: as long as the job is unanswered
\* and its process runs, its slot keeps it pending, and it is queued, running, or done.
CommitsAreAnnounced ==
  \A j \in written : state[j] = "accepted" =>
     \E i \in Slots : /\ j \in slot[i].pending
                      /\ \/ j \in worker[i].running
                         \/ Message("done", j) \in ToSet(outbox[i])
                         \/ ~worker[i].alive

\* The abstract contract: executed at most once, answered at most once and only then.
Contract == INSTANCE JobContract
ImplementsContract == Contract!Spec

\* A worker that has died with nothing pending: no message of it is left to be heard.
SilentlyDead(i) == process = "up" /\ ~worker[i].alive /\ outbox[i] = <<>>

\* Every accepted frame is answered or loses its socket: no job is stuck in a queue, unless
\* a worker has died idle, in which case its slot goes on taking jobs nobody runs.
JobsSettle == [](\A i \in Slots : ~SilentlyDead(i)) => Contract!Settles

Alike == Permutations(Jobs)
=============================================================================
