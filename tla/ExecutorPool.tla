---------------------------- MODULE ExecutorPool ----------------------------
(***************************************************************************)
(* The coordinator and its pool of executor workers                        *)
(* (src/server/runtime/{coordinator,executorPool,executorWorkerMain,       *)
(* workerSticky,unitOfWork,eventBus}.ts).                                  *)
(*                                                                         *)
(* A frame becomes a job.  The pool posts it to an idle slot or queues it  *)
(* behind a busy one; the worker runs it in a Scope, may call the          *)
(* coordinator and wait, commits its transaction and posts the result with *)
(* the events and commands it has collected.  The coordinator frees the    *)
(* slot, starts what is queued, delivers the events, applies the commands  *)
(* and answers.                                                            *)
(*                                                                         *)
(* Messages between a worker and the coordinator are two FIFO channels.    *)
(* Everything the coordinator does for one message, with the promise       *)
(* continuations that run before the next one, is one action.              *)
(***************************************************************************)
EXTENDS Naturals, Sequences, FiniteSets

CONSTANTS Jobs,       \* the frames clients will send
          SlotCount,  \* executorWorkerCount()
          NoJob,
          Admits      \* "busyDeath", "idleDeath", "stop": see Worker failures

ASSUME PoolAssumption == /\ SlotCount \in Nat \ {0}
                         /\ NoJob \notin Jobs

Slots == 1 .. SlotCount

VARIABLES state,    \* [Jobs -> what the session that sent it knows]
          slot,     \* ExecutorWorkerSlot: pending, busy, queue
          cursor,   \* round robin over busy slots
          inbox,    \* ParentMessages on their way to each worker
          outbox,   \* WorkerMessages on their way to the coordinator
          worker,   \* per worker: alive, and the jobs it is running
          step,     \* per job inside its worker: none, begun, calling, resumed, over
          calling,  \* <<slot, job>>: RPCs the coordinator is serving
          runs,     \* history: how often a job was started
          written,  \* jobs whose transaction is in the database
          events,   \* jobs that have collected events and commands
          applied,  \* jobs whose commands the coordinator has applied
          wire,     \* frames sent since the process started
          process   \* "up", "closing"

vars == <<state, slot, cursor, inbox, outbox, worker, step, calling, runs,
          written, events, applied, wire, process>>

Message(type, j) == [type |-> type, job |-> j]
Messages == [type : {"job", "done", "rpc", "rpc-result", "error", "shutdown"},
             job : Jobs \cup {NoJob}]
SlotStates == [busy : BOOLEAN, pending : SUBSET Jobs, queue : Seq(Jobs)]

FreshSlot == [busy |-> FALSE, pending |-> {}, queue |-> <<>>]

\* The memory of a process that has just started its workers.
FreshMemory == /\ slot' = [i \in Slots |-> FreshSlot]
               /\ cursor' = 0
               /\ inbox' = [i \in Slots |-> <<>>]
               /\ outbox' = [i \in Slots |-> <<>>]
               /\ worker' = [i \in Slots |-> [alive |-> TRUE, running |-> {}]]
               /\ step' = [j \in Jobs |-> "none"]
               /\ calling' = {}
               /\ events' = {}
               /\ wire' = <<>>
               /\ process' = "up"

Init == /\ state = [j \in Jobs |-> "new"]
        /\ slot = [i \in Slots |-> FreshSlot]
        /\ cursor = 0
        /\ inbox = [i \in Slots |-> <<>>]
        /\ outbox = [i \in Slots |-> <<>>]
        /\ worker = [i \in Slots |-> [alive |-> TRUE, running |-> {}]]
        /\ step = [j \in Jobs |-> "none"]
        /\ calling = {}
        /\ runs = [j \in Jobs |-> 0]
        /\ written = {}
        /\ events = {}
        /\ applied = {}
        /\ wire = <<>>
        /\ process = "up"

-----------------------------------------------------------------------------
(* Sending a job to a worker. *)

\* postMessage to a worker that has died is dropped without an error.
Deliver(i, m) == IF worker[i].alive THEN Append(inbox[i], m) ELSE inbox[i]

IdleSlots == {i \in Slots : ~slot[i].busy}

\* slots.find(idle) takes the first; otherwise the cursor goes round.
Chosen == IF IdleSlots # {}
          THEN CHOOSE i \in IdleSlots : \A k \in IdleSlots : i <= k
          ELSE (cursor % SlotCount) + 1

\* Mutant of Occupied: the slot is not marked busy.
OccupiedUnmarked(s, j) == [s EXCEPT !.pending = @ \cup {j}]

\* Mutant of Occupied: nobody waits for the result.
OccupiedUnheard(s, j) == [s EXCEPT !.busy = TRUE]

\* What submit's run() does to the record of a slot.
Occupied(s, j) == [s EXCEPT !.busy = TRUE, !.pending = @ \cup {j}]

\* A frame arrives on an open socket and becomes a job.
Submit(j) ==
  /\ process = "up"
  /\ state[j] = "new"
  /\ state' = [state EXCEPT ![j] = "accepted"]
  /\ cursor' = (cursor + 1) % SlotCount
  /\ LET i == Chosen
     IN \/ /\ slot[i].busy
           /\ slot' = [slot EXCEPT ![i].queue = Append(@, j)]
           /\ UNCHANGED inbox
        \/ /\ ~slot[i].busy
           /\ slot' = [slot EXCEPT ![i] = Occupied(@, j)]
           /\ inbox' = [inbox EXCEPT ![i] = Deliver(i, Message("job", j))]
  /\ UNCHANGED <<outbox, worker, step, calling, runs, written, events, applied, wire, process>>

-----------------------------------------------------------------------------
(* Inside a worker. *)

Running(i, j) == worker[i].alive /\ j \in worker[i].running

TakeJob(i) ==
  /\ worker[i].alive
  /\ inbox[i] # <<>>
  /\ Head(inbox[i]).type = "job"
  /\ LET j == Head(inbox[i]).job
     IN /\ worker' = [worker EXCEPT ![i].running = @ \cup {j}]
        /\ step' = [step EXCEPT ![j] = "begun"]
        /\ runs' = [runs EXCEPT ![j] = @ + 1]
  /\ inbox' = [inbox EXCEPT ![i] = Tail(@)]
  /\ UNCHANGED <<state, slot, cursor, outbox, calling, written, events, applied, wire, process>>

\* What a transaction that publishes leaves in the job's queue: UnitOfWork hands the
\* deferred events over after the outermost commit and drops them on a rollback.
Collected(j, commits) == IF commits THEN events \cup {j} ELSE events

Transaction(i, j, commits) ==
  /\ Running(i, j)
  /\ step[j] \in {"begun", "resumed"}
  /\ written' = IF commits THEN written \cup {j} ELSE written
  /\ events' = Collected(j, commits)
  /\ step' = [step EXCEPT ![j] = "over"]
  /\ UNCHANGED <<state, slot, cursor, inbox, outbox, worker, calling, runs, applied, wire, process>>

\* await rpc(...): the job waits for the coordinator; RPC_TIMEOUT_MS cancels nothing.
CallCoordinator(i, j) ==
  /\ Running(i, j)
  /\ step[j] = "begun"
  /\ step' = [step EXCEPT ![j] = "calling"]
  /\ outbox' = [outbox EXCEPT ![i] = Append(@, Message("rpc", j))]
  /\ UNCHANGED <<state, slot, cursor, inbox, worker, calling, runs, written, events, applied, wire, process>>

TakeRpcResult(i) ==
  /\ worker[i].alive
  /\ inbox[i] # <<>>
  /\ Head(inbox[i]).type = "rpc-result"
  /\ step' = [step EXCEPT ![Head(inbox[i]).job] = "resumed"]
  /\ inbox' = [inbox EXCEPT ![i] = Tail(@)]
  /\ UNCHANGED <<state, slot, cursor, outbox, worker, calling, runs, written, events, applied, wire, process>>

\* runJob returns, with the result or with the incident of its error.
Finish(i, j) ==
  /\ Running(i, j)
  /\ step[j] \in {"begun", "resumed", "over"}
  /\ worker' = [worker EXCEPT ![i].running = @ \ {j}]
  /\ step' = [step EXCEPT ![j] = "none"]
  /\ outbox' = [outbox EXCEPT ![i] = Append(@, Message("done", j))]
  /\ UNCHANGED <<state, slot, cursor, inbox, calling, runs, written, events, applied, wire, process>>

-----------------------------------------------------------------------------
(* The coordinator hears of its workers. *)

TakeRpc(i) ==
  /\ outbox[i] # <<>>
  /\ Head(outbox[i]).type = "rpc"
  /\ calling' = calling \cup {<<i, Head(outbox[i]).job>>}
  /\ outbox' = [outbox EXCEPT ![i] = Tail(@)]
  /\ UNCHANGED <<state, slot, cursor, inbox, worker, step, runs, written, events, applied, wire, process>>

RpcReturns(i, j) ==
  /\ <<i, j>> \in calling
  /\ calling' = calling \ {<<i, j>>}
  /\ inbox' = [inbox EXCEPT ![i] = Deliver(i, Message("rpc-result", j))]
  /\ UNCHANGED <<state, slot, cursor, outbox, worker, step, runs, written, events, applied, wire, process>>

\* Mutant of Freed: the next job is started and stays queued.
FreedUnshifted(s, j) ==
  LET free == [s EXCEPT !.busy = FALSE, !.pending = @ \ {j}]
  IN IF s.queue = <<>> THEN free ELSE Occupied(free, Head(s.queue))

\* Mutant of Freed: what is queued waits for somebody else to start it.
FreedIdle(s, j) == [s EXCEPT !.busy = FALSE, !.pending = @ \ {j}]

\* onMessage(done): the slot is freed, and runs the head of its queue if it has one.
Freed(s, j) ==
  LET free == [s EXCEPT !.busy = FALSE, !.pending = @ \ {j}]
  IN IF s.queue = <<>> THEN free
     ELSE Occupied([free EXCEPT !.queue = Tail(@)], Head(s.queue))

\* execute(): the events first, then the commands; the session answers after it.
FramesOf(j) ==
  (IF j \in events THEN <<[kind |-> "event", job |-> j]>> ELSE <<>>)
    \o <<[kind |-> "answer", job |-> j]>>

TakeDone(i) ==
  /\ outbox[i] # <<>>
  /\ Head(outbox[i]).type = "done"
  /\ LET j == Head(outbox[i]).job
         started == Freed(slot[i], j).pending \ (slot[i].pending \ {j})
         heard == j \in slot[i].pending
         open == state[j] = "accepted"     \* send() looks at the state of the socket
     IN /\ slot' = [slot EXCEPT ![i] = Freed(@, j)]
        /\ inbox' = [inbox EXCEPT ![i] =
                       IF started = {} THEN @
                       ELSE Deliver(i, Message("job", CHOOSE k \in started : TRUE))]
        /\ applied' = IF heard /\ j \in events THEN applied \cup {j} ELSE applied
        /\ state' = [state EXCEPT ![j] = IF heard /\ open THEN "answered" ELSE @]
        /\ wire' = IF heard /\ open THEN wire \o FramesOf(j) ELSE wire
  /\ outbox' = [outbox EXCEPT ![i] = Tail(@)]
  /\ UNCHANGED <<cursor, worker, step, calling, runs, written, events, process>>

-----------------------------------------------------------------------------
(* Worker failures and the end of the process.                             *)
(*                                                                         *)
(* The "error" listener of a slot rejects the pending job.  Nobody catches *)
(* the rejection (void session.dispatch(...)), so the process ends with    *)
(* exit code 1 and the launcher starts another.  A worker that dies with   *)
(* nothing pending is not noticed: its slot goes on being idle.            *)

Dies(i) ==
  /\ worker[i].alive
  /\ \/ "busyDeath" \in Admits /\ worker[i].running # {}
     \/ "idleDeath" \in Admits /\ worker[i].running = {}
  /\ worker' = [worker EXCEPT ![i] = [alive |-> FALSE, running |-> {}]]
  /\ step' = [j \in Jobs |-> IF j \in worker[i].running THEN "none" ELSE step[j]]
  /\ inbox' = [inbox EXCEPT ![i] = <<>>]
  /\ outbox' = [outbox EXCEPT ![i] = Append(@, Message("error", NoJob))]
  /\ UNCHANGED <<state, slot, cursor, calling, runs, written, events, applied, wire, process>>

Unanswered == {j \in Jobs : state[j] = "accepted"}

LoseSockets == state' = [j \in Jobs |-> IF j \in Unanswered THEN "dropped" ELSE state[j]]

TakeError(i) ==
  /\ outbox[i] # <<>>
  /\ Head(outbox[i]).type = "error"
  /\ \/ /\ slot[i].pending # {}
        /\ LoseSockets
        /\ FreshMemory
     \/ /\ slot[i].pending = {}
        /\ outbox' = [outbox EXCEPT ![i] = Tail(@)]
        /\ UNCHANGED <<state, slot, cursor, inbox, worker, step, calling, events, wire, process>>
  /\ UNCHANGED <<runs, written, applied>>

\* SIGTERM: protocol.close() closes the sockets, then the pool posts "shutdown".
Stop ==
  /\ "stop" \in Admits
  /\ process = "up"
  /\ process' = "closing"
  /\ LoseSockets
  /\ inbox' = [i \in Slots |-> Deliver(i, Message("shutdown", NoJob))]
  /\ UNCHANGED <<slot, cursor, outbox, worker, step, calling, runs, written, events, applied, wire>>

\* process.exit(0) in the worker, or terminate() after two seconds.
Exit(i) ==
  /\ process = "closing"
  /\ worker[i].alive
  /\ worker' = [worker EXCEPT ![i] = [alive |-> FALSE, running |-> {}]]
  /\ step' = [j \in Jobs |-> IF j \in worker[i].running THEN "none" ELSE step[j]]
  /\ inbox' = [inbox EXCEPT ![i] = <<>>]
  /\ UNCHANGED <<state, slot, cursor, outbox, calling, runs, written, events, applied, wire, process>>

Restart ==
  /\ process = "closing"
  /\ \A i \in Slots : ~worker[i].alive
  /\ FreshMemory
  /\ UNCHANGED <<state, runs, written, applied>>

-----------------------------------------------------------------------------
WorkerStep(i) == \/ TakeJob(i)
                 \/ TakeRpcResult(i)
                 \/ \E j \in Jobs : \/ \E commits \in BOOLEAN : Transaction(i, j, commits)
                                    \/ CallCoordinator(i, j)
                                    \/ Finish(i, j)

CoordinatorStep(i) == \/ TakeDone(i)
                      \/ TakeRpc(i)
                      \/ TakeError(i)
                      \/ \E j \in Jobs : RpcReturns(i, j)

Failure == \/ \E i \in Slots : Dies(i) \/ Exit(i)
           \/ Stop
           \/ Restart

Next == \/ \E j \in Jobs : Submit(j)
        \/ \E i \in Slots : WorkerStep(i) \/ CoordinatorStep(i)
        \/ Failure

\* Both event loops go on; nothing is assumed of failures, restarts or clients.
\* One call to the coordinator at most and one transaction at most: a job ends.
Fairness == \A i \in Slots : WF_vars(WorkerStep(i)) /\ WF_vars(CoordinatorStep(i))

Spec == Init /\ [][Next]_vars
FairSpec == Spec /\ Fairness
=============================================================================
