------------------------------- MODULE AiRuns -------------------------------
(***************************************************************************)
(* AI runs and their credits: the job of an executor worker that reserves  *)
(* credits and creates a run (server/services/ai/aiService.ts), the        *)
(* execution that the coordinator starts when the job is done, the         *)
(* cancellation that reaches it as a row and as a message                  *)
(* (server/runtime/aiExecutionRuntime.ts), and the ledger of               *)
(* server/data/ai.ts: plan windows, top-up balance, reservations and their *)
(* settlement.                                                             *)
(*                                                                         *)
(* There is one user, whose account all runs share.  A conversation has the *)
(* name of the run that created it.  What the provider calls of a run cost  *)
(* together is chosen when the run is settled: the costs are added up for   *)
(* nothing but the settlement, which charges at most what is held.          *)
(***************************************************************************)
EXTENDS Integers, FiniteSets, Functions

CONSTANTS
    Runs, Searches,        \* runs and tag searches that can be asked for
    Old,                   \* conversations from before
    RunHold, SearchHold,   \* reservationFor, auxiliaryReservation
    Daily, Weekly,         \* the billing policy
    WeekLength,            \* days of an accounting week
    MaxDay,                \* bound: days that begin
    TopUpKeys, TopUp,      \* top-ups the administrator may book, and their amount
    MaxRounds,             \* maxToolRounds + 1
    Admits                 \* what the environment may do, see Behaviours

Ops == Runs \cup Searches

(***************************************************************************)
(*   crashDuringSearch  the server stops while a search waits for the      *)
(*                      provider                                           *)
(*   workerLoss         a worker dies between the commit of its job's      *)
(*                      reservation and the end of the job                 *)
(***************************************************************************)
Behaviours == {"crashDuringSearch", "workerLoss"}

ASSUME CreditAssumption ==
    /\ IsFiniteSet(Ops) /\ Runs \cap Searches = {} /\ Old \cap Ops = {}
    /\ RunHold \in Nat /\ SearchHold \in Nat /\ Daily \in Nat /\ Weekly \in Nat
    /\ WeekLength \in Nat \ {0} /\ MaxDay \in Nat /\ TopUp \in Nat
    /\ MaxRounds \in Nat \ {0}
    /\ Admits \subseteq Behaviours

VARIABLES
    today, enrolled,    \* the accounting day; whether a plan enrollment is active
    topUp, reserved,    \* ai_credit_accounts
    booked,             \* idempotency keys of top-ups in the ledger
    holds,              \* ai_credit_reservations: status by operation
    usage,              \* ai_credit_usage by operation
    runs,               \* ai_runs
    job,                \* the jobs of the executor workers
    exec,               \* executions on the coordinator
    aborts,             \* ai.abort messages on their way to the coordinator
    up

accountVars == <<topUp, reserved, holds, usage>>
planVars    == <<today, enrolled, booked>>
vars        == <<planVars, accountVars, runs, job, exec, aborts, up>>

Active    == {"queued", "routing", "running"}
Terminal  == {"completed", "failed", "cancelled"}
ExecSteps == {"none", "routing", "ready", "streaming", "metadata"}
LastSteps == {"streaming", "metadata"}   \* no look at the cancellation may follow
JobSteps  == {"none", "quoted", "begun", "asking", "over"}

NoUsage == [day |-> -1, plan |-> 0, top |-> 0, planned |-> FALSE]
NoExec  == [step |-> "none", round |-> 0, aborted |-> FALSE]

Hold(o) == IF o \in Runs THEN RunHold ELSE SearchHold

Init ==
    /\ today = 0 /\ enrolled = TRUE
    /\ topUp = 0 /\ reserved = 0 /\ booked = {}
    /\ holds = [o \in Ops |-> "none"] /\ usage = [o \in Ops |-> NoUsage]
    /\ runs = [r \in Runs |-> [status |-> "none", conv |-> r, charged |-> 0,
                               cancelled |-> "no"]]
    /\ job = [o \in Ops |-> [step |-> "none", conv |-> o]]
    /\ exec = [r \in Runs |-> NoExec] /\ aborts = {}
    /\ up = TRUE

-----------------------------------------------------------------------------
(***************************************************************************)
(* The ledger.                                                             *)
(***************************************************************************)
Lesser(a, b)    == IF a < b THEN a ELSE b
Greater(a, b)   == IF a < b THEN b ELSE a
WeekOf(day)     == day \div WeekLength
PlanUsed(S)     == SumFunctionOnSet([o \in Ops |-> usage[o].plan], S)
UsedToday       == PlanUsed({o \in Ops : usage[o].day = today})
UsedThisWeek    == PlanUsed({o \in Ops : usage[o].day >= 0 /\ WeekOf(usage[o].day) = WeekOf(today)})

\* Two ceilings: what is left of the plan is what both leave.
PlanLeft ==
    IF enrolled THEN Greater(0, Lesser(Daily - UsedToday, Weekly - UsedThisWeek)) ELSE 0

\* getAiCreditBalance
Available == Greater(0, PlanLeft + topUp - reserved)

\* Mutant: the quote is trusted.
FitsAnyway(o) == Hold(o) >= 0

Fits(o) == Available >= Hold(o)

Released(o, charge) == Hold(o)

\* Mutant: the top-up balance is kept for the other reservations.
CollectsUnreserved(charge) == Lesser(charge, Greater(0, topUp - reserved))

Collectible(charge) == Lesser(charge, topUp)

Reserve(o) ==
    /\ holds' = [holds EXCEPT ![o] = "active"]
    /\ reserved' = reserved + Hold(o)
    /\ UNCHANGED <<topUp, usage>>

\* settleCredits: the plan pays first; what neither plan nor top-up covers is lost.
Settle(o, cost) ==
    IF holds[o] # "active" THEN UNCHANGED accountVars
    ELSE LET actual == Lesser(Hold(o), cost)
             plan   == Lesser(actual, PlanLeft)
             top    == Collectible(actual - plan) IN
         /\ topUp' = topUp - top
         /\ reserved' = Greater(0, reserved - Released(o, actual))
         /\ holds' = [holds EXCEPT ![o] = "settled"]
         /\ usage' = [usage EXCEPT ![o] = [day |-> today, plan |-> plan, top |-> top,
                                           planned |-> enrolled]]

-----------------------------------------------------------------------------
(***************************************************************************)
(* Jobs of the executor workers.                                           *)
(***************************************************************************)
OverJob(o) == [step |-> "over", conv |-> o]
EndJob(o)  == job' = [job EXCEPT ![o] = OverJob(o)]

ActiveIn(c) == {q \in Runs : runs[q].status \in Active /\ runs[q].conv = c}

\* start up to its await: an idle conversation, or a new one, and a quote.
Quote(r) ==
    /\ up /\ job[r].step = "none"
    /\ \E c \in {r} \cup Old \cup {runs[q].conv : q \in {p \in Runs : runs[p].status # "none"}} :
          /\ ActiveIn(c) = {} /\ Fits(r)
          /\ job' = [job EXCEPT ![r] = [step |-> "quoted", conv |-> c]]
    /\ UNCHANGED <<planVars, accountVars, runs, exec, aborts, up>>

\* Mutant: nothing but the quote looks for an active run.
NeverConflicts(r) == ActiveIn(r) # ActiveIn(r)

\* idx_ai_runs_one_active_conversation
Conflicts(r) == ActiveIn(job[r].conv) # {}

\* The transaction of start: run and reservation, or neither.
Begin(r) ==
    /\ up /\ job[r].step = "quoted"
    /\ IF Conflicts(r) \/ ~Fits(r)
       THEN EndJob(r) /\ UNCHANGED <<accountVars, runs>>
       ELSE /\ job' = [job EXCEPT ![r].step = "begun"]
            /\ runs' = [runs EXCEPT ![r] = [@ EXCEPT !.status = "queued", !.conv = job[r].conv]]
            /\ Reserve(r)
    /\ UNCHANGED <<planVars, exec, aborts, up>>

\* The coordinator applies ai.execute when the job is done: begin, then routing.
Done(r) ==
    /\ up /\ job[r].step = "begun"
    /\ EndJob(r)
    /\ exec' = [exec EXCEPT ![r].step = "routing"]
    /\ runs' = [runs EXCEPT ![r].status = "routing"]
    /\ UNCHANGED <<planVars, accountVars, aborts, up>>

\* search asks the provider for tags, or does without.
Search(s) ==
    /\ up /\ job[s].step = "none"
    /\ IF Fits(s) THEN job' = [job EXCEPT ![s].step = "asking"] /\ Reserve(s)
       ELSE EndJob(s) /\ UNCHANGED accountVars
    /\ UNCHANGED <<planVars, runs, exec, aborts, up>>

SearchEnds(s) ==
    /\ up /\ job[s].step = "asking"
    /\ EndJob(s)
    /\ \E cost \in 0..SearchHold : Settle(s, cost)
    /\ UNCHANGED <<planVars, runs, exec, aborts, up>>

\* requestAiRunCancellation, then a message nobody waits for.  The row remembers
\* only that it was asked for; whether it came late is recorded for the properties.
Cancel(r) ==
    /\ up /\ runs[r].status \in Active /\ runs[r].cancelled = "no"
    /\ runs' = [runs EXCEPT ![r].cancelled =
                    IF exec[r].step \in LastSteps THEN "late" ELSE "in time"]
    /\ aborts' = aborts \cup {r}
    /\ UNCHANGED <<planVars, accountVars, job, exec, up>>

-----------------------------------------------------------------------------
(***************************************************************************)
(* Executions on the coordinator.  Each step ends where the code awaits.   *)
(***************************************************************************)
ExecFrame == UNCHANGED <<planVars, job, aborts, up>>

\* The controller of a run that has not begun, or is over, does not exist.
HandleAbort(r) ==
    /\ r \in aborts /\ aborts' = aborts \ {r}
    /\ exec' = IF exec[r].step = "none" THEN exec ELSE [exec EXCEPT ![r].aborted = TRUE]
    /\ UNCHANGED <<planVars, accountVars, runs, job, up>>

\* finishAndSettleAiRun
Finish(r, status) ==
    /\ \E cost \in 0..RunHold :
          /\ runs' = [runs EXCEPT ![r] = [@ EXCEPT !.status = status, !.charged = cost]]
          /\ Settle(r, cost)
    /\ exec' = [exec EXCEPT ![r] = NoExec]

\* The routing call and the compaction, whose failures are contained; a fork may
\* move the run to a conversation of its own.
RouteAnswers(r) ==
    /\ exec[r].step = "routing"
    /\ exec' = [exec EXCEPT ![r].step = "ready"]
    /\ \E c \in {runs[r].conv, r} :
          runs' = [runs EXCEPT ![r] = [@ EXCEPT !.status = "running", !.conv = c]]
    /\ UNCHANGED accountVars /\ ExecFrame

\* Mutant: only the signal is looked at.
OnlyAborted(r) == exec[r].aborted

CancelSeen(r) == exec[r].aborted \/ runs[r].cancelled # "no"

RoundBegins(r) ==
    /\ exec[r].step = "ready" /\ ~CancelSeen(r)
    /\ exec' = [exec EXCEPT ![r] = [@ EXCEPT !.step = "streaming", !.round = exec[r].round + 1]]
    /\ UNCHANGED <<accountVars, runs>> /\ ExecFrame

RoundRefused(r) ==
    /\ exec[r].step = "ready" /\ CancelSeen(r)
    /\ Finish(r, "cancelled")
    /\ ExecFrame

\* No model fits, the workspace cannot be read, or a tool fails.
RoundFails(r) ==
    /\ exec[r].step = "ready"
    /\ Finish(r, "failed")
    /\ ExecFrame

StreamEnds(r) ==
    /\ exec[r].step = "streaming"
    /\ \E next \in {"ready", "metadata"} :
          /\ next = "ready" => exec[r].round < MaxRounds
          /\ exec' = [exec EXCEPT ![r].step = next]
    /\ UNCHANGED <<accountVars, runs>> /\ ExecFrame

\* The provider fails, or the signal ends the stream early; the error that the
\* provider's client then throws may or may not be the AbortError that means "cancelled".
StreamFails(r) ==
    /\ exec[r].step = "streaming"
    /\ \E status \in {"failed"} \cup (IF exec[r].aborted THEN {"cancelled"} ELSE {}) :
          Finish(r, status)
    /\ ExecFrame

\* The title and the tags; a failure is contained.
MetadataEnds(r) ==
    /\ exec[r].step = "metadata"
    /\ Finish(r, "completed")
    /\ ExecFrame

-----------------------------------------------------------------------------
(***************************************************************************)
(* The administrator, time and failures.                                   *)
(***************************************************************************)
BookTopUp(k) ==
    /\ up /\ k \in TopUpKeys \ booked
    /\ booked' = booked \cup {k} /\ topUp' = topUp + TopUp
    /\ UNCHANGED <<today, enrolled, reserved, holds, usage, runs, job, exec, aborts, up>>

\* assignAiPlan, or the end of the enrollment.
PlanChanges ==
    /\ enrolled' = ~enrolled
    /\ UNCHANGED <<today, booked, accountVars, runs, job, exec, aborts, up>>

DayBegins ==
    /\ today < MaxDay /\ today' = today + 1
    /\ UNCHANGED <<enrolled, booked, accountVars, runs, job, exec, aborts, up>>

\* The jobs of a dead worker are rejected.
WorkerDies(o) ==
    /\ up /\ job[o].step \in {"quoted"} \cup
                 (IF "workerLoss" \in Admits THEN {"begun", "asking"} ELSE {})
    /\ EndJob(o)
    /\ UNCHANGED <<planVars, accountVars, runs, exec, aborts, up>>

Crash ==
    /\ up
    /\ (\A s \in Searches : job[s].step # "asking") \/ "crashDuringSearch" \in Admits
    /\ up' = FALSE /\ aborts' = {} /\ exec' = [r \in Runs |-> NoExec]
    /\ job' = [o \in Ops |-> IF job[o].step = "none" THEN job[o]
                             ELSE OverJob(o)]
    /\ UNCHANGED <<planVars, accountVars, runs>>

\* Mutant: a run that nobody had begun to execute is not interrupted.
BegunRuns == {r \in Runs : runs[r].status \in {"routing", "running"}}

\* listInterruptedAiRuns
InterruptedRuns == {r \in Runs : runs[r].status \in Active}

\* The constructor of AiExecutionRuntime settles one interrupted run after the
\* other, for nothing, before the first job is taken.
Reconcile(r) ==
    /\ ~up /\ r \in InterruptedRuns
    /\ runs' = [runs EXCEPT ![r] = [@ EXCEPT !.status = "failed", !.charged = 0]]
    /\ Settle(r, 0)
    /\ UNCHANGED <<planVars, job, exec, aborts, up>>

Restart ==
    /\ ~up /\ InterruptedRuns = {} /\ up' = TRUE
    /\ UNCHANGED <<planVars, accountVars, runs, job, exec, aborts>>

-----------------------------------------------------------------------------
Provider(r) ==
    \/ RouteAnswers(r) \/ RoundBegins(r) \/ RoundRefused(r) \/ RoundFails(r)
    \/ StreamEnds(r) \/ StreamFails(r) \/ MetadataEnds(r)

RunNext(r) ==
    Quote(r) \/ Begin(r) \/ Done(r) \/ Cancel(r) \/ HandleAbort(r) \/ Provider(r) \/ Reconcile(r)

Next ==
    \/ \E r \in Runs : RunNext(r)
    \/ \E s \in Searches : Search(s) \/ SearchEnds(s)
    \/ \E o \in Ops : WorkerDies(o)
    \/ \E k \in TopUpKeys : BookTopUp(k)
    \/ PlanChanges \/ DayBegins \/ Crash \/ Restart

Spec == Init /\ [][Next]_vars
=============================================================================
