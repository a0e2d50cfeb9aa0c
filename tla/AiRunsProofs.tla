---------------------------- MODULE AiRunsProofs ----------------------------
(***************************************************************************)
(* Proofs about AI runs, for every set of runs, searches and conversations *)
(* and every billing policy.                                               *)
(***************************************************************************)
EXTENDS AiRunsProps, FiniteSetTheorems, WellFoundedInduction, TLAPS

\* The types of what the control of a run depends on; the ledger's are below.
Rows  == [status : {"none"} \cup Active \cup Terminal, conv : Ops \cup Old,
          charged : Nat, cancelled : {"no", "in time", "late"}]
Jobs  == [step : JobSteps, conv : Ops \cup Old]
Execs == [step : ExecSteps, round : Nat, aborted : BOOLEAN]

ControlType ==
    /\ runs \in [Runs -> Rows] /\ job \in [Ops -> Jobs] /\ exec \in [Runs -> Execs]
    /\ holds \in [Ops -> {"none", "active", "settled"}]
    /\ up \in BOOLEAN

\* A run is a row, a job and an execution; these are the combinations that exist.
InStep ==
    \A r \in Runs :
        /\ job[r].step \in {"none", "quoted"} => runs[r].status = "none"
        /\ job[r].step = "begun" => runs[r].status \in Active
        /\ exec[r].step # "none" => runs[r].status \in Active /\ job[r].step = "over"
        /\ ~up => exec[r].step = "none" /\ job[r].step # "begun"

\* After its last look at the row, and once completed, a run was not cancelled in time.
NotInTime ==
    \A r \in Runs : exec[r].step \in LastSteps \/ runs[r].status = "completed"
        => runs[r].cancelled # "in time"

\* Whoever is in the conversation that a run created finds that run still in it.
CreatorStays ==
    \A q, r \in Runs :
        /\ q # r
        /\ \/ runs[q].status # "none" /\ runs[q].conv = r
           \/ job[q].step = "quoted" /\ job[q].conv = r
        => runs[r].status # "none" /\ runs[r].conv = r

\* What a settlement does to the reservations: it ends one and touches no other.
LEMMA SettleHolds ==
    ASSUME ControlType, NEW o \in Ops, NEW cost, Settle(o, cost)
    PROVE  /\ holds' \in [Ops -> {"none", "active", "settled"}]
           /\ holds'[o] # "active"
           /\ \A p \in Ops \ {o} : holds'[p] = holds[p]
<1>1. (holds' = holds /\ holds[o] # "active") \/ holds' = [holds EXCEPT ![o] = "settled"]
  BY DEF Settle, accountVars
<1> QED
  BY <1>1 DEF ControlType

\* What the end of an execution does to the row, the reservation and the execution.
Ended(r, status) ==
    /\ \E cost \in Nat :
          runs' = [runs EXCEPT ![r] = [@ EXCEPT !.status = status, !.charged = cost]]
    /\ exec' = [exec EXCEPT ![r] = NoExec]
    /\ holds' \in [Ops -> {"none", "active", "settled"}]
    /\ holds'[r] # "active"
    /\ \A p \in Ops \ {r} : holds'[p] = holds[p]

LEMMA FinishShape ==
    ASSUME ControlType, RunHold \in Nat, NEW r \in Runs, NEW status, Finish(r, status)
    PROVE  Ended(r, status)
<1>1. PICK cost \in 0..RunHold :
         /\ runs' = [runs EXCEPT ![r] = [@ EXCEPT !.status = status, !.charged = cost]]
         /\ Settle(r, cost)
  BY DEF Finish
<1>2. cost \in Nat
  OBVIOUS
<1>3. exec' = [exec EXCEPT ![r] = NoExec]
  BY DEF Finish
<1>4. r \in Ops
  BY DEF Ops
<1> QED
  BY <1>1, <1>2, <1>3, <1>4, SettleHolds DEF Ended

\* The conversation a start may quote for.
LEMMA QuoteShape ==
    ASSUME ControlType, NEW r \in Runs, Quote(r)
    PROVE  \E c \in Ops \cup Old :
              /\ job' = [job EXCEPT ![r] = [step |-> "quoted", conv |-> c]]
              /\ c \in {r} \cup Old \/ \E q \in Runs : runs[q].status # "none" /\ runs[q].conv = c
<1>1. PICK c \in {r} \cup Old \cup {runs[q].conv : q \in {p \in Runs : runs[p].status # "none"}} :
         job' = [job EXCEPT ![r] = [step |-> "quoted", conv |-> c]]
  BY DEF Quote
<1>2. CASE c \in {r} \cup Old
  BY <1>1, <1>2 DEF Ops
<1>3. CASE c \notin {r} \cup Old
  <2>1. PICK q \in Runs : runs[q].status # "none" /\ runs[q].conv = c
    BY <1>3
  <2>2. c \in Ops \cup Old
    BY <2>1 DEF ControlType, Rows
  <2> QED BY <1>1, <2>1, <2>2
<1> QED
  BY <1>2, <1>3

\* The four ways an execution ends, and with which status.
Ends(r, status) ==
    /\ Finish(r, status) /\ ExecFrame /\ exec[r].step # "none"
    /\ status \in Terminal /\ (status = "completed" => exec[r].step = "metadata")

LEMMA ProviderShape ==
    ASSUME NEW r \in Runs, Provider(r)
    PROVE  \/ RouteAnswers(r) \/ RoundBegins(r) \/ StreamEnds(r)
           \/ \E status \in Terminal : Ends(r, status)
<1>1. CASE RoundRefused(r)
  BY <1>1 DEF RoundRefused, Ends, Terminal
<1>2. CASE RoundFails(r)
  BY <1>2 DEF RoundFails, Ends, Terminal
<1>3. CASE StreamFails(r)
  BY <1>3 DEF StreamFails, Ends, Terminal
<1>4. CASE MetadataEnds(r)
  BY <1>4 DEF MetadataEnds, Ends, Terminal
<1> QED
  BY <1>1, <1>2, <1>3, <1>4 DEF Provider

\* The actions that touch neither row, job, execution nor reservation.
Aside == UNCHANGED <<runs, job, exec, holds>> /\ (UNCHANGED up \/ Restart)

\* Every step, by what it does to a run: the cases of the proofs below.
LEMMA Cases ==
    ASSUME [Next]_vars
    PROVE  \/ \E r \in Runs : \/ Quote(r) \/ Begin(r) \/ Done(r) \/ Cancel(r)
                              \/ HandleAbort(r) \/ Reconcile(r)
                              \/ RouteAnswers(r) \/ RoundBegins(r) \/ StreamEnds(r)
                              \/ \E status \in Terminal : Ends(r, status)
           \/ \E s \in Searches : Search(s) \/ SearchEnds(s)
           \/ \E o \in Ops : WorkerDies(o)
           \/ Crash
           \/ Aside
<1>1. CASE \E r \in Runs : RunNext(r)
  BY <1>1, ProviderShape DEF RunNext
<1>2. CASE \E k \in TopUpKeys : BookTopUp(k)
  BY <1>2 DEF BookTopUp, Aside
<1>3. CASE PlanChanges \/ DayBegins
  BY <1>3 DEF PlanChanges, DayBegins, Aside, accountVars
<1>4. CASE Restart
  BY <1>4 DEF Restart, Aside, accountVars
<1>5. CASE UNCHANGED vars
  BY <1>5 DEF vars, accountVars, Aside
<1> QED
  BY <1>1, <1>2, <1>3, <1>4, <1>5 DEF Next

-----------------------------------------------------------------------------
(***************************************************************************)
(* Each part of the invariant is kept by every step.                       *)
(***************************************************************************)
LEMMA ExecEdits ==
    ASSUME NEW e \in Execs, NEW s \in ExecSteps
    PROVE  /\ [e EXCEPT !.step = s] \in Execs
           /\ [e EXCEPT !.step = s, !.round = @ + 1] \in Execs
           /\ [e EXCEPT !.aborted = TRUE] \in Execs
           /\ NoExec \in Execs
<1>1. [e EXCEPT !.step = s] \in Execs /\ [e EXCEPT !.aborted = TRUE] \in Execs
  BY DEF Execs
<1>2. [e EXCEPT !.step = s, !.round = @ + 1] \in Execs
  <2>1. e.round + 1 \in Nat
    BY DEF Execs
  <2> QED BY <2>1 DEF Execs
<1>3. NoExec \in Execs
  BY DEF NoExec, Execs, ExecSteps
<1> QED
  BY <1>1, <1>2, <1>3

LEMMA TypeStep ==
    ASSUME ControlType, RunHold \in Nat, [Next]_vars PROVE ControlType'
<1> USE DEF ControlType, Ops
<1>1. CASE \E r \in Runs : Quote(r)
  <2>1. PICK r \in Runs : Quote(r)
    BY <1>1
  <2>2. PICK c \in Ops \cup Old : job' = [job EXCEPT ![r] = [step |-> "quoted", conv |-> c]]
    BY <2>1, QuoteShape
  <2>3. [step |-> "quoted", conv |-> c] \in Jobs
    BY DEF Jobs, JobSteps
  <2> QED BY <2>1, <2>2, <2>3 DEF Quote, accountVars
<1>2. CASE \E r \in Runs : Begin(r)
  <2>1. PICK r \in Runs : Begin(r)
    BY <1>2
  <2>2. CASE Conflicts(r) \/ ~Fits(r)
    <3>1. OverJob(r) \in Jobs
      BY DEF OverJob, Jobs, JobSteps
    <3> QED BY <2>1, <2>2, <3>1 DEF Begin, EndJob, accountVars
  <2>3. CASE ~(Conflicts(r) \/ ~Fits(r))
    <3>1. job[r] \in Jobs /\ runs[r] \in Rows
      OBVIOUS
    <3>2. [job[r] EXCEPT !.step = "begun"] \in Jobs
      BY <3>1 DEF Jobs, JobSteps
    <3>3. [runs[r] EXCEPT !.status = "queued", !.conv = job[r].conv] \in Rows
      BY <3>1 DEF Jobs, Rows, Active
    <3> QED BY <2>1, <2>3, <3>2, <3>3 DEF Begin, Reserve
  <2> QED BY <2>2, <2>3
<1>3. CASE \E r \in Runs : Done(r)
  <2>1. PICK r \in Runs : Done(r)
    BY <1>3
  <2>2. OverJob(r) \in Jobs
    BY DEF OverJob, Jobs, JobSteps
  <2>3. [exec[r] EXCEPT !.step = "routing"] \in Execs
    BY ExecEdits DEF ExecSteps
  <2>4. [runs[r] EXCEPT !.status = "routing"] \in Rows
    BY DEF Rows, Active
  <2> QED BY <2>1, <2>2, <2>3, <2>4 DEF Done, EndJob, accountVars
<1>4. CASE \E r \in Runs : Cancel(r)
  <2>1. PICK r \in Runs, m \in {"in time", "late"} :
           Cancel(r) /\ runs' = [runs EXCEPT ![r].cancelled = m]
    BY <1>4 DEF Cancel
  <2>2. [runs[r] EXCEPT !.cancelled = m] \in Rows
    BY DEF Rows
  <2> QED BY <2>1, <2>2 DEF Cancel, accountVars
<1>5. CASE \E r \in Runs : HandleAbort(r)
  <2>1. PICK r \in Runs : HandleAbort(r)
    BY <1>5
  <2>2. [exec[r] EXCEPT !.aborted = TRUE] \in Execs
    BY DEF Execs
  <2> QED BY <2>1, <2>2 DEF HandleAbort, accountVars
<1>6. CASE \E r \in Runs : Reconcile(r)
  <2>1. PICK r \in Runs : Reconcile(r)
    BY <1>6
  <2>2. [runs[r] EXCEPT !.status = "failed", !.charged = 0] \in Rows
    BY DEF Rows, Terminal
  <2>3. holds' \in [Ops -> {"none", "active", "settled"}]
    BY <2>1, SettleHolds DEF Reconcile
  <2> QED BY <2>1, <2>2, <2>3 DEF Reconcile
<1>7. CASE \E r \in Runs : RouteAnswers(r)
  <2>1. PICK r \in Runs : RouteAnswers(r)
    BY <1>7
  <2> PICK c \in {runs[r].conv, r} :
           runs' = [runs EXCEPT ![r] = [@ EXCEPT !.status = "running", !.conv = c]]
    BY <2>1 DEF RouteAnswers
  <2>2. runs[r] \in Rows /\ r \in Ops
    OBVIOUS
  <2> runs[r].conv \in Ops \cup Old
    BY <2>2 DEF Rows
  <2>3. [runs[r] EXCEPT !.status = "running", !.conv = c] \in Rows
    BY <2>2 DEF Rows, Active
  <2>4. [exec[r] EXCEPT !.step = "ready"] \in Execs
    BY ExecEdits DEF ExecSteps
  <2> QED BY <2>1, <2>3, <2>4 DEF RouteAnswers, ExecFrame, accountVars
<1>8. CASE \E r \in Runs : RoundBegins(r)
  <2>1. PICK r \in Runs : RoundBegins(r)
    BY <1>8
  <2>2. [exec[r] EXCEPT !.step = "streaming", !.round = exec[r].round + 1] \in Execs
    BY ExecEdits DEF ExecSteps
  <2> QED BY <2>1, <2>2 DEF RoundBegins, ExecFrame, accountVars
<1>9. CASE \E r \in Runs : StreamEnds(r)
  <2>1. PICK r \in Runs : StreamEnds(r)
    BY <1>9
  <2> PICK next \in {"ready", "metadata"} : exec' = [exec EXCEPT ![r].step = next]
    BY <2>1 DEF StreamEnds
  <2>2. [exec[r] EXCEPT !.step = next] \in Execs
    BY ExecEdits DEF ExecSteps
  <2> QED BY <2>1, <2>2 DEF StreamEnds, ExecFrame, accountVars
<1>10. CASE \E r \in Runs, status \in Terminal : Ends(r, status)
  <2>1. PICK r \in Runs, status \in Terminal : Ends(r, status)
    BY <1>10
  <2>2. Finish(r, status) /\ ExecFrame
    BY <2>1 DEF Ends
  <2> Ended(r, status)
    BY <2>2, FinishShape
  <2>3. PICK cost \in Nat : runs' = [runs EXCEPT ![r] = [@ EXCEPT !.status = status, !.charged = cost]]
    BY DEF Ended
  <2>4. [runs[r] EXCEPT !.status = status, !.charged = cost] \in Rows
    BY DEF Rows
  <2>5. holds' \in [Ops -> {"none", "active", "settled"}] /\ exec' = [exec EXCEPT ![r] = NoExec]
    BY DEF Ended
  <2>6. NoExec \in Execs
    BY DEF NoExec, Execs, ExecSteps
  <2> QED BY <2>2, <2>3, <2>4, <2>5, <2>6 DEF ExecFrame
<1>11. CASE \E s \in Searches : Search(s)
  <2>1. PICK s \in Searches : Search(s)
    BY <1>11
  <2>2. OverJob(s) \in Jobs
    BY DEF OverJob, Jobs, JobSteps
  <2>3. [job[s] EXCEPT !.step = "asking"] \in Jobs
    BY DEF Jobs, JobSteps
  <2>4. CASE Fits(s)
    BY <2>1, <2>3, <2>4 DEF Search, Reserve
  <2>5. CASE ~Fits(s)
    BY <2>1, <2>2, <2>5 DEF Search, EndJob, accountVars
  <2> QED BY <2>4, <2>5
<1>12. CASE \E s \in Searches : SearchEnds(s)
  <2>1. PICK s \in Searches : SearchEnds(s)
    BY <1>12
  <2>2. OverJob(s) \in Jobs
    BY DEF OverJob, Jobs, JobSteps
  <2>3. holds' \in [Ops -> {"none", "active", "settled"}]
    BY <2>1, SettleHolds DEF SearchEnds
  <2> QED BY <2>1, <2>2, <2>3 DEF SearchEnds, EndJob
<1>13. CASE \E o \in Ops : WorkerDies(o)
  <2>1. PICK o \in Ops : WorkerDies(o)
    BY <1>13
  <2>2. OverJob(o) \in Jobs
    BY DEF OverJob, Jobs, JobSteps
  <2> QED BY <2>1, <2>2 DEF WorkerDies, EndJob, accountVars
<1>14. CASE Crash
  <2>1. \A o \in Ops : OverJob(o) \in Jobs
    BY DEF OverJob, Jobs, JobSteps
  <2>2. NoExec \in Execs
    BY DEF NoExec, Execs, ExecSteps
  <2> QED BY <1>14, <2>1, <2>2 DEF Crash, accountVars
<1>15. CASE Aside
  BY <1>15 DEF Aside, Restart
<1> QED
  BY <1>1, <1>2, <1>3, <1>4, <1>5, <1>6, <1>7, <1>8, <1>9, <1>10, <1>11, <1>12, <1>13,
     <1>14, <1>15, Cases

-----------------------------------------------------------------------------
(***************************************************************************)
(* What each action does to its run, field by field: the facts from which  *)
(* the other parts of the invariant follow.                                *)
(***************************************************************************)
Moves(r, status, jobStep, execStep) ==
    /\ runs'[r].status = status /\ job'[r].step = jobStep /\ exec'[r].step = execStep
    /\ \A q \in Runs \ {r} : runs'[q] = runs[q] /\ exec'[q].step = exec[q].step
    /\ \A o \in Ops \ {r} : job'[o] = job[o]
    /\ up' = up

SameConv(r) == runs'[r].conv = runs[r].conv
SameMark(r) == runs'[r].cancelled = runs[r].cancelled
Unmoved     == \A q \in Runs :
                  runs'[q] = runs[q] /\ job'[q] = job[q] /\ exec'[q].step = exec[q].step

LEMMA QuoteMoves ==
    ASSUME ControlType, NEW r \in Runs, Quote(r)
    PROVE  /\ Moves(r, runs[r].status, "quoted", exec[r].step) /\ runs' = runs /\ holds' = holds
           /\ up /\ job[r].step = "none"
           /\ \/ job'[r].conv \in {r} \cup Old
              \/ \E q \in Runs : runs[q].status # "none" /\ runs[q].conv = job'[r].conv
<1>1. PICK c \in Ops \cup Old :
         /\ job' = [job EXCEPT ![r] = [step |-> "quoted", conv |-> c]]
         /\ c \in {r} \cup Old \/ \E q \in Runs : runs[q].status # "none" /\ runs[q].conv = c
  BY QuoteShape
<1>2. job'[r] = [step |-> "quoted", conv |-> c] /\ \A o \in Ops \ {r} : job'[o] = job[o]
  BY <1>1 DEF ControlType, Ops
<1> QED
  BY <1>1, <1>2 DEF Quote, Moves, accountVars

LEMMA OverMoves ==
    ASSUME ControlType, NEW o \in Ops, EndJob(o)
    PROVE  job'[o].step = "over" /\ \A q \in Ops \ {o} : job'[q] = job[q]
  BY DEF EndJob, OverJob, ControlType

LEMMA RefusedMoves ==
    ASSUME ControlType, NEW r \in Runs, Begin(r), Conflicts(r) \/ ~Fits(r)
    PROVE  /\ Moves(r, runs[r].status, "over", exec[r].step) /\ runs' = runs /\ holds' = holds
           /\ job[r].step = "quoted"
  BY OverMoves DEF Begin, Moves, accountVars, Ops

LEMMA GrantedMoves ==
    ASSUME ControlType, NEW r \in Runs, Begin(r), ~(Conflicts(r) \/ ~Fits(r))
    PROVE  /\ Moves(r, "queued", "begun", exec[r].step) /\ SameMark(r)
           /\ runs'[r].conv = job[r].conv
           /\ holds' = [holds EXCEPT ![r] = "active"]
           /\ up /\ job[r].step = "quoted"
           /\ \A q \in Runs : runs[q].status \in Active => runs[q].conv # job[r].conv
<1>1. /\ job' = [job EXCEPT ![r].step = "begun"]
      /\ runs' = [runs EXCEPT ![r] = [@ EXCEPT !.status = "queued", !.conv = job[r].conv]]
  BY DEF Begin
<1>2. job[r] \in Jobs /\ runs[r] \in Rows
  BY DEF ControlType, Ops
<1>3. job'[r].step = "begun" /\ \A o \in Ops \ {r} : job'[o] = job[o]
  BY <1>1, <1>2 DEF ControlType, Jobs, Ops
<1>4. /\ runs'[r] = [runs[r] EXCEPT !.status = "queued", !.conv = job[r].conv]
      /\ \A q \in Runs \ {r} : runs'[q] = runs[q]
  BY <1>1 DEF ControlType
<1>5. runs'[r].status = "queued" /\ runs'[r].conv = job[r].conv /\ SameMark(r)
  BY <1>2, <1>4 DEF Rows, SameMark
<1> QED
  BY <1>3, <1>4, <1>5 DEF Begin, Moves, Reserve, Conflicts, ActiveIn

LEMMA DoneMoves ==
    ASSUME ControlType, NEW r \in Runs, Done(r)
    PROVE  /\ Moves(r, "routing", "over", "routing") /\ SameConv(r) /\ SameMark(r)
           /\ holds' = holds /\ up /\ job[r].step = "begun"
<1>1. exec[r] \in Execs /\ runs[r] \in Rows /\ r \in Ops
  BY DEF ControlType, Ops
<1>2. /\ runs'[r] = [runs[r] EXCEPT !.status = "routing"]
      /\ exec'[r] = [exec[r] EXCEPT !.step = "routing"]
      /\ \A q \in Runs \ {r} : runs'[q] = runs[q] /\ exec'[q] = exec[q]
  BY DEF Done, ControlType
<1>3. runs'[r].status = "routing" /\ SameConv(r) /\ SameMark(r) /\ exec'[r].step = "routing"
  BY <1>1, <1>2 DEF Rows, Execs, SameConv, SameMark
<1>4. EndJob(r) /\ up' = up /\ holds' = holds /\ up /\ job[r].step = "begun"
  BY DEF Done, accountVars
<1>5. job'[r].step = "over" /\ \A o \in Ops \ {r} : job'[o] = job[o]
  BY <1>1, <1>4, OverMoves DEF Ops
<1> QED
  BY <1>2, <1>3, <1>4, <1>5 DEF Moves

LEMMA CancelMoves ==
    ASSUME ControlType, NEW r \in Runs, Cancel(r)
    PROVE  /\ Moves(r, runs[r].status, job[r].step, exec[r].step) /\ SameConv(r) /\ holds' = holds
           /\ runs[r].status \in Active
           /\ exec[r].step \in LastSteps => runs'[r].cancelled = "late"
<1>1. PICK m \in {"in time", "late"} :
         /\ runs' = [runs EXCEPT ![r].cancelled = m]
         /\ exec[r].step \in LastSteps => m = "late"
  BY DEF Cancel
<1>2. runs[r] \in Rows
  BY DEF ControlType
<1>3. /\ runs'[r] = [runs[r] EXCEPT !.cancelled = m]
      /\ \A q \in Runs \ {r} : runs'[q] = runs[q]
  BY <1>1 DEF ControlType
<1>4. runs'[r].status = runs[r].status /\ SameConv(r) /\ runs'[r].cancelled = m
  BY <1>2, <1>3 DEF Rows, SameConv
<1> QED
  BY <1>1, <1>3, <1>4 DEF Cancel, Moves, accountVars

LEMMA AbortMoves ==
    ASSUME ControlType, NEW r \in Runs, HandleAbort(r)
    PROVE  Unmoved /\ runs' = runs /\ job' = job /\ holds' = holds /\ up' = up
<1>1. exec[r] \in Execs
  BY DEF ControlType
<1>2. \A q \in Runs : exec'[q].step = exec[q].step
  BY <1>1 DEF HandleAbort, ControlType, Execs
<1> QED
  BY <1>2 DEF HandleAbort, Unmoved, accountVars

LEMMA ReconcileMoves ==
    ASSUME ControlType, NEW r \in Runs, Reconcile(r)
    PROVE  /\ Moves(r, "failed", job[r].step, exec[r].step) /\ SameConv(r) /\ SameMark(r)
           /\ ~up /\ holds'[r] # "active" /\ \A p \in Ops \ {r} : holds'[p] = holds[p]
<1>1. runs[r] \in Rows /\ r \in Ops
  BY DEF ControlType, Ops
<1>2. /\ runs'[r] = [runs[r] EXCEPT !.status = "failed", !.charged = 0]
      /\ \A q \in Runs \ {r} : runs'[q] = runs[q]
  BY DEF Reconcile, ControlType
<1>3. runs'[r].status = "failed" /\ SameConv(r) /\ SameMark(r)
  BY <1>1, <1>2 DEF Rows, SameConv, SameMark
<1>4. holds'[r] # "active" /\ \A p \in Ops \ {r} : holds'[p] = holds[p]
  BY <1>1, SettleHolds DEF Reconcile
<1> QED
  BY <1>2, <1>3, <1>4 DEF Reconcile, Moves

LEMMA RouteMoves ==
    ASSUME ControlType, NEW r \in Runs, RouteAnswers(r)
    PROVE  /\ Moves(r, "running", job[r].step, "ready") /\ SameMark(r) /\ holds' = holds
           /\ exec[r].step = "routing" /\ runs'[r].conv \in {runs[r].conv, r}
<1>1. PICK c \in {runs[r].conv, r} :
         runs' = [runs EXCEPT ![r] = [@ EXCEPT !.status = "running", !.conv = c]]
  BY DEF RouteAnswers
<1>2. exec[r] \in Execs /\ runs[r] \in Rows
  BY DEF ControlType
<1>3. /\ runs'[r] = [runs[r] EXCEPT !.status = "running", !.conv = c]
      /\ \A q \in Runs \ {r} : runs'[q] = runs[q]
  BY <1>1 DEF ControlType
<1>4. /\ exec'[r] = [exec[r] EXCEPT !.step = "ready"]
      /\ \A q \in Runs \ {r} : exec'[q] = exec[q]
  BY DEF RouteAnswers, ControlType
<1>5. runs'[r].status = "running" /\ runs'[r].conv = c /\ SameMark(r) /\ exec'[r].step = "ready"
  BY <1>2, <1>3, <1>4 DEF Rows, Execs, SameMark
<1> QED
  BY <1>3, <1>4, <1>5 DEF RouteAnswers, ExecFrame, Moves, accountVars

LEMMA RoundMoves ==
    ASSUME ControlType, NEW r \in Runs, RoundBegins(r)
    PROVE  /\ Moves(r, runs[r].status, job[r].step, "streaming") /\ runs' = runs /\ holds' = holds
           /\ exec[r].step = "ready" /\ runs[r].cancelled = "no"
<1>1. exec[r] \in Execs
  BY DEF ControlType
<1>2. /\ exec'[r] = [exec[r] EXCEPT !.step = "streaming", !.round = exec[r].round + 1]
      /\ \A q \in Runs \ {r} : exec'[q] = exec[q]
  BY DEF RoundBegins, ControlType
<1>3. exec'[r].step = "streaming"
  BY <1>1, <1>2 DEF Execs
<1> QED
  BY <1>2, <1>3 DEF RoundBegins, CancelSeen, ExecFrame, Moves, accountVars

LEMMA StreamMoves ==
    ASSUME ControlType, NEW r \in Runs, StreamEnds(r)
    PROVE  /\ \E next \in {"ready", "metadata"} : Moves(r, runs[r].status, job[r].step, next)
           /\ runs' = runs /\ holds' = holds /\ exec[r].step = "streaming"
<1>1. PICK next \in {"ready", "metadata"} : exec' = [exec EXCEPT ![r].step = next]
  BY DEF StreamEnds
<1>2. exec[r] \in Execs
  BY DEF ControlType
<1>3. exec'[r].step = next /\ \A q \in Runs \ {r} : exec'[q] = exec[q]
  BY <1>1, <1>2 DEF ControlType, Execs
<1>4. Moves(r, runs[r].status, job[r].step, next)
  BY <1>3 DEF StreamEnds, ExecFrame, Moves, accountVars
<1> QED
  BY <1>4 DEF StreamEnds, accountVars

LEMMA EndMoves ==
    ASSUME ControlType, RunHold \in Nat, NEW r \in Runs, NEW status, Ends(r, status)
    PROVE  /\ Moves(r, status, job[r].step, "none") /\ SameConv(r) /\ SameMark(r)
           /\ holds'[r] # "active" /\ \A p \in Ops \ {r} : holds'[p] = holds[p]
           /\ exec[r].step # "none" /\ status \in Terminal
           /\ status = "completed" => exec[r].step = "metadata"
<1>1. Ended(r, status)
  BY FinishShape DEF Ends
<1>2. PICK cost \in Nat : runs' = [runs EXCEPT ![r] = [@ EXCEPT !.status = status, !.charged = cost]]
  BY <1>1 DEF Ended
<1>3. runs[r] \in Rows
  BY DEF ControlType
<1>4. /\ runs'[r] = [runs[r] EXCEPT !.status = status, !.charged = cost]
      /\ \A q \in Runs \ {r} : runs'[q] = runs[q]
  BY <1>2 DEF ControlType
<1>5. runs'[r].status = status /\ SameConv(r) /\ SameMark(r)
  BY <1>3, <1>4 DEF Rows, SameConv, SameMark
<1>6. exec'[r].step = "none" /\ \A q \in Runs \ {r} : exec'[q] = exec[q]
  BY <1>1 DEF Ended, ControlType, NoExec
<1> QED
  BY <1>1, <1>4, <1>5, <1>6 DEF Ends, Ended, ExecFrame, Moves

LEMMA SearchMoves ==
    ASSUME ControlType, CreditAssumption, NEW s \in Searches, Search(s) \/ SearchEnds(s)
    PROVE  /\ Unmoved /\ runs' = runs /\ up' = up
           /\ \A p \in Ops \ {s} : holds'[p] = holds[p] /\ job'[p] = job[p]
           /\ \/ holds'[s] = "active" /\ job'[s].step = "asking"
              \/ holds'[s] # "active"
              \/ holds'[s] = holds[s] /\ job[s].step = "none"
<1>1. s \in Ops /\ s \notin Runs /\ Runs \subseteq Ops
  BY DEF Ops, CreditAssumption
<1>2. CASE Search(s) /\ Fits(s)
  <2>1. job' = [job EXCEPT ![s].step = "asking"] /\ holds' = [holds EXCEPT ![s] = "active"]
    BY <1>2 DEF Search, Reserve
  <2>2. job[s] \in Jobs
    BY <1>1 DEF ControlType
  <2>3. job'[s].step = "asking" /\ \A p \in Ops \ {s} : job'[p] = job[p]
    BY <1>1, <2>1, <2>2 DEF ControlType, Jobs
  <2>4. holds'[s] = "active" /\ \A p \in Ops \ {s} : holds'[p] = holds[p]
    BY <1>1, <2>1 DEF ControlType
  <2> QED BY <1>1, <1>2, <2>3, <2>4 DEF Search, Unmoved
<1>3. CASE Search(s) /\ ~Fits(s)
  BY <1>1, <1>3, OverMoves DEF Search, Unmoved, accountVars
<1>4. CASE SearchEnds(s)
  <2>1. holds'[s] # "active" /\ \A p \in Ops \ {s} : holds'[p] = holds[p]
    BY <1>1, <1>4, SettleHolds DEF SearchEnds
  <2> QED BY <1>1, <1>4, <2>1, OverMoves DEF SearchEnds, Unmoved
<1> QED
  BY <1>2, <1>3, <1>4

LEMMA WorkerMoves ==
    ASSUME ControlType, NEW o \in Ops, WorkerDies(o)
    PROVE  /\ runs' = runs /\ exec' = exec /\ holds' = holds /\ up' = up
           /\ job'[o].step = "over" /\ \A p \in Ops \ {o} : job'[p] = job[p]
           /\ Admits = {} => job[o].step = "quoted"
  BY OverMoves DEF WorkerDies, accountVars

LEMMA CrashMoves ==
    ASSUME ControlType, Crash
    PROVE  /\ runs' = runs /\ holds' = holds /\ ~up'
           /\ \A r \in Runs : exec'[r].step = "none"
           /\ \A o \in Ops : (job'[o] = job[o] /\ job[o].step = "none") \/ job'[o].step = "over"
           /\ Admits = {} => \A s \in Searches : job[s].step # "asking"
  BY DEF Crash, NoExec, OverJob, accountVars

-----------------------------------------------------------------------------
(***************************************************************************)
(* The parts of the invariant.                                             *)
(***************************************************************************)
\* Row, job and execution move together: no step revives a row or ends it twice.
LEMMA InStepStep ==
    ASSUME ControlType, InStep, CreditAssumption, [Next]_vars PROVE InStep'
<1> USE DEF InStep, Moves, Active, Terminal
<1> Runs \subseteq Ops /\ RunHold \in Nat
  BY DEF Ops, CreditAssumption
<1>1. CASE \E r \in Runs : Quote(r)
  BY <1>1, QuoteMoves
<1>2. CASE \E r \in Runs : Begin(r)
  BY <1>2, RefusedMoves, GrantedMoves
<1>3. CASE \E r \in Runs : Done(r)
  BY <1>3, DoneMoves
<1>4. CASE \E r \in Runs : Cancel(r)
  BY <1>4, CancelMoves
<1>5. CASE \E r \in Runs : HandleAbort(r)
  BY <1>5, AbortMoves DEF Unmoved
<1>6. CASE \E r \in Runs : Reconcile(r)
  <2>1. PICK r \in Runs : Reconcile(r)
    BY <1>6
  <2>2. runs[r].status \in Active
    BY <2>1 DEF Reconcile, InterruptedRuns
  <2>3. Moves(r, "failed", job[r].step, exec[r].step) /\ SameConv(r) /\ ~up
    BY <2>1, ReconcileMoves
  <2> QED BY <2>2, <2>3
<1>7. CASE \E r \in Runs : RouteAnswers(r)
  BY <1>7, RouteMoves
<1>8. CASE \E r \in Runs : RoundBegins(r)
  BY <1>8, RoundMoves
<1>9. CASE \E r \in Runs : StreamEnds(r)
  BY <1>9, StreamMoves
<1>10. CASE \E r \in Runs, status \in Terminal : Ends(r, status)
  BY <1>10, EndMoves
<1>11. CASE \E s \in Searches : Search(s) \/ SearchEnds(s)
  BY <1>11, SearchMoves DEF Unmoved
<1>12. CASE \E o \in Ops : WorkerDies(o)
  BY <1>12, WorkerMoves
<1>13. CASE Crash
  BY <1>13, CrashMoves
<1>14. CASE Aside
  BY <1>14 DEF Aside, Restart
<1> QED
  BY <1>1, <1>2, <1>3, <1>4, <1>5, <1>6, <1>7, <1>8, <1>9, <1>10, <1>11, <1>12, <1>13,
     <1>14, Cases

\* Cancelling in time is possible only while a look at the row is still ahead.
LEMMA NotInTimeStep ==
    ASSUME ControlType, NotInTime, CreditAssumption, [Next]_vars PROVE NotInTime'
<1> USE DEF NotInTime, Moves, SameMark, Active, Terminal, LastSteps
<1> Runs \subseteq Ops /\ RunHold \in Nat
  BY DEF Ops, CreditAssumption
<1>1. CASE \E r \in Runs : Quote(r)
  <2>1. PICK r \in Runs : Quote(r)
    BY <1>1
  <2>2. \A q \in Runs : exec'[q].step = exec[q].step /\ runs'[q] = runs[q]
    BY <2>1, QuoteMoves
  <2> QED BY <2>2
<1>2. CASE \E r \in Runs : Begin(r)
  <2>1. PICK r \in Runs : Begin(r)
    BY <1>2
  <2>2. CASE Conflicts(r) \/ ~Fits(r)
    BY ZenonT(30), <2>1, <2>2, RefusedMoves
  <2>3. CASE ~(Conflicts(r) \/ ~Fits(r))
    <3>1. Moves(r, "queued", "begun", exec[r].step) /\ SameMark(r)
      BY <2>1, <2>3, GrantedMoves
    <3> QED BY <3>1
  <2> QED BY <2>2, <2>3
<1>3. CASE \E r \in Runs : Done(r)
  BY <1>3, DoneMoves
<1>4. CASE \E r \in Runs : Cancel(r)
  BY ZenonT(30), <1>4, CancelMoves
<1>5. CASE \E r \in Runs : HandleAbort(r)
  BY <1>5, AbortMoves DEF Unmoved
<1>6. CASE \E r \in Runs : Reconcile(r)
  <2>1. PICK r \in Runs : Reconcile(r)
    BY <1>6
  <2>2. runs'[r].status = "failed" /\ runs'[r].cancelled = runs[r].cancelled
    BY <2>1, ReconcileMoves
  <2>3. \A q \in Runs : exec'[q].step = exec[q].step /\ (q # r => runs'[q] = runs[q])
    <3>1. Moves(r, "failed", job[r].step, exec[r].step)
      BY <2>1, ReconcileMoves
    <3> QED BY <3>1
  <2> QED BY <2>2, <2>3
<1>7. CASE \E r \in Runs : RouteAnswers(r)
  BY ZenonT(30), <1>7, RouteMoves
<1>8. CASE \E r \in Runs : RoundBegins(r)
  BY <1>8, RoundMoves
<1>9. CASE \E r \in Runs : StreamEnds(r)
  <2>1. PICK r \in Runs : StreamEnds(r)
    BY <1>9
  <2>2. exec[r].step = "streaming" /\ runs' = runs
    BY <2>1, StreamMoves
  <2>3. \A q \in Runs \ {r} : exec'[q].step = exec[q].step
    BY <2>1, StreamMoves
  <2> QED BY <2>2, <2>3
<1>10. CASE \E r \in Runs, status \in Terminal : Ends(r, status)
  <2>1. PICK r \in Runs, status \in Terminal : Ends(r, status)
    BY <1>10
  <2> HIDE DEF Moves, SameMark, Active, Terminal
  <2>2. Moves(r, status, job[r].step, "none") /\ SameMark(r)
    BY <2>1, EndMoves
  <2>3. status = "completed" => exec[r].step = "metadata"
    BY <2>1, EndMoves
  <2> QED BY <2>2, <2>3 DEF Moves, SameMark
<1>11. CASE \E s \in Searches : Search(s) \/ SearchEnds(s)
  BY ZenonT(30), <1>11, SearchMoves DEF Unmoved
<1>12. CASE \E o \in Ops : WorkerDies(o)
  BY <1>12, WorkerMoves
<1>13. CASE Crash
  BY <1>13, CrashMoves
<1>14. CASE Aside
  BY <1>14 DEF Aside, Restart
<1> QED
  BY <1>1, <1>2, <1>3, <1>4, <1>5, <1>6, <1>7, <1>8, <1>9, <1>10, <1>11, <1>12, <1>13,
     <1>14, Cases

\* Conversations are entered by their creator, by a fork to a new one, or when known.
LEMMA CreatorStep ==
    ASSUME ControlType, InStep, CreatorStays, CreditAssumption, [Next]_vars PROVE CreatorStays'
<1> USE DEF InStep, CreatorStays, Moves, SameConv, Active, Terminal
<1> Runs \subseteq Ops /\ RunHold \in Nat
  BY DEF Ops, CreditAssumption
<1> Old \cap Runs = {}
  BY DEF Ops, CreditAssumption
<1>1. CASE \E r \in Runs : Quote(r)
  BY <1>1, QuoteMoves
<1>2. CASE \E r \in Runs : Begin(r)
  BY <1>2, RefusedMoves, GrantedMoves
<1>3. CASE \E r \in Runs : Done(r)
  BY <1>3, DoneMoves
<1>4. CASE \E r \in Runs : Cancel(r)
  BY <1>4, CancelMoves
<1>5. CASE \E r \in Runs : HandleAbort(r)
  BY <1>5, AbortMoves DEF Unmoved
<1>6. CASE \E r \in Runs : Reconcile(r)
  <2>1. PICK r \in Runs : Reconcile(r)
    BY <1>6
  <2>2. runs[r].status \in Active
    BY <2>1 DEF Reconcile, InterruptedRuns
  <2>3. Moves(r, "failed", job[r].step, exec[r].step) /\ SameConv(r) /\ ~up
    BY <2>1, ReconcileMoves
  <2> QED BY <2>2, <2>3
<1>7. CASE \E r \in Runs : RouteAnswers(r)
  BY <1>7, RouteMoves
<1>8. CASE \E r \in Runs : RoundBegins(r)
  BY <1>8, RoundMoves
<1>9. CASE \E r \in Runs : StreamEnds(r)
  BY <1>9, StreamMoves
<1>10. CASE \E r \in Runs, status \in Terminal : Ends(r, status)
  BY <1>10, EndMoves
<1>11. CASE \E s \in Searches : Search(s) \/ SearchEnds(s)
  BY <1>11, SearchMoves DEF Unmoved
<1>12. CASE \E o \in Ops : WorkerDies(o)
  BY <1>12, WorkerMoves
<1>13. CASE Crash
  BY <1>13, CrashMoves
<1>14. CASE Aside
  BY <1>14 DEF Aside, Restart
<1> QED
  BY <1>1, <1>2, <1>3, <1>4, <1>5, <1>6, <1>7, <1>8, <1>9, <1>10, <1>11, <1>12, <1>13,
     <1>14, Cases

\* The unique index is looked at by every start, and no fork enters a conversation in use.
LEMMA OneActiveStep ==
    ASSUME ControlType, InStep, CreatorStays, OneActiveRun, CreditAssumption, [Next]_vars
    PROVE  OneActiveRun'
<1> USE DEF InStep, CreatorStays, OneActiveRun, Moves, SameConv, Active, Terminal
<1> Runs \subseteq Ops /\ RunHold \in Nat
  BY DEF Ops, CreditAssumption
<1>1. CASE \E r \in Runs : Quote(r)
  BY <1>1, QuoteMoves
<1>2. CASE \E r \in Runs : Begin(r)
  BY <1>2, RefusedMoves, GrantedMoves
<1>3. CASE \E r \in Runs : Done(r)
  BY <1>3, DoneMoves
<1>4. CASE \E r \in Runs : Cancel(r)
  BY <1>4, CancelMoves
<1>5. CASE \E r \in Runs : HandleAbort(r)
  BY <1>5, AbortMoves DEF Unmoved
<1>6. CASE \E r \in Runs : Reconcile(r)
  BY <1>6, ReconcileMoves
<1>7. CASE \E r \in Runs : RouteAnswers(r)
  BY <1>7, RouteMoves
<1>8. CASE \E r \in Runs : RoundBegins(r)
  BY <1>8, RoundMoves
<1>9. CASE \E r \in Runs : StreamEnds(r)
  BY <1>9, StreamMoves
<1>10. CASE \E r \in Runs, status \in Terminal : Ends(r, status)
  BY <1>10, EndMoves
<1>11. CASE \E s \in Searches : Search(s) \/ SearchEnds(s)
  BY <1>11, SearchMoves DEF Unmoved
<1>12. CASE \E o \in Ops : WorkerDies(o)
  BY <1>12, WorkerMoves
<1>13. CASE Crash
  BY <1>13, CrashMoves
<1>14. CASE Aside
  BY <1>14 DEF Aside, Restart
<1> QED
  BY <1>1, <1>2, <1>3, <1>4, <1>5, <1>6, <1>7, <1>8, <1>9, <1>10, <1>11, <1>12, <1>13,
     <1>14, Cases

\* No reservation outlives what will end it, as long as neither a worker is lost after
\* its commit nor the server in the middle of a search.
LEMMA OwnedStep ==
    ASSUME ControlType, InStep, HoldsAreOwned, CreditAssumption, Admits = {}, [Next]_vars
    PROVE  HoldsAreOwned'
<1> USE DEF InStep, HoldsAreOwned, Moves, Active, Terminal
<1> Runs \subseteq Ops /\ Searches \subseteq Ops /\ Runs \cap Searches = {} /\ RunHold \in Nat
  BY DEF Ops, CreditAssumption
<1>1. CASE \E r \in Runs : Quote(r)
  BY <1>1, QuoteMoves
<1>2. CASE \E r \in Runs : Begin(r)
  <2>1. PICK r \in Runs : Begin(r)
    BY <1>2
  <2>2. CASE Conflicts(r) \/ ~Fits(r)
    BY <2>1, <2>2, RefusedMoves
  <2>3. CASE ~(Conflicts(r) \/ ~Fits(r))
    <3>1. Moves(r, "queued", "begun", exec[r].step)
      BY <2>1, <2>3, GrantedMoves
    <3>2. holds' = [holds EXCEPT ![r] = "active"]
      BY <2>1, <2>3, GrantedMoves
    <3> QED BY <3>1, <3>2 DEF ControlType
  <2> QED BY <2>2, <2>3
<1>3. CASE \E r \in Runs : Done(r)
  BY <1>3, DoneMoves
<1>4. CASE \E r \in Runs : Cancel(r)
  BY <1>4, CancelMoves
<1>5. CASE \E r \in Runs : HandleAbort(r)
  BY <1>5, AbortMoves DEF Unmoved
<1>6. CASE \E r \in Runs : Reconcile(r)
  BY <1>6, ReconcileMoves
<1>7. CASE \E r \in Runs : RouteAnswers(r)
  BY <1>7, RouteMoves
<1>8. CASE \E r \in Runs : RoundBegins(r)
  BY <1>8, RoundMoves
<1>9. CASE \E r \in Runs : StreamEnds(r)
  BY <1>9, StreamMoves
<1>10. CASE \E r \in Runs, status \in Terminal : Ends(r, status)
  BY <1>10, EndMoves
<1>11. CASE \E s \in Searches : Search(s) \/ SearchEnds(s)
  BY <1>11, SearchMoves DEF Unmoved
<1>12. CASE \E o \in Ops : WorkerDies(o)
  BY <1>12, WorkerMoves
<1>13. CASE Crash
  BY <1>13, CrashMoves
<1>14. CASE Aside
  BY <1>14 DEF Aside, Restart, InterruptedRuns
<1> QED
  BY <1>1, <1>2, <1>3, <1>4, <1>5, <1>6, <1>7, <1>8, <1>9, <1>10, <1>11, <1>12, <1>13,
     <1>14, Cases

-----------------------------------------------------------------------------
(***************************************************************************)
(* The inductive invariant and what follows from it.                       *)
(***************************************************************************)
RunInv == ControlType /\ InStep /\ NotInTime /\ CreatorStays /\ OneActiveRun

LEMMA InitRunInv == Init => RunInv /\ HoldsAreOwned
<1> SUFFICES ASSUME Init PROVE RunInv /\ HoldsAreOwned
  OBVIOUS
<1>1. /\ \A r \in Runs : runs[r].status = "none" /\ exec[r].step = "none" /\ runs[r].cancelled = "no"
      /\ \A o \in Ops : job[o].step = "none" /\ holds[o] = "none"
      /\ up
  BY DEF Init, NoExec
<1>2. ControlType
  <2>1. \A r \in Runs : [status |-> "none", conv |-> r, charged |-> 0, cancelled |-> "no"] \in Rows
    BY DEF Rows, Ops
  <2>2. \A o \in Ops : [step |-> "none", conv |-> o] \in Jobs
    BY DEF Jobs, JobSteps
  <2>3. NoExec \in Execs
    BY DEF NoExec, Execs, ExecSteps
  <2> QED BY <2>1, <2>2, <2>3 DEF Init, ControlType
<1>3. InStep /\ NotInTime /\ CreatorStays /\ OneActiveRun /\ HoldsAreOwned
  BY <1>1 DEF InStep, NotInTime, CreatorStays, OneActiveRun, HoldsAreOwned, LastSteps, Active, Ops
<1> QED
  BY <1>2, <1>3 DEF RunInv

LEMMA RunInvStep == RunInv /\ [Next]_vars => RunInv'
<1> SUFFICES ASSUME RunInv, [Next]_vars PROVE RunInv'
  OBVIOUS
<1>1. RunHold \in Nat
  BY CreditAssumption DEF CreditAssumption
<1>2. ControlType'
  BY <1>1, TypeStep DEF RunInv
<1>3. InStep' /\ NotInTime'
  BY CreditAssumption, InStepStep, NotInTimeStep DEF RunInv
<1>4. CreatorStays' /\ OneActiveRun'
  BY CreditAssumption, CreatorStep, OneActiveStep DEF RunInv
<1> QED
  BY <1>2, <1>3, <1>4 DEF RunInv

\* The invariant holds in every reachable state (aiService.ts start, execute, cancel).
THEOREM RunInvariant == Spec => []RunInv
<1>1. Init => RunInv
  BY InitRunInv
<1> QED
  BY <1>1, RunInvStep, PTL DEF Spec

\* A conversation never has two active runs, whatever starts race and forks move
\* (start's transaction against idx_ai_runs_one_active_conversation).
THEOREM OneActiveRunHolds == Spec => []OneActiveRun
<1>1. RunInv => OneActiveRun
  BY DEF RunInv
<1> QED
  BY <1>1, RunInvariant, PTL

\* A run cancelled while a look at its row was still ahead never completes, although
\* its message may be lost (cancel, and the two checks of execute's loop).
THEOREM CancelHeardHolds == Spec => []CancelHeard
<1>1. RunInv => CancelHeard
  BY DEF RunInv, NotInTime, CancelHeard
<1> QED
  BY <1>1, RunInvariant, PTL

\* Unless a worker is lost after its commit or the server during a search, every
\* reservation belongs to work that will end it (start, execute, the reconciliation).
THEOREM HoldsAreOwnedHolds == ASSUME Admits = {} PROVE Spec => []HoldsAreOwned
<1>1. Init => HoldsAreOwned
  BY InitRunInv
<1>2. RunInv /\ HoldsAreOwned /\ [Next]_vars => HoldsAreOwned'
  BY CreditAssumption, OwnedStep DEF RunInv
<1> QED
  BY <1>1, <1>2, RunInvariant, PTL DEF Spec

-----------------------------------------------------------------------------
(***************************************************************************)
(* Sums over finite sets.  The recursion of SumFunctionOnSet is unfolded   *)
(* by looking at a smallest set for which a statement about it fails.      *)
(***************************************************************************)
\* A finite set has a smallest subset with a property, if it has one at all.
LEMMA SmallestSubset ==
    ASSUME NEW S, IsFiniteSet(S), NEW B, B \subseteq SUBSET S, B # {}
    PROVE  \E T \in B : \A U \in B : U \subseteq T => U = T
<1>1. IsWellFoundedOn(StrictSubsetOrdering(S), FiniteSubsetsOf(S))
  BY FS_StrictSubsetOrderingWellFounded
<1>2. B \subseteq FiniteSubsetsOf(S)
  BY FS_Subset DEF FiniteSubsetsOf
<1>3. \E T \in B : \A U \in B : ~ (<<U, T>> \in StrictSubsetOrdering(S))
  BY <1>1, <1>2, WFMin
<1> PICK T \in B : \A U \in B : ~ (<<U, T>> \in StrictSubsetOrdering(S))
  BY <1>3
<1> QED
  BY DEF StrictSubsetOrdering

Some(T) == CHOOSE x \in T : TRUE

\* g adds up f on the subsets of S, as iter of MapThenFoldSet does.
Adds(g, f, S) ==
    g = [T \in SUBSET S |-> IF T = {} THEN 0 ELSE f[Some(T)] + g[T \ {Some(T)}]]

LEMMA SumIsChosen ==
    ASSUME NEW f, NEW S
    PROVE  SumFunctionOnSet(f, S) = (CHOOSE g : Adds(g, f, S))[S]
  BY DEF SumFunctionOnSet, FoldFunctionOnSet, MapThenFoldSet, Adds, Some

LEMMA AddsOnce ==
    ASSUME NEW f, NEW S, NEW R, IsFiniteSet(R), R \subseteq S, NEW g, NEW h,
           Adds(g, f, S), Adds(h, f, R)
    PROVE  g[R] = h[R]
<1> DEFINE Bad == {T \in SUBSET R : g[T] # h[T]}
<1>1. SUFFICES ASSUME Bad # {} PROVE FALSE
  OBVIOUS
<1>2. PICK T \in Bad : \A U \in Bad : U \subseteq T => U = T
  <2> Bad \subseteq SUBSET R
    OBVIOUS
  <2> HIDE DEF Bad
  <2> QED BY <1>1, SmallestSubset
<1>3. T # {}
  BY <1>2 DEF Adds
<1>4. Some(T) \in T
  BY <1>3 DEF Some
<1>5. g[T \ {Some(T)}] = h[T \ {Some(T)}]
  BY <1>2, <1>4
<1> QED
  BY <1>2, <1>3, <1>5 DEF Adds

LEMMA AddsExists ==
    ASSUME NEW f, NEW S, IsFiniteSet(S) PROVE \E g : Adds(g, f, S)
<1> DEFINE Bad == {T \in SUBSET S : ~ \E g : Adds(g, f, T)}
<1>1. SUFFICES ASSUME Bad # {} PROVE FALSE
  OBVIOUS
<1>2. PICK T \in Bad : \A U \in Bad : U \subseteq T => U = T
  <2> Bad \subseteq SUBSET S
    OBVIOUS
  <2> HIDE DEF Bad
  <2> QED BY <1>1, SmallestSubset
<1> DEFINE Sum(U) == IF U = {} THEN 0 ELSE f[Some(U)] + SumFunctionOnSet(f, U \ {Some(U)})
           k == [U \in SUBSET T |-> Sum(U)]
<1>3. \A U \in SUBSET T : U # T => SumFunctionOnSet(f, U) = Sum(U)
  <2> SUFFICES ASSUME NEW U \in SUBSET T, U # T PROVE SumFunctionOnSet(f, U) = Sum(U)
    OBVIOUS
  <2>1. PICK g : g = (CHOOSE h : Adds(h, f, U)) /\ Adds(g, f, U)
    BY <1>2
  <2>2. SumFunctionOnSet(f, U) = g[U]
    BY <2>1, SumIsChosen
  <2>3. CASE U = {}
    BY <2>1, <2>2, <2>3 DEF Adds
  <2>4. CASE U # {}
    <3> DEFINE V == U \ {Some(U)}
    <3>1. V \subseteq U /\ V # T /\ V \in SUBSET S /\ IsFiniteSet(V)
      BY <1>2, FS_Subset
    <3>2. PICK h : h = (CHOOSE i : Adds(i, f, V)) /\ Adds(h, f, V)
      BY <1>2, <3>1
    <3>3. g[V] = h[V]
      BY <2>1, <3>1, <3>2, AddsOnce
    <3>4. SumFunctionOnSet(f, V) = h[V]
      BY <3>2, SumIsChosen
    <3>5. g[U] = f[Some(U)] + g[V]
      BY <2>1, <2>4 DEF Adds
    <3> QED BY <2>2, <2>4, <3>3, <3>4, <3>5
  <2> QED BY <2>3, <2>4
<1>4. \A U \in SUBSET T : U # {} => SumFunctionOnSet(f, U \ {Some(U)}) = k[U \ {Some(U)}]
  <2> SUFFICES ASSUME NEW U \in SUBSET T, U # {}
               PROVE  SumFunctionOnSet(f, U \ {Some(U)}) = k[U \ {Some(U)}]
    OBVIOUS
  <2>1. Some(U) \in U
    BY DEF Some
  <2>2. U \ {Some(U)} \in SUBSET T /\ U \ {Some(U)} # T
    BY <2>1
  <2> HIDE DEF Sum
  <2> QED BY <1>3, <2>2
<1>5. Adds(k, f, T)
  BY <1>4 DEF Adds
<1> QED
  BY <1>2, <1>5

\* The sum over a set that is not empty, by the element the code happens to take first.
LEMMA SumUnfolds ==
    ASSUME NEW f, NEW S, IsFiniteSet(S)
    PROVE  /\ S = {} => SumFunctionOnSet(f, S) = 0
           /\ S # {} => SumFunctionOnSet(f, S) = f[Some(S)] + SumFunctionOnSet(f, S \ {Some(S)})
<1> DEFINE V == S \ {Some(S)}
<1>1. PICK g : g = (CHOOSE h : Adds(h, f, S)) /\ Adds(g, f, S)
  BY AddsExists
<1>2. V \subseteq S /\ IsFiniteSet(V)
  BY FS_Subset
<1>3. PICK h : h = (CHOOSE i : Adds(i, f, V)) /\ Adds(h, f, V)
  BY <1>2, AddsExists
<1>4. g[V] = h[V]
  BY <1>1, <1>2, <1>3, AddsOnce
<1>5. SumFunctionOnSet(f, S) = g[S] /\ SumFunctionOnSet(f, V) = h[V]
  BY <1>1, <1>3, SumIsChosen
<1>6. S = {} => g[S] = 0
  BY <1>1 DEF Adds
<1>7. S # {} => g[S] = f[Some(S)] + g[V]
  BY <1>1 DEF Adds
<1> QED
  BY <1>4, <1>5, <1>6, <1>7

LEMMA SumEmpty == ASSUME NEW f PROVE SumFunctionOnSet(f, {}) = 0
<1>1. IsFiniteSet({})
  BY FS_EmptySet
<1> QED
  BY <1>1, SumUnfolds

\* Sums of naturals are naturals.
LEMMA SumNat ==
    ASSUME NEW f, NEW S, IsFiniteSet(S), \A x \in S : f[x] \in Nat
    PROVE  SumFunctionOnSet(f, S) \in Nat
<1> DEFINE Bad == {T \in SUBSET S : SumFunctionOnSet(f, T) \notin Nat}
<1>1. SUFFICES ASSUME Bad # {} PROVE FALSE
  OBVIOUS
<1>2. PICK T \in Bad : \A U \in Bad : U \subseteq T => U = T
  <2> Bad \subseteq SUBSET S
    OBVIOUS
  <2> HIDE DEF Bad
  <2> QED BY <1>1, SmallestSubset
<1>3. T # {}
  <2>1. SumFunctionOnSet(f, {}) \in Nat
    BY SumEmpty
  <2> QED BY <1>2, <2>1
<1>4. Some(T) \in T /\ IsFiniteSet(T)
  BY <1>2, <1>3, FS_Subset DEF Some
<1>5. SumFunctionOnSet(f, T \ {Some(T)}) \in Nat
  BY <1>2, <1>4
<1>6. f[Some(T)] \in Nat
  BY <1>4
<1> QED
  BY <1>2, <1>3, <1>4, <1>5, <1>6, SumUnfolds

\* Any element may be taken first.
LEMMA SumTakes ==
    ASSUME NEW f, NEW S, IsFiniteSet(S), \A y \in S : f[y] \in Nat, NEW x \in S
    PROVE  SumFunctionOnSet(f, S) = f[x] + SumFunctionOnSet(f, S \ {x})
<1> DEFINE Takes(T, y) == SumFunctionOnSet(f, T) = f[y] + SumFunctionOnSet(f, T \ {y})
           Bad == {T \in SUBSET S : \E y \in T : ~Takes(T, y)}
<1>1. SUFFICES ASSUME Bad # {} PROVE FALSE
  OBVIOUS
<1>2. PICK T \in Bad : \A U \in Bad : U \subseteq T => U = T
  <2> Bad \subseteq SUBSET S
    OBVIOUS
  <2> HIDE DEF Bad
  <2> QED BY <1>1, SmallestSubset
<1>3. PICK y \in T : ~Takes(T, y)
  BY <1>2
<1> DEFINE z == Some(T)
<1>4. z \in T /\ IsFiniteSet(T) /\ T # {} /\ T \subseteq S
  BY <1>2, <1>3, FS_Subset DEF Some
<1>5. Takes(T, z)
  BY <1>4, SumUnfolds
<1>6. y # z
  BY <1>3, <1>5
<1>7. Takes(T \ {z}, y) /\ Takes(T \ {y}, z)
  <2> T \ {z} \in SUBSET S /\ T \ {y} \in SUBSET S /\ y \in T \ {z} /\ z \in T \ {y}
    BY <1>4, <1>6
  <2> T \ {z} \notin Bad /\ T \ {y} \notin Bad
    BY <1>2, <1>4
  <2> HIDE DEF Takes, z
  <2> QED OBVIOUS
<1>8. (T \ {y}) \ {z} = (T \ {z}) \ {y}
  OBVIOUS
<1>9. SumFunctionOnSet(f, (T \ {z}) \ {y}) \in Nat /\ f[y] \in Nat /\ f[z] \in Nat
  BY <1>4, SumNat, FS_Subset
<1>10. SumFunctionOnSet(f, T) = f[z] + (f[y] + SumFunctionOnSet(f, (T \ {z}) \ {y}))
  BY <1>5, <1>7
<1>11. SumFunctionOnSet(f, T \ {y}) = f[z] + SumFunctionOnSet(f, (T \ {z}) \ {y})
  BY <1>7, <1>8
<1>12. SumFunctionOnSet(f, T) # f[y] + SumFunctionOnSet(f, T \ {y})
  BY <1>3
<1> HIDE DEF z, Takes, Bad
<1> QED
  BY <1>9, <1>10, <1>11, <1>12

\* Only the values at the elements count.
LEMMA SumSame ==
    ASSUME NEW f, NEW g, NEW S, IsFiniteSet(S), \A x \in S : f[x] = g[x]
    PROVE  SumFunctionOnSet(f, S) = SumFunctionOnSet(g, S)
<1> DEFINE Bad == {T \in SUBSET S : SumFunctionOnSet(f, T) # SumFunctionOnSet(g, T)}
<1>1. SUFFICES ASSUME Bad # {} PROVE FALSE
  OBVIOUS
<1>2. PICK T \in Bad : \A U \in Bad : U \subseteq T => U = T
  <2> Bad \subseteq SUBSET S
    OBVIOUS
  <2> HIDE DEF Bad
  <2> QED BY <1>1, SmallestSubset
<1>3. T # {}
  BY <1>2, SumEmpty
<1>4. Some(T) \in T /\ IsFiniteSet(T)
  BY <1>2, <1>3, FS_Subset DEF Some
<1>5. SumFunctionOnSet(f, T \ {Some(T)}) = SumFunctionOnSet(g, T \ {Some(T)})
  BY <1>2, <1>4
<1>6. f[Some(T)] = g[Some(T)]
  BY <1>2, <1>4
<1> QED
  BY <1>2, <1>3, <1>4, <1>5, <1>6, SumUnfolds

LEMMA SumAdds ==
    ASSUME NEW f, NEW S, NEW x, IsFiniteSet(S), x \notin S, f[x] \in Nat, \A y \in S : f[y] \in Nat
    PROVE  SumFunctionOnSet(f, S \cup {x}) = f[x] + SumFunctionOnSet(f, S)
<1>1. IsFiniteSet(S \cup {x}) /\ (S \cup {x}) \ {x} = S
  BY FS_AddElement
<1> QED
  BY <1>1, SumTakes

\* Weeks follow one another as days do.
LEMMA WeeksInOrder ==
    ASSUME NEW a \in Nat, NEW b \in Nat, a <= b, CreditAssumption PROVE WeekOf(a) <= WeekOf(b)
<1>1. WeekLength \in Nat \ {0}
  BY DEF CreditAssumption
<1> QED
  BY <1>1, SMTT(60) DEF WeekOf

-----------------------------------------------------------------------------
(***************************************************************************)
(* The ledger.                                                             *)
(***************************************************************************)
Usages == [day : -1..MaxDay, plan : Nat, top : Nat, planned : BOOLEAN]

LedgerType ==
    /\ today \in 0..MaxDay /\ enrolled \in BOOLEAN
    /\ topUp \in Nat /\ reserved \in Nat
    /\ usage \in [Ops -> Usages]

\* What an operation used is on record once it is settled, for a day that has begun.
Recorded ==
    \A o \in Ops : /\ holds[o] # "settled" => usage[o] = NoUsage
                   /\ usage[o].day <= today

\* A run that is not over has its reservation; who has not begun has none.
HoldsInStep ==
    /\ \A r \in Runs : /\ runs[r].status \in Active => holds[r] = "active"
                       /\ runs[r].status = "none" => holds[r] = "none"
    /\ \A s \in Searches : job[s].step = "none" => holds[s] = "none"

\* The account's figure is the sum of the rows.
HoldOf == [o \in Ops |-> Hold(o)]
ReservedIsHeld == reserved = SumFunctionOnSet(HoldOf, Held)

\* What the plan would still pay if it were active, and the promise kept while it is not.
PlanRoom == Greater(0, Lesser(Daily - UsedToday, Weekly - UsedThisWeek))
Covers(room, top, owed) == room + top >= owed
Covered  == Covers(PlanRoom, topUp, reserved)

LedgerInv ==
    /\ LedgerType /\ Recorded /\ HoldsInStep /\ ReservedIsHeld /\ Covered /\ ChargeCollected

\* Every step, by what it does to the account.
Reserves(o) ==
    /\ Fits(o) /\ Reserve(o) /\ holds[o] = "none" /\ UNCHANGED planVars
Settles(o) ==
    /\ holds[o] = "active" /\ UNCHANGED planVars
    /\ \E cost \in Nat : Settle(o, cost)
Quiet == UNCHANGED <<planVars, accountVars>>

LEMMA SettleCases ==
    ASSUME NEW o, NEW cost \in Nat, Settle(o, cost), UNCHANGED planVars
    PROVE  Settles(o) \/ Quiet
<1>1. CASE holds[o] = "active"
  BY <1>1 DEF Settles
<1>2. CASE holds[o] # "active"
  BY <1>2 DEF Settle, Quiet
<1> QED
  BY <1>1, <1>2

LEMMA LedgerCases ==
    ASSUME ControlType, InStep, HoldsInStep, CreditAssumption, [Next]_vars
    PROVE  \/ \E o \in Ops : Reserves(o) \/ Settles(o)
           \/ \E k \in TopUpKeys : BookTopUp(k)
           \/ PlanChanges \/ DayBegins \/ Quiet
<1> Runs \subseteq Ops /\ Searches \subseteq Ops /\ RunHold \in Nat /\ SearchHold \in Nat
  BY DEF Ops, CreditAssumption
<1>1. ASSUME NEW r \in Runs, Quote(r) PROVE Quiet
  BY <1>1 DEF Quote, Quiet
<1>2. ASSUME NEW r \in Runs, Begin(r) PROVE Reserves(r) \/ Quiet
  <2>1. job[r].step = "quoted" /\ UNCHANGED planVars
    BY <1>2 DEF Begin
  <2>2. holds[r] = "none"
    BY <2>1 DEF InStep, HoldsInStep
  <2>3. (Fits(r) /\ Reserve(r)) \/ UNCHANGED accountVars
    BY <1>2 DEF Begin
  <2> QED BY <2>1, <2>2, <2>3 DEF Reserves, Quiet
<1>3. ASSUME NEW r \in Runs, Done(r) PROVE Quiet
  BY <1>3 DEF Done, Quiet
<1>4. ASSUME NEW r \in Runs, Cancel(r) PROVE Quiet
  BY <1>4 DEF Cancel, Quiet
<1>5. ASSUME NEW r \in Runs, HandleAbort(r) PROVE Quiet
  BY <1>5 DEF HandleAbort, Quiet
<1>6. ASSUME NEW r \in Runs, Reconcile(r) PROVE Settles(r) \/ Quiet
  BY <1>6, SettleCases DEF Reconcile
<1>7. ASSUME NEW r \in Runs, Provider(r) PROVE Settles(r) \/ Quiet
  <2>1. CASE \E status \in Terminal : Ends(r, status)
    <3>1. PICK status \in Terminal : Ends(r, status)
      BY <2>1
    <3>2. PICK cost \in 0..RunHold : Settle(r, cost)
      BY <3>1 DEF Ends, Finish
    <3>3. cost \in Nat /\ UNCHANGED planVars
      BY <3>1 DEF Ends, ExecFrame
    <3> QED BY <3>2, <3>3, SettleCases
  <2>2. CASE RouteAnswers(r) \/ RoundBegins(r) \/ StreamEnds(r)
    BY <2>2 DEF RouteAnswers, RoundBegins, StreamEnds, ExecFrame, Quiet
  <2> QED BY <1>7, <2>1, <2>2, ProviderShape
<1>8. ASSUME NEW s \in Searches, Search(s) PROVE Reserves(s) \/ Quiet
  <2>1. job[s].step = "none" /\ UNCHANGED planVars
    BY <1>8 DEF Search
  <2>2. holds[s] = "none"
    BY <2>1 DEF HoldsInStep
  <2> QED BY <1>8, <2>1, <2>2 DEF Search, Reserves, Quiet
<1>9. ASSUME NEW s \in Searches, SearchEnds(s) PROVE Settles(s) \/ Quiet
  <2>1. PICK cost \in 0..SearchHold : Settle(s, cost)
    BY <1>9 DEF SearchEnds
  <2>2. cost \in Nat /\ UNCHANGED planVars
    BY <1>9 DEF SearchEnds
  <2> QED BY <2>1, <2>2, SettleCases
<1>10. CASE \E o \in Ops : WorkerDies(o)
  BY <1>10 DEF WorkerDies, Quiet
<1>11. CASE Crash \/ Restart
  BY <1>11 DEF Crash, Restart, Quiet
<1>12. CASE UNCHANGED vars
  BY <1>12 DEF vars, Quiet
<1> QED
  BY <1>1, <1>2, <1>3, <1>4, <1>5, <1>6, <1>7, <1>8, <1>9, <1>10, <1>11, <1>12
     DEF Next, RunNext

\* What the plan paid, before and after a step, for the sums below.
Paid == [o \in Ops |-> usage[o].plan]
Today == {o \in Ops : usage[o].day = today}
ThisWeek == {o \in Ops : usage[o].day >= 0 /\ WeekOf(usage[o].day) = WeekOf(today)}

LEMMA UsedSums ==
    /\ UsedToday = SumFunctionOnSet(Paid, Today)
    /\ UsedThisWeek = SumFunctionOnSet(Paid, ThisWeek)
    /\ UsedToday' = SumFunctionOnSet(Paid', Today')
    /\ UsedThisWeek' = SumFunctionOnSet(Paid', ThisWeek')
  BY DEF UsedToday, UsedThisWeek, PlanUsed, Paid, Today, ThisWeek

LEMMA UsedNat ==
    ASSUME LedgerType, CreditAssumption
    PROVE  /\ UsedToday \in Nat /\ UsedThisWeek \in Nat /\ PlanRoom \in Nat
           /\ PlanLeft = IF enrolled THEN PlanRoom ELSE 0
           /\ PlanLeft \in Nat
<1>1. \A o \in Ops : Paid[o] \in Nat
  BY DEF Paid, LedgerType, Usages
<1>2. IsFiniteSet(Today) /\ IsFiniteSet(ThisWeek) /\ Today \subseteq Ops /\ ThisWeek \subseteq Ops
  BY FS_Subset DEF CreditAssumption, Today, ThisWeek
<1>3. UsedToday \in Nat /\ UsedThisWeek \in Nat
  BY <1>1, <1>2, SumNat, UsedSums
<1>4. PlanRoom \in Nat
  BY <1>3 DEF CreditAssumption, PlanRoom, Greater, Lesser
<1>5. PlanLeft = IF enrolled THEN PlanRoom ELSE 0
  BY DEF PlanLeft, PlanRoom
<1> QED
  BY <1>3, <1>4, <1>5

LEMMA HoldNat == ASSUME CreditAssumption, NEW o PROVE Hold(o) \in Nat
  BY DEF CreditAssumption, Hold

\* The amounts a settlement books: at most what was held, from plan and top-up balance.
Books(o, plan, top) ==
    /\ topUp' = topUp - top /\ topUp' \in Nat
    /\ reserved' = Greater(0, reserved - Hold(o)) /\ reserved' \in Nat
    /\ holds' = [holds EXCEPT ![o] = "settled"]
    /\ usage' = [usage EXCEPT ![o] =
          [day |-> today, plan |-> plan, top |-> top, planned |-> enrolled]]

LEMMA SettleBooks ==
    ASSUME LedgerType, CreditAssumption, NEW o \in Ops, holds[o] = "active",
           NEW cost \in Nat, Settle(o, cost)
    PROVE  \E plan \in Nat, top \in Nat :
              /\ plan = Lesser(Lesser(Hold(o), cost), PlanLeft)
              /\ top = Lesser(Lesser(Hold(o), cost) - plan, topUp)
              /\ plan + top <= Lesser(Hold(o), cost)
              /\ Books(o, plan, top)
<1> DEFINE actual == Lesser(Hold(o), cost)
           plan == Lesser(actual, PlanLeft)
           top == Lesser(actual - plan, topUp)
<1>1. PlanLeft \in Nat /\ topUp \in Nat /\ reserved \in Nat /\ Hold(o) \in Nat
  BY UsedNat, HoldNat DEF LedgerType
<1>2. plan \in Nat /\ top \in Nat /\ plan + top <= actual /\ topUp - top \in Nat
  BY <1>1 DEF Lesser
<1>3. Greater(0, reserved - Hold(o)) \in Nat
  BY <1>1 DEF Greater
<1>4. /\ topUp' = topUp - top
      /\ reserved' = Greater(0, reserved - Hold(o))
      /\ holds' = [holds EXCEPT ![o] = "settled"]
      /\ usage' = [usage EXCEPT ![o] =
            [day |-> today, plan |-> plan, top |-> top, planned |-> enrolled]]
  BY DEF Settle, Collectible, Released
<1>5. Books(o, plan, top)
  BY <1>2, <1>3, <1>4 DEF Books
<1> HIDE DEF actual, plan, top
<1>6. plan = Lesser(actual, PlanLeft) /\ top = Lesser(actual - plan, topUp)
  BY DEF plan, top
<1> QED
  BY <1>2, <1>5, <1>6 DEF actual

LEMMA BooksFields ==
    ASSUME LedgerType, ControlType, CreditAssumption, NEW o \in Ops, NEW plan \in Nat,
           NEW top \in Nat, Books(o, plan, top)
    PROVE  /\ usage' \in [Ops -> Usages]
           /\ usage'[o].day = today /\ usage'[o].plan = plan /\ usage'[o].top = top
           /\ usage'[o].planned = enrolled
           /\ holds'[o] = "settled"
           /\ \A p \in Ops \ {o} : usage'[p] = usage[p] /\ holds'[p] = holds[p]
<1> DEFINE u == [day |-> today, plan |-> plan, top |-> top, planned |-> enrolled]
<1>1. u \in Usages
  BY DEF Usages, LedgerType, CreditAssumption
<1>2. usage' = [usage EXCEPT ![o] = u] /\ holds' = [holds EXCEPT ![o] = "settled"]
  BY DEF Books
<1>3. u.day = today /\ u.plan = plan /\ u.top = top /\ u.planned = enrolled
  OBVIOUS
<1> HIDE DEF u
<1> QED
  BY <1>1, <1>2, <1>3 DEF LedgerType, ControlType

\* A settlement adds what the plan pays to the day and to the week.
LEMMA UsedAfterBooks ==
    ASSUME LedgerType, ControlType, Recorded, CreditAssumption, NEW o \in Ops,
           holds[o] = "active", NEW plan \in Nat, NEW top \in Nat, Books(o, plan, top),
           UNCHANGED planVars
    PROVE  UsedToday' = UsedToday + plan /\ UsedThisWeek' = UsedThisWeek + plan
<1>1. /\ \A p \in Ops : Paid[p] \in Nat
      /\ \A p \in Ops \ {o} : Paid'[p] = Paid[p]
      /\ Paid'[o] = plan
  BY BooksFields DEF Paid, LedgerType, Usages
<1>2. usage[o].day = -1
  BY DEF Recorded, NoUsage
<1>3. today \in Nat /\ today' = today
  BY DEF LedgerType, planVars, CreditAssumption
<1>4. o \notin Today /\ Today' = Today \cup {o}
  BY <1>2, <1>3, BooksFields DEF Today
<1>5. o \notin ThisWeek /\ ThisWeek' = ThisWeek \cup {o}
  BY <1>2, <1>3, BooksFields DEF ThisWeek
<1>6. IsFiniteSet(Today) /\ IsFiniteSet(ThisWeek) /\ Today \subseteq Ops /\ ThisWeek \subseteq Ops
  BY FS_Subset DEF CreditAssumption, Today, ThisWeek
<1>7. SumFunctionOnSet(Paid', Today \cup {o}) = plan + SumFunctionOnSet(Paid, Today)
  <2>1. \A p \in Today : Paid[p] \in Nat /\ Paid'[p] = Paid[p]
    BY <1>1, <1>4, <1>6
  <2>2. /\ Paid'[o] \in Nat /\ \A p \in Today : Paid'[p] \in Nat
        /\ o \notin Today /\ IsFiniteSet(Today)
    BY <1>1, <1>4, <1>6
  <2>3. SumFunctionOnSet(Paid', Today \cup {o}) = Paid'[o] + SumFunctionOnSet(Paid', Today)
    BY <2>2, SumAdds
  <2>4. SumFunctionOnSet(Paid', Today) = SumFunctionOnSet(Paid, Today)
    BY <2>1, <2>2, SumSame
  <2> QED BY <1>1, <2>3, <2>4
<1>8. SumFunctionOnSet(Paid', ThisWeek \cup {o}) = plan + SumFunctionOnSet(Paid, ThisWeek)
  <2>1. \A p \in ThisWeek : Paid[p] \in Nat /\ Paid'[p] = Paid[p]
    BY <1>1, <1>5, <1>6
  <2>2. /\ Paid'[o] \in Nat /\ \A p \in ThisWeek : Paid'[p] \in Nat
        /\ o \notin ThisWeek /\ IsFiniteSet(ThisWeek)
    BY <1>1, <1>5, <1>6
  <2>3. SumFunctionOnSet(Paid', ThisWeek \cup {o}) = Paid'[o] + SumFunctionOnSet(Paid', ThisWeek)
    BY <2>2, SumAdds
  <2>4. SumFunctionOnSet(Paid', ThisWeek) = SumFunctionOnSet(Paid, ThisWeek)
    BY <2>1, <2>2, SumSame
  <2> QED BY <1>1, <2>3, <2>4
<1> QED
  BY <1>4, <1>5, <1>7, <1>8, UsedSums, UsedNat

\* A step that leaves usage and day alone leaves the plan's figures alone.
LEMMA UsedSame ==
    ASSUME UNCHANGED <<usage, today>>
    PROVE  UsedToday' = UsedToday /\ UsedThisWeek' = UsedThisWeek /\ PlanRoom' = PlanRoom
  BY DEF UsedToday, UsedThisWeek, PlanRoom, PlanUsed

\* A new day begins with nothing used, a new week too; the week that goes on is the same.
LEMMA UsedNextDay ==
    ASSUME LedgerType, Recorded, CreditAssumption, DayBegins
    PROVE  /\ UsedToday' = 0
           /\ UsedThisWeek' = UsedThisWeek \/ UsedThisWeek' = 0
<1>1. usage' = usage /\ today' = today + 1 /\ today \in Nat
  BY DEF DayBegins, accountVars, LedgerType, CreditAssumption
<1>2. \A o \in Ops : usage[o].day \in Int /\ usage[o].day <= today
  BY DEF LedgerType, Usages, Recorded, CreditAssumption
<1>3. Today' = {}
  BY <1>1, <1>2 DEF Today
<1>4. CASE WeekOf(today + 1) = WeekOf(today)
  <2>1. ThisWeek' = ThisWeek /\ Paid' = Paid
    BY <1>1, <1>4 DEF ThisWeek, Paid
  <2> QED BY <1>3, <2>1, UsedSums, SumEmpty
<1>5. CASE WeekOf(today + 1) # WeekOf(today)
  <2>1. WeekOf(today) <= WeekOf(today + 1)
    BY <1>1, WeeksInOrder
  <2>2. ASSUME NEW o \in Ops, usage[o].day >= 0
        PROVE  WeekOf(usage[o].day) # WeekOf(today + 1)
    <3>1. usage[o].day \in Nat /\ usage[o].day <= today
      BY <1>2, <2>2
    <3>2. WeekOf(usage[o].day) <= WeekOf(today)
      BY <1>1, <3>1, WeeksInOrder
    <3>3. WeekOf(usage[o].day) \in Int /\ WeekOf(today) \in Int /\ WeekOf(today + 1) \in Int
      BY <1>1, <3>1 DEF WeekOf, CreditAssumption
    <3> QED BY <1>5, <2>1, <3>2, <3>3
  <2>3. ThisWeek' = {}
    BY <1>1, <2>2 DEF ThisWeek
  <2> QED BY <1>3, <2>3, UsedSums, SumEmpty
<1> QED
  BY <1>4, <1>5

-----------------------------------------------------------------------------
(***************************************************************************)
(* The parts of the ledger's invariant, over the cases of LedgerCases.     *)
(***************************************************************************)
LEMMA ReserveFields ==
    ASSUME LedgerType, ControlType, CreditAssumption, NEW o \in Ops, Reserves(o)
    PROVE  /\ holds'[o] = "active" /\ \A p \in Ops \ {o} : holds'[p] = holds[p]
           /\ reserved' = reserved + Hold(o) /\ reserved' \in Nat
           /\ topUp' = topUp /\ usage' = usage
           /\ UNCHANGED planVars
           /\ Greater(0, PlanLeft + topUp - reserved) >= Hold(o)
  BY HoldNat DEF Reserves, Reserve, Fits, Available, LedgerType, ControlType

LEMMA LedgerTypeStep ==
    ASSUME LedgerType, ControlType, InStep, HoldsInStep, CreditAssumption, [Next]_vars
    PROVE  LedgerType'
<1>1. CASE \E o \in Ops : Reserves(o)
  <2>1. PICK o \in Ops : Reserves(o)
    BY <1>1
  <2> QED BY <2>1, ReserveFields DEF LedgerType, planVars
<1>2. CASE \E o \in Ops : Settles(o)
  <2>1. PICK o \in Ops, cost \in Nat : Settle(o, cost) /\ holds[o] = "active" /\ UNCHANGED planVars
    BY <1>2 DEF Settles
  <2>2. PICK plan \in Nat, top \in Nat : Books(o, plan, top)
    BY <2>1, SettleBooks
  <2>3. usage' \in [Ops -> Usages]
    BY <2>2, BooksFields
  <2> QED BY <2>1, <2>2, <2>3 DEF LedgerType, planVars, Books
<1>3. CASE \E k \in TopUpKeys : BookTopUp(k)
  BY <1>3 DEF BookTopUp, LedgerType, CreditAssumption
<1>4. CASE PlanChanges
  BY <1>4 DEF PlanChanges, accountVars, LedgerType
<1>6. CASE DayBegins
  BY <1>6 DEF DayBegins, accountVars, LedgerType, CreditAssumption
<1>5. CASE Quiet
  BY <1>5 DEF Quiet, accountVars, planVars, LedgerType
<1> QED
  BY <1>1, <1>2, <1>3, <1>4, <1>5, <1>6, LedgerCases

LEMMA RecordedStep ==
    ASSUME LedgerType, ControlType, InStep, HoldsInStep, Recorded, CreditAssumption, [Next]_vars
    PROVE  Recorded'
<1>0. today \in Nat /\ \A o \in Ops : usage[o].day \in Int
  BY DEF LedgerType, Usages, CreditAssumption
<1>1. CASE \E o \in Ops : Reserves(o)
  <2>1. PICK o \in Ops : Reserves(o)
    BY <1>1
  <2>2. holds[o] = "none"
    BY <2>1 DEF Reserves
  <2> QED BY <2>1, <2>2, ReserveFields DEF Recorded, planVars
<1>2. CASE \E o \in Ops : Settles(o)
  <2>1. PICK o \in Ops, cost \in Nat : Settle(o, cost) /\ holds[o] = "active" /\ UNCHANGED planVars
    BY <1>2 DEF Settles
  <2>2. PICK plan \in Nat, top \in Nat : Books(o, plan, top)
    BY <2>1, SettleBooks
  <2>3. today' = today
    BY <2>1 DEF planVars
  <2> QED BY <1>0, <2>2, <2>3, BooksFields DEF Recorded
<1>3. CASE \E k \in TopUpKeys : BookTopUp(k)
  BY <1>3 DEF BookTopUp, Recorded
<1>4. CASE PlanChanges
  BY <1>4 DEF PlanChanges, accountVars, Recorded
<1>5. CASE DayBegins
  BY <1>0, <1>5 DEF DayBegins, accountVars, Recorded
<1>6. CASE Quiet
  BY <1>6 DEF Quiet, accountVars, planVars, Recorded
<1> QED
  BY <1>1, <1>2, <1>3, <1>4, <1>5, <1>6, LedgerCases

\* Reservations and settlements of one operation change the sum by what it holds.
LEMMA ReservedIsHeldStep ==
    ASSUME LedgerType, ControlType, InStep, HoldsInStep, ReservedIsHeld, CreditAssumption,
           [Next]_vars
    PROVE  ReservedIsHeld'
<1>0. /\ \A o \in Ops : HoldOf[o] \in Nat /\ HoldOf[o] = Hold(o)
      /\ IsFiniteSet(Held) /\ Held \subseteq Ops
      /\ HoldOf' = HoldOf
  BY HoldNat, FS_Subset DEF HoldOf, Held, CreditAssumption, Hold
<1>1. CASE \E o \in Ops : Reserves(o)
  <2>1. PICK o \in Ops : Reserves(o)
    BY <1>1
  <2>2. o \notin Held /\ Held' = Held \cup {o}
    BY <2>1, ReserveFields DEF Held, Reserves
  <2>3. SumFunctionOnSet(HoldOf, Held \cup {o}) = HoldOf[o] + SumFunctionOnSet(HoldOf, Held)
    <3> IsFiniteSet(Held) /\ o \notin Held /\ HoldOf[o] \in Nat /\ \A p \in Held : HoldOf[p] \in Nat
      BY <1>0, <2>2
    <3> QED BY SumAdds
  <2>4. reserved' = reserved + Hold(o) /\ reserved \in Nat /\ Hold(o) \in Nat
    BY <2>1, ReserveFields, HoldNat DEF LedgerType
  <2>5. SumFunctionOnSet(HoldOf, Held \cup {o}) = Hold(o) + reserved
    BY <1>0, <2>3 DEF ReservedIsHeld
  <2>6. reserved' = SumFunctionOnSet(HoldOf, Held \cup {o})
    BY <2>4, <2>5
  <2> QED BY <1>0, <2>2, <2>6 DEF ReservedIsHeld
<1>2. CASE \E o \in Ops : Settles(o)
  <2>1. PICK o \in Ops, cost \in Nat : Settle(o, cost) /\ holds[o] = "active"
    BY <1>2 DEF Settles
  <2>2. PICK plan \in Nat, top \in Nat : Books(o, plan, top)
    BY <2>1, SettleBooks
  <2>3. o \in Held /\ Held' = Held \ {o}
    BY <2>1, <2>2, BooksFields DEF Held
  <2>4. SumFunctionOnSet(HoldOf, Held) = Hold(o) + SumFunctionOnSet(HoldOf, Held')
    BY <1>0, <2>3, SumTakes
  <2>5. SumFunctionOnSet(HoldOf, Held') \in Nat
    BY <1>0, <2>3, SumNat, FS_Subset
  <2>6. reserved' = Greater(0, reserved - Hold(o))
    BY <2>2 DEF Books
  <2>7. reserved' = SumFunctionOnSet(HoldOf, Held')
    BY <2>4, <2>5, <2>6, HoldNat DEF ReservedIsHeld, Greater
  <2> QED BY <1>0, <2>7 DEF ReservedIsHeld
<1>3. CASE UNCHANGED <<reserved, holds>>
  BY <1>0, <1>3 DEF ReservedIsHeld, Held
<1>4. CASE \E k \in TopUpKeys : BookTopUp(k)
  BY <1>3, <1>4 DEF BookTopUp
<1>5. CASE PlanChanges \/ DayBegins \/ Quiet
  BY <1>3, <1>5 DEF PlanChanges, DayBegins, Quiet, accountVars
<1> QED
  BY <1>1, <1>2, <1>4, <1>5, LedgerCases

LEMMA HeldCovers ==
    ASSUME ReservedIsHeld, LedgerType, CreditAssumption, NEW o \in Ops, holds[o] = "active"
    PROVE  reserved >= Hold(o)
<1>1. /\ \A p \in Ops : HoldOf[p] \in Nat /\ HoldOf[p] = Hold(p)
      /\ IsFiniteSet(Held) /\ Held \subseteq Ops /\ o \in Held
  BY HoldNat, FS_Subset DEF HoldOf, Held, CreditAssumption
<1>2. SumFunctionOnSet(HoldOf, Held) = HoldOf[o] + SumFunctionOnSet(HoldOf, Held \ {o})
  BY <1>1, SumTakes
<1>3. SumFunctionOnSet(HoldOf, Held \ {o}) \in Nat
  <2> IsFiniteSet(Held \ {o}) /\ \A p \in Held \ {o} : HoldOf[p] \in Nat
    BY <1>1, FS_Subset
  <2> QED BY SumNat
<1> QED
  BY <1>1, <1>2, <1>3 DEF ReservedIsHeld

\* What is promised stays covered: a reservation is refused unless it fits, a settlement
\* takes no more than it frees, and a new day takes nothing back.
LEMMA CoveredStep ==
    ASSUME LedgerType, ControlType, InStep, HoldsInStep, Recorded, Covered,
           CreditAssumption, [Next]_vars
    PROVE  Covered'
<1>0. /\ UsedToday \in Nat /\ UsedThisWeek \in Nat /\ PlanRoom \in Nat
      /\ PlanLeft = IF enrolled THEN PlanRoom ELSE 0
      /\ topUp \in Nat /\ reserved \in Nat /\ Daily \in Nat /\ Weekly \in Nat
  BY UsedNat DEF LedgerType, CreditAssumption
<1>1. CASE \E o \in Ops : Reserves(o)
  <2>1. PICK o \in Ops : Reserves(o)
    BY <1>1
  <2>2. PlanRoom' = PlanRoom /\ topUp' = topUp /\ reserved' = reserved + Hold(o)
    BY <2>1, ReserveFields, UsedSame DEF planVars
  <2>3. Greater(0, PlanLeft + topUp - reserved) >= Hold(o) /\ Hold(o) \in Nat
    BY <2>1, ReserveFields, HoldNat
  <2>4. Covers(PlanRoom, topUp, reserved + Hold(o))
    BY <1>0, <2>3 DEF Covered, Covers, Greater
  <2> QED BY <2>2, <2>4 DEF Covered
<1>2. CASE \E o \in Ops : Settles(o)
  <2>1. PICK o \in Ops, cost \in Nat : Settle(o, cost) /\ holds[o] = "active" /\ UNCHANGED planVars
    BY <1>2 DEF Settles
  <2>2. PICK plan \in Nat, top \in Nat :
           /\ plan = Lesser(Lesser(Hold(o), cost), PlanLeft)
           /\ plan + top <= Lesser(Hold(o), cost)
           /\ top = Lesser(Lesser(Hold(o), cost) - plan, topUp)
           /\ Books(o, plan, top)
    BY <2>1, SettleBooks
  <2>3. UsedToday' = UsedToday + plan /\ UsedThisWeek' = UsedThisWeek + plan
    BY <2>1, <2>2, UsedAfterBooks
  <2>4. /\ topUp' = topUp - top /\ topUp' \in Nat
        /\ reserved' = Greater(0, reserved - Hold(o))
    BY <2>2 DEF Books
  <2>5. Hold(o) \in Nat
    BY HoldNat
  <2>6. plan + top <= Hold(o) /\ plan <= PlanRoom
    <3> DEFINE actual == Lesser(Hold(o), cost)
    <3>1. actual \in Nat /\ actual <= Hold(o)
      BY <2>5 DEF Lesser
    <3>2. plan <= PlanLeft
      <4>1. plan = Lesser(actual, PlanLeft) /\ PlanLeft \in Nat
        BY <2>2, UsedNat
      <4> HIDE DEF actual
      <4> QED BY <3>1, <4>1 DEF Lesser
    <3>3. plan + top <= actual
      BY <2>2
    <3>4. PlanLeft <= PlanRoom
      BY <1>0
    <3>5. PlanLeft \in Nat /\ PlanRoom \in Nat
      BY UsedNat
    <3> HIDE DEF actual
    <3> QED BY <2>5, <3>1, <3>2, <3>3, <3>4, <3>5
  <2>7. PlanRoom' >= PlanRoom - plan /\ PlanRoom' \in Nat
    BY <1>0, <2>3, <2>6 DEF PlanRoom, Greater, Lesser
  <2>8. PICK room : room = PlanRoom'
    OBVIOUS
  <2>9. room \in Nat /\ room >= PlanRoom - plan
    BY <2>7, <2>8
  <2>10. Covers(room, topUp - top, Greater(0, reserved - Hold(o)))
    <3> topUp - top \in Nat
      BY <2>4
    <3> QED BY <1>0, <2>5, <2>6, <2>9 DEF Covered, Covers, Greater
  <2> QED BY <2>4, <2>8, <2>10 DEF Covered
<1>3. CASE \E k \in TopUpKeys : BookTopUp(k)
  <2>1. topUp' = topUp + TopUp /\ reserved' = reserved /\ UNCHANGED <<usage, today>>
    BY <1>3 DEF BookTopUp
  <2>2. Covers(PlanRoom, topUp + TopUp, reserved)
    BY <1>0 DEF Covered, Covers, CreditAssumption
  <2> QED BY <2>1, <2>2, UsedSame DEF Covered
<1>4. CASE PlanChanges \/ Quiet
  <2>1. topUp' = topUp /\ reserved' = reserved /\ UNCHANGED <<usage, today>>
    BY <1>4 DEF PlanChanges, Quiet, accountVars, planVars
  <2> QED BY <2>1, UsedSame DEF Covered
<1>5. CASE DayBegins
  <2>1. topUp' = topUp /\ reserved' = reserved
    BY <1>5 DEF DayBegins, accountVars
  <2>2. UsedToday' = 0 /\ (UsedThisWeek' = UsedThisWeek \/ UsedThisWeek' = 0)
    BY <1>5, UsedNextDay
  <2>3. PlanRoom' >= PlanRoom /\ PlanRoom' \in Nat
    BY <1>0, <2>2 DEF PlanRoom, Greater, Lesser
  <2>4. PlanRoom + topUp >= reserved
    BY DEF Covered, Covers
  <2>5. PICK room : room = PlanRoom'
    OBVIOUS
  <2>6. room \in Nat /\ room >= PlanRoom
    BY <2>3, <2>5
  <2>7. Covers(room, topUp, reserved)
    BY <1>0, <2>4, <2>6 DEF Covers
  <2> QED BY <2>1, <2>5, <2>7 DEF Covered
<1> QED
  BY <1>1, <1>2, <1>3, <1>4, <1>5, LedgerCases

\* Row and reservation of a run begin together and end together.
LEMMA HoldsInStepStep ==
    ASSUME ControlType, InStep, HoldsInStep, CreditAssumption, [Next]_vars PROVE HoldsInStep'
<1> USE DEF HoldsInStep, Moves, Active, Terminal
<1> Runs \subseteq Ops /\ Searches \subseteq Ops /\ Runs \cap Searches = {} /\ RunHold \in Nat
  BY DEF Ops, CreditAssumption
<1>1. CASE \E r \in Runs : Quote(r)
  BY <1>1, QuoteMoves
<1>2. CASE \E r \in Runs : Begin(r)
  <2>1. PICK r \in Runs : Begin(r)
    BY <1>2
  <2>2. CASE Conflicts(r) \/ ~Fits(r)
    BY <2>1, <2>2, RefusedMoves
  <2>3. CASE ~(Conflicts(r) \/ ~Fits(r))
    <3>1. Moves(r, "queued", "begun", exec[r].step)
      BY <2>1, <2>3, GrantedMoves
    <3>2. holds' = [holds EXCEPT ![r] = "active"]
      BY <2>1, <2>3, GrantedMoves
    <3> QED BY <3>1, <3>2 DEF ControlType
  <2> QED BY <2>2, <2>3
<1>3. CASE \E r \in Runs : Done(r)
  BY <1>3, DoneMoves DEF InStep
<1>4. CASE \E r \in Runs : Cancel(r)
  BY <1>4, CancelMoves
<1>5. CASE \E r \in Runs : HandleAbort(r)
  BY <1>5, AbortMoves DEF Unmoved
<1>6. CASE \E r \in Runs : Reconcile(r)
  BY <1>6, ReconcileMoves
<1>7. CASE \E r \in Runs : RouteAnswers(r)
  BY <1>7, RouteMoves DEF InStep
<1>8. CASE \E r \in Runs : RoundBegins(r)
  BY <1>8, RoundMoves
<1>9. CASE \E r \in Runs : StreamEnds(r)
  BY <1>9, StreamMoves
<1>10. CASE \E r \in Runs, status \in Terminal : Ends(r, status)
  BY <1>10, EndMoves
<1>11. CASE \E s \in Searches : Search(s) \/ SearchEnds(s)
  <2>1. PICK s \in Searches : Search(s) \/ SearchEnds(s)
    BY <1>11
  <2>2. runs' = runs /\ \A p \in Ops \ {s} : holds'[p] = holds[p] /\ job'[p] = job[p]
    BY <2>1, SearchMoves
  <2>3. job'[s].step # "none"
    <3>1. CASE EndJob(s)
      BY <3>1, OverMoves
    <3>2. CASE job' = [job EXCEPT ![s].step = "asking"]
      <4>1. job[s] \in Jobs
        BY DEF ControlType
      <4> QED BY <3>2, <4>1 DEF ControlType, Jobs
    <3> QED BY <2>1, <3>1, <3>2 DEF Search, SearchEnds
  <2> QED BY <2>2, <2>3
<1>12. CASE \E o \in Ops : WorkerDies(o)
  BY <1>12, WorkerMoves
<1>13. CASE Crash
  BY <1>13, CrashMoves
<1>14. CASE Aside
  BY <1>14 DEF Aside, Restart
<1> QED
  BY <1>1, <1>2, <1>3, <1>4, <1>5, <1>6, <1>7, <1>8, <1>9, <1>10, <1>11, <1>12, <1>13,
     <1>14, Cases

\* A step charges one run, while it settles it, or it charges none.
Charges(r, cost) ==
    /\ holds[r] = "active" /\ Settle(r, cost) /\ UNCHANGED planVars
    /\ runs'[r].charged = cost
    /\ \A q \in Runs \ {r} : runs'[q] = runs[q]
ChargesNobody ==
    \A r \in Runs : /\ runs'[r].charged = runs[r].charged
                    /\ usage'[r] = usage[r]
                    /\ holds'[r] = "settled" => holds[r] = "settled"

LEMMA ChargeCases ==
    ASSUME LedgerType, ControlType, InStep, HoldsInStep, CreditAssumption, [Next]_vars
    PROVE  ChargesNobody \/ \E r \in Runs : \E cost \in 0..RunHold : Charges(r, cost)
<1> Runs \subseteq Ops /\ Searches \subseteq Ops /\ Runs \cap Searches = {} /\ RunHold \in Nat
  BY DEF Ops, CreditAssumption
<1> \A r \in Runs : runs[r] \in Rows
  BY DEF ControlType
<1>1. CASE \E r \in Runs : Quote(r) \/ HandleAbort(r) \/ RoundBegins(r) \/ StreamEnds(r)
  BY <1>1 DEF Quote, HandleAbort, RoundBegins, StreamEnds, ExecFrame, accountVars, ChargesNobody
<1>2. CASE \E r \in Runs : Begin(r)
  <2>1. PICK r \in Runs : Begin(r)
    BY <1>2
  <2>2. CASE UNCHANGED <<accountVars, runs>>
    BY <2>2 DEF accountVars, ChargesNobody
  <2>3. CASE /\ runs' = [runs EXCEPT ![r] = [@ EXCEPT !.status = "queued", !.conv = job[r].conv]]
             /\ Reserve(r)
    <3>1. runs'[r] = [runs[r] EXCEPT !.status = "queued", !.conv = job[r].conv]
      BY <2>3 DEF ControlType
    <3>2. runs'[r].charged = runs[r].charged
      BY <3>1 DEF Rows
    <3>3. \A q \in Runs \ {r} : runs'[q] = runs[q]
      BY <2>3 DEF ControlType
    <3>4. usage' = usage /\ holds' = [holds EXCEPT ![r] = "active"]
      BY <2>3 DEF Reserve
    <3> QED BY <3>2, <3>3, <3>4 DEF ChargesNobody, ControlType
  <2> QED BY <2>1, <2>2, <2>3 DEF Begin
<1>3. CASE \E r \in Runs : Done(r) \/ Cancel(r) \/ RouteAnswers(r)
  <2>1. PICK r \in Runs : Done(r) \/ Cancel(r) \/ RouteAnswers(r)
    BY <1>3
  <2>2. UNCHANGED accountVars
    BY <2>1 DEF Done, Cancel, RouteAnswers
  <2>3. \E status, conv, mark :
           runs' = [runs EXCEPT ![r] = [@ EXCEPT !.status = status, !.conv = conv, !.cancelled = mark]]
    <3>1. CASE Done(r)
      <4>1. runs' = [runs EXCEPT ![r].status = "routing"]
        BY <3>1 DEF Done
      <4>2. runs' = [runs EXCEPT ![r] = [@ EXCEPT !.status = "routing", !.conv = runs[r].conv,
                                                  !.cancelled = runs[r].cancelled]]
        BY <4>1 DEF ControlType, Rows
      <4> QED BY <4>2
    <3>2. CASE Cancel(r)
      <4>1. PICK mark : runs' = [runs EXCEPT ![r].cancelled = mark]
        BY <3>2 DEF Cancel
      <4>2. runs' = [runs EXCEPT ![r] = [@ EXCEPT !.status = runs[r].status, !.conv = runs[r].conv,
                                                  !.cancelled = mark]]
        BY <4>1 DEF ControlType, Rows
      <4> QED BY <4>2
    <3>3. CASE RouteAnswers(r)
      <4>1. PICK c : runs' = [runs EXCEPT ![r] = [@ EXCEPT !.status = "running", !.conv = c]]
        BY <3>3 DEF RouteAnswers
      <4>2. runs' = [runs EXCEPT ![r] = [@ EXCEPT !.status = "running", !.conv = c,
                                                  !.cancelled = runs[r].cancelled]]
        BY <4>1 DEF ControlType, Rows
      <4> QED BY <4>2
    <3> QED BY <2>1, <3>1, <3>2, <3>3
  <2>4. \A q \in Runs : runs'[q].charged = runs[q].charged
    <3>1. PICK status, conv, mark :
             runs' = [runs EXCEPT ![r] = [@ EXCEPT !.status = status, !.conv = conv, !.cancelled = mark]]
      BY <2>3
    <3>2. runs'[r].charged = runs[r].charged
      BY <3>1 DEF ControlType, Rows
    <3>3. \A q \in Runs \ {r} : runs'[q] = runs[q]
      BY <3>1 DEF ControlType
    <3> QED BY <3>2, <3>3
  <2> QED BY <2>2, <2>4 DEF accountVars, ChargesNobody
<1>4. ASSUME NEW r \in Runs, Reconcile(r) PROVE Charges(r, 0)
  <2>1. holds[r] = "active"
    BY <1>4 DEF Reconcile, InterruptedRuns, HoldsInStep
  <2>2. runs' = [runs EXCEPT ![r] = [@ EXCEPT !.status = "failed", !.charged = 0]]
    BY <1>4 DEF Reconcile
  <2>3. runs'[r].charged = 0 /\ \A q \in Runs \ {r} : runs'[q] = runs[q]
    BY <2>2 DEF ControlType, Rows
  <2> QED BY <1>4, <2>1, <2>3 DEF Reconcile, Charges
<1>5. ASSUME NEW r \in Runs, NEW status \in Terminal, Ends(r, status)
      PROVE  \E cost \in 0..RunHold : Charges(r, cost)
  <2>1. holds[r] = "active"
    BY <1>5 DEF Ends, InStep, HoldsInStep
  <2>2. PICK cost \in 0..RunHold :
           /\ runs' = [runs EXCEPT ![r] = [@ EXCEPT !.status = status, !.charged = cost]]
           /\ Settle(r, cost)
    BY <1>5 DEF Ends, Finish
  <2>3. runs'[r].charged = cost /\ \A q \in Runs \ {r} : runs'[q] = runs[q]
    BY <2>2 DEF ControlType, Rows
  <2> QED BY <1>5, <2>1, <2>2, <2>3 DEF Ends, ExecFrame, Charges
<1>6. CASE \E s \in Searches : Search(s)
  <2>1. PICK s \in Searches : Search(s)
    BY <1>6
  <2>2. runs' = runs /\ usage' = usage /\ \A p \in Ops \ {s} : holds'[p] = holds[p]
    BY <2>1, SearchMoves DEF Search, Reserve, accountVars
  <2> QED BY <2>2 DEF ChargesNobody
<1>7. CASE \E s \in Searches : SearchEnds(s)
  <2>1. PICK s \in Searches, cost \in 0..SearchHold : SearchEnds(s) /\ Settle(s, cost)
    BY <1>7 DEF SearchEnds
  <2>2. runs' = runs /\ \A p \in Ops \ {s} : holds'[p] = holds[p]
    BY <2>1, SearchMoves
  <2>3. \A p \in Ops \ {s} : usage'[p] = usage[p]
    BY <2>1 DEF Settle, accountVars, LedgerType
  <2> QED BY <2>2, <2>3 DEF ChargesNobody
<1>8. CASE (\E o \in Ops : WorkerDies(o)) \/ Crash
  BY <1>8 DEF WorkerDies, Crash, accountVars, ChargesNobody
<1>9. CASE (\E k \in TopUpKeys : BookTopUp(k)) \/ PlanChanges \/ DayBegins \/ Restart
  BY <1>9 DEF BookTopUp, PlanChanges, DayBegins, Restart, accountVars, ChargesNobody
<1>10. CASE UNCHANGED vars
  BY <1>10 DEF vars, accountVars, ChargesNobody
<1>11. 0 \in 0..RunHold
  OBVIOUS
<1> QED
  BY <1>1, <1>2, <1>3, <1>4, <1>5, <1>6, <1>7, <1>8, <1>9, <1>10, <1>11, ProviderShape
     DEF Next, RunNext

\* A run that is settled with its plan active is paid in full: its reservation is covered.
LEMMA ChargeCollectedStep ==
    ASSUME LedgerType, ControlType, InStep, HoldsInStep, ReservedIsHeld, Covered,
           ChargeCollected, CreditAssumption, [Next]_vars
    PROVE  ChargeCollected'
<1>1. CASE ChargesNobody
  BY <1>1 DEF ChargesNobody, ChargeCollected
<1>2. CASE \E r \in Runs : \E cost \in 0..RunHold : Charges(r, cost)
  <2>1. PICK r \in Runs, cost \in 0..RunHold : Charges(r, cost)
    BY <1>2
  <2> r \in Ops /\ RunHold \in Nat /\ cost \in Nat /\ cost <= RunHold /\ Hold(r) = RunHold
    BY DEF Ops, CreditAssumption, Hold
  <2>2. holds[r] = "active" /\ Settle(r, cost)
    BY <2>1 DEF Charges
  <2>3. Lesser(Hold(r), cost) = cost
    BY DEF Lesser
  <2>4. PICK plan \in Nat, top \in Nat :
           /\ plan = Lesser(cost, PlanLeft)
           /\ top = Lesser(cost - plan, topUp)
           /\ Books(r, plan, top)
    BY <2>2, <2>3, SettleBooks
  <2>5. reserved >= RunHold /\ reserved \in Nat /\ topUp \in Nat
    BY <2>2, HeldCovers DEF LedgerType
  <2>6. enrolled => plan + top = cost
    <3> SUFFICES ASSUME enrolled PROVE plan + top = cost
      OBVIOUS
    <3>1. PlanRoom + topUp >= reserved /\ PlanLeft = PlanRoom /\ PlanRoom \in Nat
      BY UsedNat DEF Covered, Covers
    <3>2. PICK room \in Nat : room = PlanLeft
      BY <3>1
    <3>3. room + topUp >= cost
      BY <2>5, <3>1, <3>2
    <3> QED BY <2>4, <2>5, <3>2, <3>3 DEF Lesser
  <2>7. /\ usage'[r].plan = plan /\ usage'[r].top = top /\ usage'[r].planned = enrolled
        /\ \A q \in Ops \ {r} : usage'[q] = usage[q] /\ holds'[q] = holds[q]
    BY <2>4, BooksFields
  <2>8. runs'[r].charged = cost /\ \A q \in Runs \ {r} : runs'[q] = runs[q]
    BY <2>1 DEF Charges
  <2> Runs \subseteq Ops
    BY DEF Ops
  <2> QED BY <2>6, <2>7, <2>8 DEF ChargeCollected
<1> QED
  BY <1>1, <1>2, ChargeCases

LEMMA InitLedger == Init => LedgerInv
<1> SUFFICES ASSUME Init PROVE LedgerInv
  OBVIOUS
<1>1. LedgerType
  <2> NoUsage \in Usages
    BY CreditAssumption DEF NoUsage, Usages, CreditAssumption
  <2> QED BY CreditAssumption DEF Init, LedgerType, CreditAssumption
<1>2. Recorded /\ HoldsInStep /\ ChargeCollected
  BY DEF Init, Recorded, HoldsInStep, ChargeCollected, NoUsage, Active, Ops
<1>3. ReservedIsHeld
  <2>1. Held = {}
    BY DEF Init, Held
  <2> QED BY <2>1, SumEmpty DEF Init, ReservedIsHeld
<1>4. Covered
  BY <1>1, UsedNat, CreditAssumption DEF Init, Covered, Covers
<1> QED
  BY <1>1, <1>2, <1>3, <1>4 DEF LedgerInv

\* The ledger's invariant: quotes, reservations, settlements, top-ups, days and plans
\* (reserveCredits, settleCredits and getAiCreditBalance of server/data/ai.ts).
THEOREM LedgerInvariant == Spec => []LedgerInv
<1>1. LedgerInv /\ RunInv /\ [Next]_vars => LedgerInv'
  <2> SUFFICES ASSUME LedgerInv, RunInv, [Next]_vars PROVE LedgerInv'
    OBVIOUS
  <2> USE CreditAssumption DEF LedgerInv, RunInv
  <2>1. LedgerType' /\ Recorded' /\ HoldsInStep'
    BY LedgerTypeStep, RecordedStep, HoldsInStepStep
  <2>2. ReservedIsHeld' /\ Covered' /\ ChargeCollected'
    BY ReservedIsHeldStep, CoveredStep, ChargeCollectedStep
  <2> QED BY <2>1, <2>2
<1> QED
  BY <1>1, InitLedger, RunInvariant, PTL DEF Spec

\* Several workers never promise the same credits twice, whatever the account booked
\* between a quote and its reservation, and through every change of day, week and plan.
THEOREM SolventHolds == Spec => []Solvent
<1>1. LedgerInv => Solvent
  BY UsedNat, CreditAssumption DEF LedgerInv, Covered, Covers, Solvent
<1> QED
  BY <1>1, LedgerInvariant, PTL

\* What the row of a run says it cost is what plan and top-up paid for it, when a plan
\* was active at its settlement.
THEOREM ChargeCollectedHolds == Spec => []ChargeCollected
<1>1. LedgerInv => ChargeCollected
  BY DEF LedgerInv
<1> QED
  BY <1>1, LedgerInvariant, PTL
=============================================================================
