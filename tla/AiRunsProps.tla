----------------------------- MODULE AiRunsProps -----------------------------
(***************************************************************************)
(* What a user of AI runs and the bookkeeping of their credits rely on.    *)
(***************************************************************************)
EXTENDS AiRuns, TLC

\* Runs differ in nothing but their names.
Alike == Permutations(Runs)

\* Every variable stays within the values the code can store.
TypeOK ==
    /\ today \in 0..MaxDay /\ enrolled \in BOOLEAN
    /\ topUp \in Nat /\ reserved \in Nat /\ booked \subseteq TopUpKeys
    /\ holds \in [Ops -> {"none", "active", "settled"}]
    /\ usage \in [Ops -> [day : -1..MaxDay, plan : Nat, top : Nat, planned : BOOLEAN]]
    /\ runs \in [Runs -> [status : {"none"} \cup Active \cup Terminal, conv : Runs \cup Old,
                          charged : Nat, cancelled : {"no", "in time", "late"}]]
    /\ job \in [Ops -> [step : JobSteps, conv : Ops \cup Old]]
    /\ exec \in [Runs -> [step : ExecSteps, round : Nat, aborted : BOOLEAN]]
    /\ aborts \subseteq Runs
    /\ up \in BOOLEAN

Held == {o \in Ops : holds[o] = "active"}

\* Jobs of several workers cannot promise the same credits twice: with the plan
\* active, plan and top-up cover all reservations, across days, weeks, top-ups and
\* plans that end and begin again (reserveCredits against the earlier quote).
Solvent == enrolled => PlanLeft + topUp >= reserved

\* A run whose plan is active when it is settled pays what its row says it was charged.
ChargeCollected ==
    \A r \in Runs : holds[r] = "settled" /\ usage[r].planned
        => usage[r].plan + usage[r].top = runs[r].charged

\* Credits stay reserved only for work that somebody will end: an execution, a job
\* on its way to start one, a search, or the reconciliation of the next start.
HoldsAreOwned ==
    /\ \A r \in Runs : holds[r] = "active" =>
          /\ runs[r].status \in Active
          /\ ~up \/ exec[r].step # "none" \/ job[r].step = "begun"
    /\ \A s \in Searches : holds[s] = "active" => job[s].step = "asking"

\* A conversation has at most one active run, although starts read its state in
\* several workers before they write, and forks move runs between conversations.
OneActiveRun ==
    \A p, q \in Runs : p # q /\ {runs[p].status, runs[q].status} \subseteq Active
        => runs[p].conv # runs[q].conv

\* A cancellation is not lost when its message finds no execution yet: a run that
\* was cancelled before its last provider round never completes.
CancelHeard ==
    \A r \in Runs : runs[r].status = "completed"
        => runs[r].cancelled # "in time"
=============================================================================
