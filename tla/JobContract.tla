---------------------------- MODULE JobContract ----------------------------
(***************************************************************************)
(* What the coordinator promises about a job, whoever runs it              *)
(* (docs/decisions/0001-coordinator-executor.md): a frame that was         *)
(* accepted is executed at most once, answered at most once, and nothing   *)
(* is answered that was not executed.  A job may also be dropped, when the *)
(* socket it belongs to has gone.  ExecutorPool implements this.           *)
(***************************************************************************)
EXTENDS Naturals

CONSTANT Jobs

VARIABLES state,  \* what the asking session knows of each job
          runs    \* how often each job has been executed

vars == <<state, runs>>

Init == /\ state = [j \in Jobs |-> "new"]
        /\ runs = [j \in Jobs |-> 0]

Accept(j) == /\ state[j] = "new"
             /\ state' = [state EXCEPT ![j] = "accepted"]
             /\ UNCHANGED runs

\* A job whose socket has gone may still be executed.
Execute(j) == /\ state[j] \in {"accepted", "dropped"}
              /\ runs[j] = 0
              /\ runs' = [runs EXCEPT ![j] = 1]
              /\ UNCHANGED state

Answer(j) == /\ state[j] = "accepted"
             /\ runs[j] = 1
             /\ state' = [state EXCEPT ![j] = "answered"]
             /\ UNCHANGED runs

Drop(lost) == /\ \A j \in lost : state[j] = "accepted"
              /\ state' = [j \in Jobs |-> IF j \in lost THEN "dropped" ELSE state[j]]
              /\ UNCHANGED runs

Next == \/ \E j \in Jobs : Accept(j) \/ Execute(j) \/ Answer(j)
        \/ \E lost \in SUBSET Jobs : Drop(lost)

\* Whoever was accepted hears of it.
Settles == \A j \in Jobs : state[j] = "accepted" ~> state[j] \in {"answered", "dropped"}

Spec == Init /\ [][Next]_vars
=============================================================================
