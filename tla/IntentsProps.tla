---------------------------- MODULE IntentsProps ----------------------------
(***************************************************************************)
(* What becomes of a decision that was made offline, or twice.             *)
(***************************************************************************)
EXTENDS Intents

\* No decision is lost on its way: the newest one of each device is pending there until
\* the server has had it or something that beats it, whatever answers and events of
\* earlier decisions arrive meanwhile.
NoIntentLost == \A d \in Devices :
  last[d] = None \/ local[d].proposal = last[d] \/ top.at >= last[d].at
                 \/ (kind = "read" /\ top.seq >= last[d].seq)

\* Nothing is under way, and everybody is connected.
AtRest == /\ online = Devices
          /\ done = <<>>
          /\ \A d \in Devices : asked[d] = <<>> /\ down[d] = <<>> /\ phase[d] = "idle"

\* At rest all devices show what the server holds, and nothing is pending.
Converged == AtRest => \A d \in Devices : local[d] = Base(row)
=============================================================================
