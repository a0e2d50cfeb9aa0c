---------------------------- MODULE RecoveryProps ----------------------------
(***************************************************************************)
(* What recovery promises.                                                 *)
(***************************************************************************)
EXTENDS Recovery

\* Every variable stays within the values the code can hold.
TypeOK ==
    /\ list \in 0..MaxList /\ posts \in 0..MaxPosts /\ channels \in NoBinding..MaxList
    /\ connected \in BOOLEAN /\ auth \in Nat /\ authenticated \in BOOLEAN
    /\ signedIn \in BOOLEAN /\ epoch \in 0..MaxEpoch
    /\ myList \in 0..MaxList /\ myPosts \subseteq 1..MaxPosts
    /\ phase \in {"idle"} \cup {PhaseOf[s] : s \in DOMAIN PhaseOf}
    /\ timer \in BOOLEAN /\ step \in Steps /\ troubles \in 0..MaxTroubles
    /\ \A i \in DOMAIN queue : queue[i].kind \in {"list", "post"} /\ queue[i].epoch \in 0..MaxEpoch
    /\ \A c \in Callers : request[c].state \in {"done", "asked", "answered", "failed"}

Current == myList = list /\ myPosts = 1..posts

\* Once a connected client has nothing left to do, it holds all the server has:
\* what was lost with a connection, before the channels of a joined group or
\* with a failed handler has been repaired, and no older answer or parked event
\* was the last to write.
SettledIsCurrent == Settled => Current

\* Events are parked only while something will let them go (enqueue, stop).
ParkedIsTransient ==
    /\ phase # "idle" => timer \/ step # "none"
    /\ queue # <<>> => phase # "idle"

\* A client that stays connected and signed in becomes current and stays so.
Converges == <>[](connected /\ signedIn) => <>[]Current
=============================================================================
