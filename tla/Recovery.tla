------------------------------ MODULE Recovery ------------------------------
(***************************************************************************)
(* How a client that lost its WebSocket becomes current again: the         *)
(* RecoveryCoordinator (client/interact/remoteLifecycle.ts), the events it *)
(* parks, the credential binding of client/interact/remote/session.ts and  *)
(* its channels on the server (server/protocol/WebSocketProtocol.ts).      *)
(*                                                                         *)
(* The server's state is the user's conversation list, a version that a    *)
(* whole row or a whole snapshot overwrites, and the posts of one          *)
(* conversation of that list, which merge by revision and which            *)
(* PostReplica models in detail.  Version 1 of the list is the user        *)
(* joining the conversation.                                               *)
(***************************************************************************)
EXTENDS Integers, Sequences, SequencesExt

CONSTANTS
    MaxList,     \* bound: versions of the conversation list
    MaxPosts,    \* bound: revisions of the conversation
    MaxTroubles, \* bound: lost connections and failed event handlers
    MaxEpoch,    \* bound: sign-ins and sign-outs
    Admits       \* what the environment may do, see Behaviours

(***************************************************************************)
(*   scheduleDuringRun  a recovery, whose snapshots include downloads, is  *)
(*                      still under way when a lost link is back (after    *)
(*                      COOLDOWN_MS, or at once when the user ends forced  *)
(*                      offline) or when the 150 ms of the next one end    *)
(*   overtaken          the answer and the events of a job leave when it   *)
(*                      ends, after the events of a job in another worker  *)
(*                      that changed the same rows later                   *)
(***************************************************************************)
Behaviours == {"scheduleDuringRun", "overtaken"}

ASSUME RecoveryAssumption ==
    /\ MaxList \in Nat /\ MaxPosts \in Nat /\ MaxTroubles \in Nat /\ MaxEpoch \in Nat
    /\ Admits \subseteq Behaviours

VARIABLES
    list, posts,           \* server: version of the list, revision of the conversation
    channels,              \* server: the list version the binding's channels come from
    connected, wire,       \* the socket and what is on its way to the client
    auth, authenticated,   \* authenticate frames under way; the active binding's flag
    signedIn, epoch,       \* session.getToken() and activeEpoch
    myList, myPosts,       \* IndexedDB
    phase, timer, queue,   \* RecoveryCoordinator: phase, scheduled, queuedEvents
    step, batch,           \* where its run is; the parked events it took to replay
    request,               \* what the run and the RefreshCoordinator wait for
    troubles

serverVars  == <<list, posts, channels>>
bindingVars == <<auth, authenticated>>
socketVars  == <<connected, wire, bindingVars>>
actorVars   == <<signedIn, epoch>>
diskVars    == <<myList, myPosts>>
coordVars   == <<phase, timer, queue>>
runVars     == <<step, batch, request>>
vars == <<serverVars, socketVars, actorVars, diskVars, coordVars, runVars, troubles>>

NoBinding == -1
Callers   == {"run", "refresh"}
Steps     == {"none", "state", "access", "proposals", "revisions", "snapshots", "replay"}

\* The phase the run enters with a step.
PhaseOf == [access |-> "refreshing-access", proposals |-> "flushing-proposals",
            revisions |-> "recovering-revisions", snapshots |-> "refreshing-snapshots",
            replay |-> "replaying-events"]

NoRequest == [for |-> "nothing", state |-> "done", epoch |-> 0]
Failed(r) == IF r.state \in {"asked", "answered"} THEN [r EXCEPT !.state = "failed"] ELSE r

\* A call fails without a connection or a session; nothing is asked about the
\* revisions of an empty list (syncConversationPostRevisions).
Ask(what, able, e, listed) ==
    IF what = "revisions" /\ listed = 0 THEN NoRequest
    ELSE [for |-> what, state |-> IF able THEN "asked" ELSE "failed", epoch |-> e]

Init ==
    /\ list = 0 /\ posts = 0 /\ channels = NoBinding
    /\ connected = FALSE /\ wire = <<>> /\ auth = 0 /\ authenticated = FALSE
    /\ signedIn = TRUE /\ epoch = 0
    /\ myList = 0 /\ myPosts = {}
    /\ phase = "idle" /\ timer = FALSE /\ queue = <<>>
    /\ step = "none" /\ batch = <<>> /\ request = [c \in Callers |-> NoRequest] /\ troubles = 0

-----------------------------------------------------------------------------
(***************************************************************************)
(* The server.                                                             *)
(***************************************************************************)
Publish(events) ==
    \/ wire' = wire \o events
    \/ /\ "overtaken" \in Admits /\ events # <<>> /\ wire # <<>>
       /\ Last(wire).kind \in {"answer", "list", "post"}
       /\ wire' = Front(wire) \o events \o <<Last(wire)>>

\* conv.updated carries the row; a changed membership asks for new channels too.
ChangeList ==
    /\ list < MaxList /\ list' = list + 1
    /\ Publish(IF channels = NoBinding THEN <<>>
               ELSE <<[kind |-> "list", n |-> list + 1]>> \o
                    (IF list = 0 THEN <<[kind |-> "resubscribe", n |-> 0]>> ELSE <<>>))
    /\ UNCHANGED <<bindingVars, actorVars, diskVars, coordVars, runVars, posts, channels,
                   connected, troubles>>

ChangePost ==
    /\ list > 0 /\ posts < MaxPosts /\ posts' = posts + 1
    /\ Publish(IF channels > 0 THEN <<[kind |-> "post", n |-> posts + 1]>> ELSE <<>>)
    /\ UNCHANGED <<bindingVars, actorVars, diskVars, coordVars, runVars, list, channels,
                   connected, troubles>>

\* ProtocolSession.authenticate: the channels are computed anew and replaced.
Authenticate ==
    /\ auth > 0 /\ auth' = auth - 1 /\ channels' = list
    /\ wire' = Append(wire, [kind |-> "authenticated", n |-> 0])
    /\ UNCHANGED <<actorVars, diskVars, coordVars, runVars, list, posts, connected,
                   authenticated, troubles>>

\* A request is sent once the binding is authenticated (waitUntilAuthenticated).
Answer(c) ==
    /\ authenticated /\ request[c].state = "asked"
    /\ request' = [request EXCEPT ![c].state = "answered"]
    /\ wire' = Append(wire, [kind |-> "answer", to |-> c, request |-> request'[c],
                             n |-> IF request[c].for = "access" THEN list ELSE posts])
    /\ UNCHANGED <<serverVars, bindingVars, actorVars, diskVars, coordVars, connected, step,
                   batch, troubles>>

-----------------------------------------------------------------------------
(***************************************************************************)
(* RecoveryCoordinator.                                                    *)
(***************************************************************************)
\* Mutant: a recovery under way is enough.
SchedulesOnce ==
    /\ phase' = IF phase = "idle" THEN "refreshing-access" ELSE phase
    /\ timer' = (timer \/ phase = "idle")

Schedule ==
    /\ phase' = IF phase = "idle" THEN "refreshing-access" ELSE phase
    /\ timer' = TRUE

\* A timer that fires during a run is used up: recover() returns that run.
TimerFires ==
    /\ timer /\ (step = "none" \/ "scheduleDuringRun" \in Admits)
    /\ timer' = FALSE
    /\ step' = IF step = "none" THEN "state" ELSE step
    /\ UNCHANGED <<serverVars, socketVars, actorVars, diskVars, phase, queue, request,
                   batch, troubles>>

Enter(next) ==
    /\ step' = next /\ phase' = PhaseOf[next]
    /\ request' = [request EXCEPT !["run"] =
           IF next \in {"access", "revisions"}
           THEN Ask(next, connected /\ signedIn, epoch, myList) ELSE NoRequest]
    /\ UNCHANGED <<serverVars, socketVars, actorVars, diskVars, timer, queue, batch,
                   troubles>>

\* The application state is probed; without a session the run ends there.
StateProbed ==
    /\ step = "state"
    /\ IF signedIn THEN Enter("access")
       ELSE /\ step' = "none" /\ phase' = "idle" /\ queue' = <<>>
            /\ UNCHANGED <<serverVars, socketVars, actorVars, diskVars, timer, request,
                           batch, troubles>>

\* continueAfter: a step that failed is followed by the next one all the same.
RequestOver == request["run"].state \in {"done", "failed"}

AccessRefreshed    == step = "access" /\ RequestOver /\ Enter("proposals")
ProposalsFlushed   == step = "proposals" /\ Enter("revisions")
RevisionsRecovered == step = "revisions" /\ RequestOver /\ Enter("snapshots")
SnapshotsRefreshed == step = "snapshots" /\ Enter("replay")

\* What an event handler does to IndexedDB; the row of a list event overwrites.
Writes(e) ==
    /\ myList' = IF e.kind = "list" THEN e.n ELSE myList
    /\ myPosts' = IF e.kind = "post" THEN myPosts \cup {e.n} ELSE myPosts

TakeBatch ==
    /\ step = "replay" /\ batch = <<>> /\ queue # <<>>
    /\ batch' = queue /\ queue' = <<>>
    /\ UNCHANGED <<serverVars, socketVars, actorVars, diskVars, phase, timer, step, request,
                   troubles>>

\* Mutant: whoever is signed in gets the event.
AnyEpoch(e) == e.epoch \in Nat

\* isActorContextCurrent: the events of a former session are skipped.
IsCurrent(e) == e.epoch = epoch

ReplayEvent ==
    /\ step = "replay" /\ batch # <<>> /\ batch' = Tail(batch)
    /\ IF IsCurrent(Head(batch)) THEN Writes(Head(batch)) ELSE UNCHANGED diskVars
    /\ UNCHANGED <<serverVars, socketVars, actorVars, coordVars, step, request, troubles>>

ReplayEnds ==
    /\ step = "replay" /\ batch = <<>> /\ queue = <<>>
    /\ step' = "none" /\ phase' = "idle"
    /\ UNCHANGED <<serverVars, socketVars, actorVars, diskVars, timer, queue, batch,
                   request, troubles>>

-----------------------------------------------------------------------------
(***************************************************************************)
(* What arrives on the socket.  Frames for another user are ignored.       *)
(***************************************************************************)
Arrives(kind) == wire # <<>> /\ Head(wire).kind = kind /\ wire' = Tail(wire)

HandleAuthenticated ==
    /\ Arrives("authenticated") /\ authenticated' = (authenticated \/ signedIn)
    /\ UNCHANGED <<serverVars, actorVars, diskVars, coordVars, runVars, connected, auth,
                   troubles>>

\* The binding is authenticated again and a recovery scheduled.
HandleResubscribe ==
    /\ Arrives("resubscribe")
    /\ IF signedIn
       THEN auth' = auth + 1 /\ authenticated' = FALSE /\ Schedule
       ELSE UNCHANGED <<bindingVars, phase, timer>>
    /\ UNCHANGED <<serverVars, actorVars, diskVars, runVars, connected, queue, troubles>>

\* saveConversations replaces the list, commitPostRevisionRange adds what the
\* conversation had; the answer to a rejected request is dropped.  A refresh
\* goes on with the revisions.
HandleAnswer ==
    /\ Arrives("answer")
    /\ LET c == Head(wire).to IN
       IF request[c] # Head(wire).request THEN UNCHANGED <<diskVars, request>>
       ELSE IF request[c].for = "access"
       THEN /\ myList' = Head(wire).n /\ UNCHANGED myPosts
            /\ request' = [request EXCEPT ![c] =
                   IF c = "refresh" THEN Ask("revisions", TRUE, epoch, Head(wire).n)
                   ELSE NoRequest]
       ELSE /\ myPosts' = myPosts \cup 1..Head(wire).n /\ UNCHANGED myList
            /\ request' = [request EXCEPT ![c] = NoRequest]
    /\ UNCHANGED <<serverVars, bindingVars, actorVars, coordVars, connected, step, batch,
                   troubles>>

IsEvent == wire # <<>> /\ Head(wire).kind \in {"list", "post"} /\ wire' = Tail(wire)

IgnoreEvent ==
    /\ IsEvent /\ ~signedIn
    /\ UNCHANGED <<serverVars, bindingVars, actorVars, diskVars, coordVars, runVars,
                   connected, troubles>>

ApplyEvent ==
    /\ IsEvent /\ signedIn /\ phase = "idle" /\ Writes(Head(wire))
    /\ UNCHANGED <<serverVars, bindingVars, actorVars, coordVars, runVars, connected,
                   troubles>>

\* A live event that cannot be stored schedules a recovery.
FailEvent ==
    /\ IsEvent /\ signedIn /\ phase = "idle" /\ troubles < MaxTroubles
    /\ troubles' = troubles + 1 /\ Schedule
    /\ UNCHANGED <<serverVars, bindingVars, actorVars, diskVars, runVars, connected, queue>>

ParkEvent ==
    /\ IsEvent /\ signedIn /\ phase # "idle"
    /\ queue' = Append(queue, [kind |-> Head(wire).kind, n |-> Head(wire).n, epoch |-> epoch])
    /\ UNCHANGED <<serverVars, bindingVars, actorVars, diskVars, runVars, connected, phase,
                   timer, troubles>>

\* The RefreshCoordinator gives up a refresh that failed.
RefreshFails ==
    /\ request["refresh"].state = "failed"
    /\ request' = [request EXCEPT !["refresh"] = NoRequest]
    /\ UNCHANGED <<serverVars, socketVars, actorVars, diskVars, coordVars, step, batch,
                   troubles>>

-----------------------------------------------------------------------------
(***************************************************************************)
(* The link and the session.                                               *)
(***************************************************************************)
\* The 5 s of COOLDOWN_MS outlast the 150 ms of a scheduled recovery.
Connect ==
    /\ ~connected /\ ~timer /\ (step = "none" \/ "scheduleDuringRun" \in Admits)
    /\ connected' = TRUE /\ auth' = (IF signedIn THEN 1 ELSE 0) /\ Schedule
    /\ UNCHANGED <<serverVars, actorVars, diskVars, runVars, wire, authenticated, queue,
                   troubles>>

\* Both ends forget the binding, and every request under way is rejected.
Disconnect ==
    /\ connected /\ troubles < MaxTroubles /\ troubles' = troubles + 1
    /\ connected' = FALSE /\ wire' = <<>> /\ auth' = 0 /\ authenticated' = FALSE
    /\ channels' = NoBinding
    /\ request' = [c \in Callers |-> Failed(request[c])]
    /\ UNCHANGED <<actorVars, diskVars, coordVars, list, posts, step, batch>>

\* Mutant: the phase stays when the timer goes.
StopsHalfway ==
    /\ epoch < MaxEpoch /\ epoch' = epoch + 1
    /\ timer' = FALSE /\ queue' = <<>> /\ UNCHANGED phase

\* onTokenChange: recovery.stop() forgets the timer and the parked events, but
\* not the run.
TokenChanges ==
    /\ epoch < MaxEpoch /\ epoch' = epoch + 1
    /\ timer' = FALSE /\ queue' = <<>> /\ phase' = "idle"

SignOut ==
    /\ signedIn /\ signedIn' = FALSE /\ TokenChanges
    /\ authenticated' = FALSE /\ request' = [c \in Callers |-> Failed(request[c])]
    /\ UNCHANGED <<serverVars, diskVars, connected, wire, auth, step, batch, troubles>>

\* commitSession, then refreshInitialData.
SignIn ==
    /\ ~signedIn /\ signedIn' = TRUE /\ TokenChanges
    /\ auth' = IF connected THEN auth + 1 ELSE auth
    /\ request' = [request EXCEPT !["refresh"] = Ask("access", connected, epoch + 1, myList)]
    /\ UNCHANGED <<serverVars, diskVars, connected, wire, authenticated, step, batch,
                   troubles>>

\* A connected, signed-in client with nothing under way waits for the next event.
Settled ==
    /\ connected /\ signedIn /\ authenticated /\ auth = 0 /\ wire = <<>>
    /\ ~timer /\ step = "none" /\ request["refresh"] = NoRequest

Waits == Settled /\ UNCHANGED vars

-----------------------------------------------------------------------------
Serve  == Authenticate \/ (\E c \in Callers : Answer(c))
Run    == TimerFires \/ StateProbed \/ AccessRefreshed \/ ProposalsFlushed
          \/ RevisionsRecovered \/ SnapshotsRefreshed \/ TakeBatch \/ ReplayEvent \/ ReplayEnds
Handle == HandleAuthenticated \/ HandleResubscribe \/ HandleAnswer \/ IgnoreEvent \/ ApplyEvent
          \/ FailEvent \/ ParkEvent \/ RefreshFails
Next   == ChangeList \/ ChangePost \/ Serve \/ Run \/ Handle
          \/ Connect \/ Disconnect \/ SignOut \/ SignIn \/ Waits

Fairness == WF_vars(Serve) /\ WF_vars(Run) /\ WF_vars(Handle) /\ WF_vars(Connect)

Spec == Init /\ [][Next]_vars /\ Fairness
=============================================================================
