----------------------------- MODULE RemoteLink -----------------------------
(***************************************************************************)
(* One client, one user and the server's end of the socket                 *)
(* (src/client/interact/remote/{transport,session,client}.ts,              *)
(* src/server/protocol/WebSocketProtocol.ts, eventBus.ts, data/auth.ts).   *)
(*                                                                         *)
(* Each end runs jobs of ExecutorPool through its abstract side: a job     *)
(* reads or writes the database in one step, at any moment between its     *)
(* frame and its answer, and jobs finish in any order.                     *)
(*                                                                         *)
(* A socket is a number; a new attempt takes the next one.                 *)
(***************************************************************************)
EXTENDS Naturals, Sequences, SequencesExt

CONSTANTS Calls,        \* Actions the client asks for on behalf of the user
          LogoutCall,   \* the one that is logoutAction
          Groups,       \* groups the user may join and leave
          None,
          MaxSockets,   \* connection attempts
          MaxEvents,    \* credentials bound and membership changes, together
          Admits        \* "overlap": memberships change between an authentication's read and its end

ASSUME LinkAssumption == /\ LogoutCall \in Calls
                         /\ IsFiniteSet(Calls)
                         /\ None \notin Nat \cup [token : Nat, authenticated : BOOLEAN]
                         /\ {MaxSockets, MaxEvents} \subseteq Nat

Sockets == 1 .. MaxSockets

\* The n-th credential that is bound is token n and has credentialEpoch n.
Tokens == 1 .. MaxEvents

VARIABLES link,      \* TransportState: kind ("stopped", "connecting", "connected",
                     \* "cooldown" or "offline") and socket
          binding,   \* the client's binding of the user (token, authenticated), or None
          epochs,    \* credentialSequence
          calls,     \* each call: at "idle", "attempt", "gate", "pending", "resolved",
                     \* "rejected" or "over", and the epoch it was sent in
          up, down,  \* frames under way on each socket
          sessions,  \* ProtocolSession per socket: open, token, channels
          jobs,      \* executor jobs that have not ended
          valid,     \* rows of the sessions table
          member,    \* rows of group_members
          notices,   \* remote.resubscribe events of jobs that have not ended
          changes    \* membership changes so far

client == <<link, binding, epochs, calls>>
server == <<sessions, jobs, valid, member, notices, changes>>
vars == <<client, server, up, down>>

Authenticate(t) == [kind |-> "authenticate", token |-> t]
Request(c) == [kind |-> "request", call |-> c]
Authenticated(t, ok) == [kind |-> "authenticated", token |-> t, ok |-> ok]
Response(c, ok) == [kind |-> "response", call |-> c, ok |-> ok]
Resubscribe == [kind |-> "resubscribe"]

\* An authentication job that has read the database carries what it has read.
AuthJob(s, t) == [kind |-> "auth", socket |-> s, token |-> t, read |-> FALSE,
                  ok |-> FALSE, channels |-> {}]
ActionJob(s, t, c) == [kind |-> "action", socket |-> s, token |-> t, call |-> c,
                       read |-> FALSE, ok |-> FALSE]

Init == /\ link = [kind |-> "stopped", socket |-> 0]
        /\ binding = None
        /\ epochs = 0
        /\ calls = [c \in Calls |-> [at |-> "idle", epoch |-> 0]]
        /\ up = [s \in Sockets |-> <<>>]
        /\ down = [s \in Sockets |-> <<>>]
        /\ sessions = [s \in Sockets |-> [open |-> FALSE, token |-> None, channels |-> {}]]
        /\ jobs = <<>>
        /\ valid = {}
        /\ member = {}
        /\ notices = 0
        /\ changes = 0

-----------------------------------------------------------------------------
(* Transport. *)

Connected == link.kind = "connected"

\* Frames the client puts on its socket.
Send(frames) == up' = IF Connected THEN [up EXCEPT ![link.socket] = @ \o frames] ELSE up

\* Transition to a state without a socket: the session forgets that it is
\* authenticated, its waiters are rejected, and so is all that is pending.
AfterLoss(c) == IF c.at \in {"attempt", "gate", "pending"} THEN [c EXCEPT !.at = "rejected"] ELSE c

\* Mutant of Unlinked: what is pending is kept for the next socket.
UnlinkedPatient(kind) ==
  /\ link' = [kind |-> kind, socket |-> link.socket]
  /\ binding' = IF binding = None THEN None ELSE [binding EXCEPT !.authenticated = FALSE]
  /\ calls' = [c \in Calls |-> IF calls[c].at = "pending" THEN calls[c] ELSE AfterLoss(calls[c])]

Unlinked(kind) ==
  /\ link' = [kind |-> kind, socket |-> link.socket]
  /\ binding' = IF binding = None THEN None ELSE [binding EXCEPT !.authenticated = FALSE]
  /\ calls' = [c \in Calls |-> AfterLoss(calls[c])]

\* start(), and open() after a cooldown.
Open == /\ link.kind \in {"stopped", "cooldown"}
        /\ link.socket < MaxSockets
        /\ link' = [kind |-> "connecting", socket |-> link.socket + 1]
        /\ UNCHANGED <<binding, epochs, calls, server, up, down>>

\* The waiters of the attempt find the binding authenticating: they wait at the gate.
PastAttempt(c) == IF c.at # "attempt" THEN c
                  ELSE IF binding = None THEN [c EXCEPT !.at = "rejected"]
                  ELSE [c EXCEPT !.at = "gate"]

\* Mutant of Greeting: only the first connection authenticates.
GreetingOnce == IF binding = None \/ link.socket > 1 THEN <<>> ELSE <<Authenticate(binding.token)>>

\* Every binding is authenticated on a new socket.
Greeting == IF binding = None THEN <<>> ELSE <<Authenticate(binding.token)>>

\* The socket opens: the server greets, the session authenticates what is bound.
Connect ==
  /\ link.kind = "connecting"
  /\ link' = [link EXCEPT !.kind = "connected"]
  /\ calls' = [c \in Calls |-> PastAttempt(calls[c])]
  /\ up' = [up EXCEPT ![link.socket] = Greeting]
  /\ sessions' = [sessions EXCEPT ![link.socket].open = TRUE]
  /\ UNCHANGED <<binding, epochs, jobs, valid, member, notices, changes, down>>

\* The connect timeout, or a close or error of the socket.
Lose == /\ link.kind \in {"connecting", "connected"}
        /\ Unlinked("cooldown")
        /\ down' = [down EXCEPT ![link.socket] = <<>>]
        /\ UNCHANGED <<epochs, server, up>>

\* setForcedOffline(true) and (false); the latter opens at once.
ForceOffline == /\ link.kind # "offline"
                /\ Unlinked("offline")
                /\ down' = [s \in Sockets |-> <<>>]
                /\ UNCHANGED <<epochs, server, up>>

LeaveOffline == /\ link.kind = "offline"
                /\ link.socket < MaxSockets
                /\ link' = [kind |-> "connecting", socket |-> link.socket + 1]
                /\ UNCHANGED <<binding, epochs, calls, server, up, down>>

-----------------------------------------------------------------------------
(* Session: credentials. *)

\* Mutant of Invalidated: only the waiters hear of it.
InvalidatedWaiters(c, epoch) == IF c.at = "gate" THEN [c EXCEPT !.at = "rejected"] ELSE c

\* rejectWaiters and rejectActorPending for one credential epoch.
Invalidated(c, epoch) ==
  IF c.at = "gate" \/ (c.at = "pending" /\ c.epoch = epoch)
  THEN [c EXCEPT !.at = "rejected"] ELSE c

InvalidateCalls == calls' = [c \in Calls |-> Invalidated(calls[c], binding.token)]

\* The server signs the user in: the client's former session row is replaced.
SignIn ==
  /\ epochs + changes < MaxEvents
  /\ valid' = {epochs + 1}
  /\ IF binding # None THEN InvalidateCalls ELSE UNCHANGED calls
  /\ binding' = [token |-> epochs + 1, authenticated |-> FALSE]
  /\ epochs' = epochs + 1
  /\ Send(<<Authenticate(epochs + 1)>>)
  /\ UNCHANGED <<link, down, sessions, jobs, member, notices, changes>>

\* Warm start: the stored token is bound before anybody knows whether it is valid.
Restore ==
  /\ epochs = 0
  /\ changes < MaxEvents
  /\ binding' = [token |-> 1, authenticated |-> FALSE]
  /\ epochs' = 1
  /\ valid' \in {{}, {1}}
  /\ Send(<<Authenticate(1)>>)
  /\ UNCHANGED <<link, calls, down, sessions, jobs, member, notices, changes>>

\* logoutSession: whatever became of logoutAction, clearActive() follows.
ClearActive ==
  /\ calls[LogoutCall].at \in {"resolved", "rejected"}
  /\ binding # None
  /\ binding' = None
  /\ calls' = [c \in Calls |-> IF c = LogoutCall THEN [calls[c] EXCEPT !.at = "over"]
                               ELSE Invalidated(calls[c], binding.token)]
  /\ UNCHANGED <<link, epochs, server, up, down>>

\* A session row expires after a day.
Expire(t) == /\ t \in valid
             /\ valid' = valid \ {t}
             /\ UNCHANGED <<client, sessions, jobs, member, notices, changes, up, down>>
-----------------------------------------------------------------------------
(* Calls. *)

\* send(): the request leaves with the credential epoch of this moment.
Sent(c) == [calls EXCEPT ![c] = [at |-> "pending", epoch |-> binding.token]]

\* callInContext for a user: through the gate, or to one of its queues.
Ask(c) ==
  /\ calls[c].at = "idle"
  /\ binding # None
  /\ \/ /\ binding.authenticated
        /\ calls' = Sent(c)
        /\ Send(<<Request(c)>>)
     \/ /\ ~binding.authenticated
        /\ calls' = [calls EXCEPT ![c].at = IF Connected THEN "gate"
                                            ELSE IF link.kind = "connecting" THEN "attempt"
                                            ELSE "rejected"]
        /\ UNCHANGED up
  /\ UNCHANGED <<link, binding, epochs, down, server>>

\* The waiter's own five seconds.
GateTimeout(c) == /\ calls[c].at = "gate"
                  /\ calls' = [calls EXCEPT ![c].at = "rejected"]
                  /\ UNCHANGED <<link, binding, epochs, server, up, down>>

-----------------------------------------------------------------------------
(* Frames from the server. *)

Arrives(frame) == /\ Connected
                  /\ down[link.socket] # <<>>
                  /\ frame = Head(down[link.socket])
                  /\ down' = [down EXCEPT ![link.socket] = Tail(@)]

Waiting == SetToSeq({c \in Calls : calls[c].at = "gate"})

\* observeAuthenticated, accepted: the gate opens and the waiting requests leave.
ReceiveAuthenticated ==
  /\ \E t \in Tokens : Arrives(Authenticated(t, TRUE))
  /\ \/ /\ binding = None
        /\ UNCHANGED <<binding, calls, up>>
     \/ /\ binding # None
        /\ binding' = [binding EXCEPT !.authenticated = TRUE]
        /\ calls' = [c \in Calls |-> IF calls[c].at = "gate"
                                     THEN [at |-> "pending", epoch |-> binding.token]
                                     ELSE calls[c]]
        /\ Send([k \in 1 .. Len(Waiting) |-> Request(Waiting[k])])
  /\ UNCHANGED <<link, epochs, server>>

\* observeAuthenticated, refused: the binding is dropped, whichever token was refused.
ReceiveRefused ==
  /\ \E t \in Tokens : Arrives(Authenticated(t, FALSE))
  /\ IF binding = None THEN UNCHANGED calls ELSE InvalidateCalls
  /\ binding' = None
  /\ UNCHANGED <<link, epochs, server, up>>

\* A response counts if its call still waits under the credential it was sent with.
Accepted(c, ok) == /\ ok
                   /\ binding # None
                   /\ binding.token = calls[c].epoch

ReceiveResponse(c) ==
  \E ok \in BOOLEAN :
     /\ Arrives(Response(c, ok))
     /\ calls' = [calls EXCEPT ![c].at = IF @ # "pending" THEN @
                                         ELSE IF Accepted(c, ok) THEN "resolved" ELSE "rejected"]
     /\ UNCHANGED <<link, binding, epochs, server, up>>

\* Mutant of Reauthenticates: the flag is left as it is while the server binds again.
ReauthenticatesSilently == /\ binding' = binding
                           /\ up' = up

\* authenticate(): the flag falls until the new answer arrives.
Reauthenticates ==
  IF binding = None THEN UNCHANGED <<binding, up>>
  ELSE /\ binding' = [binding EXCEPT !.authenticated = FALSE]
       /\ Send(<<Authenticate(binding.token)>>)

\* remote.resubscribe: refreshAuthentication.
ReceiveResubscribe == /\ Arrives(Resubscribe)
                      /\ Reauthenticates
                      /\ UNCHANGED <<link, epochs, calls, server>>

-----------------------------------------------------------------------------
(* The server's end: ProtocolSession and its jobs. *)

Reply(s, frame) == down' = IF sessions[s].open /\ link.socket = s /\ Connected
                           THEN [down EXCEPT ![s] = Append(@, frame)] ELSE down

\* A frame becomes a job, unless its user has no binding on this socket.
ServeFrame(s) ==
  /\ sessions[s].open
  /\ up[s] # <<>>
  /\ up' = [up EXCEPT ![s] = Tail(@)]
  /\ LET f == Head(up[s])
     IN \/ /\ f.kind = "authenticate"
           /\ jobs' = Append(jobs, AuthJob(s, f.token))
           /\ UNCHANGED down
        \/ /\ f.kind = "request" /\ sessions[s].token # None
           /\ jobs' = Append(jobs, ActionJob(s, sessions[s].token, f.call))
           /\ UNCHANGED down
        \/ /\ f.kind = "request" /\ sessions[s].token = None
           /\ Reply(s, Response(f.call, FALSE))
           /\ UNCHANGED jobs
  /\ UNCHANGED <<client, sessions, valid, member, notices, changes>>

\* authenticate(): the session row, and the channels of this moment.
ReadAuthentication(n) ==
  /\ jobs[n].kind = "auth"
  /\ ~jobs[n].read
  /\ jobs' = [jobs EXCEPT ![n].read = TRUE, ![n].ok = jobs[n].token \in valid,
                          ![n].channels = member]
  /\ UNCHANGED <<client, sessions, valid, member, notices, changes, up, down>>

\* The action runs with the identity its session had when it was dispatched, whose token
\* nobody looks up again; it may fail.  logoutAction deletes the session row.
RunAction(n) ==
  /\ jobs[n].kind = "action"
  /\ ~jobs[n].read
  /\ \E ok \in BOOLEAN :
       /\ jobs' = [jobs EXCEPT ![n].read = TRUE, ![n].ok = ok]
       /\ valid' = IF ok /\ jobs[n].call = LogoutCall THEN valid \ {jobs[n].token} ELSE valid
  /\ UNCHANGED <<client, sessions, member, notices, changes, up, down>>

Without(n) == RemoveAt(jobs, n)

\* bind(): the channels replace those of the former binding of the user.
Bound(s, j) == [sessions[s] EXCEPT !.token = j.token, !.channels = j.channels]

\* The continuation of authenticate(); it does not look whether the socket is open.
EndAuthentication(n) ==
  /\ jobs[n].kind = "auth"
  /\ jobs[n].read
  /\ sessions' = IF jobs[n].ok THEN [sessions EXCEPT ![jobs[n].socket] = Bound(jobs[n].socket, jobs[n])]
                 ELSE sessions
  /\ Reply(jobs[n].socket, Authenticated(jobs[n].token, jobs[n].ok))
  /\ jobs' = Without(n)
  /\ UNCHANGED <<client, valid, member, notices, changes, up>>

\* The continuation of dispatch(); a successful logout unbinds the user.
EndAction(n) ==
  /\ jobs[n].kind = "action"
  /\ jobs[n].read
  /\ Reply(jobs[n].socket, Response(jobs[n].call, jobs[n].ok))
  /\ sessions' = IF jobs[n].ok /\ jobs[n].call = LogoutCall
                 THEN [sessions EXCEPT ![jobs[n].socket].token = None, ![jobs[n].socket].channels = {}]
                 ELSE sessions
  /\ jobs' = Without(n)
  /\ UNCHANGED <<client, valid, member, notices, changes, up>>

\* The server hears that a socket has closed.
CloseSession(s) ==
  /\ sessions[s].open
  /\ ~(Connected /\ link.socket = s)
  /\ sessions' = [sessions EXCEPT ![s] = [open |-> FALSE, token |-> None, channels |-> {}]]
  /\ up' = [up EXCEPT ![s] = <<>>]
  /\ UNCHANGED <<client, jobs, valid, member, notices, changes, down>>

\* An authentication job has read the memberships and not yet bound them.
Outstanding == \E n \in DOMAIN jobs : jobs[n].kind = "auth" /\ jobs[n].read

\* Somebody's action commits a change of the user's memberships ...
ChangeMembership(g) ==
  /\ epochs + changes < MaxEvents
  /\ "overlap" \in Admits \/ ~Outstanding
  /\ member' = (member \ {g}) \cup ({g} \ member)
  /\ notices' = notices + 1
  /\ changes' = changes + 1
  /\ UNCHANGED <<client, sessions, jobs, valid, up, down>>

\* ... and its event reaches the sockets that are bound when the job ends.
PublishResubscribe ==
  /\ notices > 0
  /\ notices' = notices - 1
  /\ down' = [s \in Sockets |-> IF sessions[s].open /\ sessions[s].token # None
                                    /\ Connected /\ link.socket = s
                                THEN Append(down[s], Resubscribe) ELSE down[s]]
  /\ UNCHANGED <<client, sessions, jobs, valid, member, changes, up>>

-----------------------------------------------------------------------------
ServerStep == \/ \E s \in Sockets : ServeFrame(s) \/ CloseSession(s)
              \/ \E n \in DOMAIN jobs : \/ ReadAuthentication(n) \/ EndAuthentication(n)
                                        \/ RunAction(n) \/ EndAction(n)
              \/ PublishResubscribe

Receive == \/ ReceiveAuthenticated
           \/ ReceiveRefused
           \/ \E c \in Calls : ReceiveResponse(c)
           \/ ReceiveResubscribe

User == \/ SignIn \/ Restore
        \/ \E t \in Tokens : Expire(t)
        \/ \E c \in Calls : Ask(c)
        \/ ClearActive
        \/ ForceOffline \/ LeaveOffline
        \/ \E g \in Groups : ChangeMembership(g)

Next == Open \/ Connect \/ Lose \/ (\E c \in Calls : GateTimeout(c)) \/ Receive \/ ServerStep \/ User

Spec == Init /\ [][Next]_vars
=============================================================================
