--------------------------- MODULE RecoveryProofs ---------------------------
(***************************************************************************)
(* Proofs about the RecoveryCoordinator, for every value of the constants: *)
(* what is parked will be let go, and a settled client is current.         *)
(***************************************************************************)
EXTENDS RecoveryProps, TLAPS

\* Entering a step leaves the run under way and the parked events parked.
LEMMA EnterParks ==
    ASSUME ParkedIsTransient, NEW next \in Steps \ {"none", "state"}, Enter(next)
    PROVE  ParkedIsTransient'
<1>1. step' = next /\ phase' = PhaseOf[next] /\ queue' = queue
  BY DEF Enter
<1>2. PhaseOf[next] # "idle" /\ next # "none"
  BY DEF Steps, PhaseOf
<1> QED
  BY <1>1, <1>2 DEF ParkedIsTransient

\* schedule() leaves a timer behind it and a phase that parks.
LEMMA ScheduleParks ==
    ASSUME Schedule PROVE phase' # "idle" /\ timer'
  BY DEF Schedule

LEMMA RunParks == ASSUME ParkedIsTransient, Run PROVE ParkedIsTransient'
<1>1. CASE TimerFires
  BY <1>1 DEF TimerFires, ParkedIsTransient
<1>2. CASE StateProbed
  <2>1. CASE signedIn
    BY <1>2, <2>1, EnterParks DEF StateProbed, Steps
  <2>2. CASE ~signedIn
    BY <1>2, <2>2 DEF StateProbed, ParkedIsTransient
  <2> QED BY <2>1, <2>2
<1>3. CASE AccessRefreshed
  BY <1>3, EnterParks DEF AccessRefreshed, Steps
<1>4. CASE ProposalsFlushed
  BY <1>4, EnterParks DEF ProposalsFlushed, Steps
<1>5. CASE RevisionsRecovered
  BY <1>5, EnterParks DEF RevisionsRecovered, Steps
<1>6. CASE SnapshotsRefreshed
  BY <1>6, EnterParks DEF SnapshotsRefreshed, Steps
<1>7. CASE TakeBatch
  BY <1>7 DEF TakeBatch, ParkedIsTransient
<1>8. CASE ReplayEvent
  BY <1>8 DEF ReplayEvent, ParkedIsTransient, coordVars
<1>9. CASE ReplayEnds
  BY <1>9 DEF ReplayEnds, ParkedIsTransient
<1> QED
  BY <1>1, <1>2, <1>3, <1>4, <1>5, <1>6, <1>7, <1>8, <1>9 DEF Run

LEMMA HandleParks == ASSUME ParkedIsTransient, Handle PROVE ParkedIsTransient'
<1>1. CASE HandleResubscribe
  <2>1. CASE signedIn
    BY <1>1, <2>1, ScheduleParks DEF HandleResubscribe, ParkedIsTransient, runVars
  <2>2. CASE ~signedIn
    BY <1>1, <2>2 DEF HandleResubscribe, ParkedIsTransient, runVars
  <2> QED BY <2>1, <2>2
<1>2. CASE FailEvent
  BY <1>2, ScheduleParks DEF FailEvent, ParkedIsTransient, runVars
<1>3. CASE ParkEvent
  BY <1>3 DEF ParkEvent, ParkedIsTransient, runVars
<1>4. CASE HandleAuthenticated
  BY <1>4 DEF HandleAuthenticated, ParkedIsTransient, coordVars, runVars
<1>5. CASE HandleAnswer
  BY <1>5 DEF HandleAnswer, ParkedIsTransient, coordVars
<1>6. CASE IgnoreEvent
  BY <1>6 DEF IgnoreEvent, ParkedIsTransient, coordVars, runVars
<1>7. CASE ApplyEvent
  BY <1>7 DEF ApplyEvent, ParkedIsTransient, coordVars, runVars
<1>8. CASE RefreshFails
  BY <1>8 DEF RefreshFails, ParkedIsTransient, coordVars
<1> QED
  BY <1>1, <1>2, <1>3, <1>4, <1>5, <1>6, <1>7, <1>8 DEF Handle

\* What neither the run nor the socket's handlers do.
LEMMA RestParks ==
    ASSUME ParkedIsTransient,
           ChangeList \/ ChangePost \/ Serve \/ Connect \/ Disconnect \/ SignOut \/ SignIn
             \/ Waits \/ UNCHANGED vars
    PROVE  ParkedIsTransient'
<1>1. CASE ChangeList
  BY <1>1 DEF ChangeList, ParkedIsTransient, coordVars, runVars
<1>2. CASE ChangePost
  BY <1>2 DEF ChangePost, ParkedIsTransient, coordVars, runVars
<1>3. CASE Serve
  <2>1. CASE Authenticate
    BY <2>1 DEF Authenticate, ParkedIsTransient, coordVars, runVars
  <2>2. ASSUME NEW c \in Callers, Answer(c) PROVE ParkedIsTransient'
    BY <2>2 DEF Answer, ParkedIsTransient, coordVars
  <2> QED BY <1>3, <2>1, <2>2 DEF Serve
<1>4. CASE Connect
  BY <1>4, ScheduleParks DEF Connect, ParkedIsTransient, runVars
<1>5. CASE Disconnect
  BY <1>5 DEF Disconnect, ParkedIsTransient, coordVars
<1>6. CASE SignOut
  BY <1>6 DEF SignOut, TokenChanges, ParkedIsTransient
<1>7. CASE SignIn
  BY <1>7 DEF SignIn, TokenChanges, ParkedIsTransient
<1>8. CASE Waits \/ UNCHANGED vars
  BY <1>8 DEF Waits, vars, ParkedIsTransient, coordVars, runVars
<1> QED
  BY <1>1, <1>2, <1>3, <1>4, <1>5, <1>6, <1>7, <1>8

\* Whatever the network, the user and the timing do, no event stays parked
\* without a timer or a run that will let it go, and none is parked while later
\* ones are applied at once.
THEOREM ParkingEnds == Spec => []ParkedIsTransient
<1>1. Init => ParkedIsTransient
  BY DEF Init, ParkedIsTransient
<1>2. ParkedIsTransient /\ [Next]_vars => ParkedIsTransient'
  BY RunParks, HandleParks, RestParks DEF Next
<1> QED
  BY <1>1, <1>2, PTL DEF Spec

-----------------------------------------------------------------------------
(***************************************************************************)
(* Why a settled client is current.  Two numberings run along the frames   *)
(* on the wire: h[i] is the version of the list and p[i] the revision of   *)
(* the conversation that a client holds who has handled the first i frames *)
(* and has missed nothing.                                                 *)
(***************************************************************************)
Requests == [for : {"nothing", "access", "revisions"},
             state : {"done", "asked", "answered", "failed"}, epoch : Nat]
Frames   == [kind : {"authenticated", "resubscribe", "list", "post"}, n : Nat]
            \cup [kind : {"answer"}, to : Callers, request : Requests, n : Nat]
Events   == [kind : {"list", "post"}, n : Nat, epoch : Nat]

Types ==
    /\ list \in Nat /\ posts \in Nat /\ channels \in Nat \cup {NoBinding}
    /\ connected \in BOOLEAN /\ auth \in Nat /\ authenticated \in BOOLEAN
    /\ wire \in Seq(Frames)
    /\ signedIn \in BOOLEAN /\ epoch \in Nat
    /\ myList \in Nat /\ myPosts \subseteq Nat
    /\ timer \in BOOLEAN /\ step \in Steps
    /\ queue \in Seq(Events) /\ batch \in Seq(Events)
    /\ request \in [Callers -> Requests]

OpenRequest(c)    == request[c].state \in {"asked", "answered"}
Asked(c, what)    == request[c].for = what /\ request[c].state = "asked"
UnderWay(c, what) == request[c].for = what /\ OpenRequest(c)
Unanswered        == \A c \in Callers : request[c].state # "answered"

IsKind(i, kind)   == wire[i].kind = kind
IsAnswer(i, what) == wire[i].kind = "answer" /\ wire[i].request.for = what
Fits(i)           == wire[i].kind = "answer" /\ wire[i].request = request[wire[i].to]

\* What a lost link, a session that ended and a missing binding leave behind.
LinkDown == ~connected =>
    /\ wire = <<>> /\ auth = 0 /\ ~authenticated /\ channels = NoBinding
    /\ \A c \in Callers : ~OpenRequest(c)
SignedOut == ~signedIn => ~authenticated /\ \A c \in Callers : ~OpenRequest(c)
NotBound  == channels = NoBinding => wire = <<>> /\ ~authenticated /\ Unanswered

\* Requests are the session's own; the run waits for that of its step.
OwnRequests ==
    /\ \A c \in Callers : OpenRequest(c) => request[c].epoch = epoch /\ request[c].for # "nothing"
    /\ OpenRequest("run") => step = request["run"].for

\* An answer of this session fits the request of its caller, and is the only one.
AnswersFit ==
    \A i \in 1..Len(wire) : IsKind(i, "answer") =>
       /\ wire[i].request.epoch <= epoch /\ wire[i].request.state = "answered"
       /\ wire[i].request.epoch = epoch => Fits(i)
FitOnce ==
    \A i, j \in 1..Len(wire) : Fits(i) /\ Fits(j) /\ wire[i].to = wire[j].to => i = j

Links == LinkDown /\ SignedOut /\ NotBound /\ OwnRequests /\ AnswersFit /\ FitOnce

\* An event of the session that is parked: in the queue or in the batch under replay.
ParkedIn(s, kind, n) == \E i \in 1..Len(s) : s[i].kind = kind /\ s[i].n = n /\ s[i].epoch = epoch
Parked(kind, n) == ParkedIn(queue, kind, n) \/ ParkedIn(batch, kind, n)
NoListAfter(s, i) == \A j \in 1..Len(s) : i < j => ~(s[j].kind = "list" /\ s[j].epoch = epoch)

QueueOwn == /\ \A i \in 1..Len(queue) : queue[i].epoch = epoch
            /\ ~signedIn => queue = <<>>
BatchOwn == /\ \A i \in 1..Len(batch) :
                  /\ batch[i].epoch <= epoch
                  /\ batch[i].epoch = epoch => phase # "idle" /\ signedIn
            /\ batch # <<>> => step = "replay"
NoneParked == connected /\ channels = NoBinding =>
                 NoListAfter(queue, 0) /\ NoListAfter(batch, 0)
Parking == ParkedIsTransient /\ QueueOwn /\ BatchOwn /\ NoneParked

\* Nothing parked or stored is newer than the server.
EventBounded(e) == /\ e.kind = "list" => e.n \in 1..list
                   /\ e.kind = "post" => e.n \in 1..posts
Bounded ==
    /\ \A i \in 1..Len(queue) : EventBounded(queue[i])
    /\ \A i \in 1..Len(batch) : EventBounded(batch[i])
    /\ myList <= list /\ myPosts \subseteq 1..posts
    /\ list = 0 => posts = 0

Numbered(h, p) ==
    /\ h \in [0..Len(wire) -> 0..list] /\ p \in [0..Len(wire) -> 0..posts]
    /\ h[Len(wire)] = list /\ p[Len(wire)] = posts
    /\ \A i \in 1..Len(wire) :
          /\ h[i] = h[i - 1] + (IF IsKind(i, "list") THEN 1 ELSE 0)
          /\ p[i] = p[i - 1] + (IF IsKind(i, "post") THEN 1 ELSE 0)
          /\ IsKind(i, "list") \/ IsAnswer(i, "access") => wire[i].n = h[i]
          /\ IsKind(i, "post") => wire[i].n = p[i] /\ channels > 0
          /\ IsAnswer(i, "revisions") => wire[i].n <= p[i]

\* Who joins is told to subscribe again; nothing is asked about posts before that.
Rejoins ==
    /\ list = 0 => /\ \A c \in Callers : ~UnderWay(c, "revisions")
                   /\ \A i \in 1..Len(wire) : ~IsAnswer(i, "revisions") /\ ~IsKind(i, "resubscribe")
    /\ \A i, j \in 1..Len(wire) : IsAnswer(i, "revisions") /\ IsKind(j, "resubscribe") => j < i

JoinAhead(h) ==
    list > 0 => \A i \in 0..Len(wire) : h[i] = 0 =>
                   \E j \in 1..Len(wire) : i < j /\ IsKind(j, "resubscribe")

\* A recovery that has asked nothing yet, and a list or revisions still to be fetched.
Again        == timer \/ step = "state" \/ (step = "access" /\ Asked("run", "access"))
ListAhead    == timer \/ step = "state" \/ UnderWay("run", "access") \/ UnderWay("refresh", "access")
Resubscribes == \E j \in 1..Len(wire) : IsKind(j, "resubscribe")
PostsAhead   == \/ timer \/ step \in {"state", "access", "proposals"}
                \/ UnderWay("run", "revisions") \/ UnderWay("refresh", "access")
                \/ UnderWay("refresh", "revisions") \/ Resubscribes

Live == connected /\ signedIn

\* The last parked list is the latest one handled.
LastParked(h) ==
    connected =>
      /\ \A i \in 1..Len(queue) :
           queue[i].kind = "list" /\ NoListAfter(queue, i) => queue[i].n = h[0]
      /\ \A i \in 1..Len(batch) :
           batch[i].kind = "list" /\ batch[i].epoch = epoch /\ NoListAfter(batch, i)
           /\ NoListAfter(queue, 0) => batch[i].n = h[0]

ListParked      == ~NoListAfter(queue, 0) \/ ~NoListAfter(batch, 0)
ListCurrent(h)  == Live => ListAhead \/ ListParked \/ myList = h[0]
ListKnown       == Live /\ list > 0 /\ myList = 0 => ListAhead \/ Resubscribes
PostsCurrent(p) == Live => PostsAhead \/ \A n \in 1..p[0] : n \in myPosts \/ Parked("post", n)

\* The server's channels do not cover all the user may read: unbound, or not rejoined.
Unbound == Live /\ channels = NoBinding => Again \/ Asked("refresh", "access")

ToRejoin == \E j \in 1..Len(wire) :
    IsKind(j, "resubscribe") /\ \A k \in 1..Len(wire) : j <= k => ~IsKind(k, "authenticated")
Rejoining == /\ ~authenticated /\ \A k \in 1..Len(wire) : ~IsKind(k, "authenticated")
             /\ signedIn => Again \/ (Asked("refresh", "access") /\ Unanswered)
Unjoined == channels = 0 /\ list > 0 => ToRejoin \/ Rejoining

\* An answer about posts that was overtaken by a change nobody published.
Excused(i) ==
    \/ \E j \in 1..Len(wire) :
          /\ j < i /\ IsKind(j, "resubscribe")
          /\ \A k \in 1..Len(wire) : j <= k /\ k <= i => ~IsKind(k, "authenticated")
    \/ /\ ~authenticated /\ Again
       /\ \A k \in 1..Len(wire) : k <= i => ~IsKind(k, "authenticated")
StaleAnswers(p) ==
    \A i \in 1..Len(wire) :
       IsAnswer(i, "revisions") /\ Fits(i) /\ wire[i].n < p[i] => Excused(i)

Holds(h, p) ==
    /\ Numbered(h, p) /\ JoinAhead(h) /\ LastParked(h) /\ ListCurrent(h)
    /\ PostsCurrent(p) /\ StaleAnswers(p)

Sound == /\ Types /\ Links /\ Parking /\ Bounded /\ Rejoins /\ ListKnown /\ Unbound
         /\ Unjoined

RecoveryInv == Sound /\ \E h, p : Holds(h, p)

\* What taking the first frame off the wire and appending one leave.
LEMMA Taken ==
    ASSUME NEW S, NEW s \in Seq(S), s # <<>>
    PROVE  /\ Tail(s) \in Seq(S) /\ Len(s) \in Nat \ {0} /\ Len(Tail(s)) = Len(s) - 1
           /\ Head(s) = s[1] /\ s[1] \in S
           /\ \A i \in 1..(Len(s) - 1) : Tail(s)[i] = s[i + 1]
  OBVIOUS

LEMMA Appended ==
    ASSUME NEW S, NEW s \in Seq(S), NEW x \in S
    PROVE  /\ Append(s, x) \in Seq(S) /\ Len(Append(s, x)) = Len(s) + 1 /\ Len(s) \in Nat
           /\ \A i \in 1..Len(s) : Append(s, x)[i] = s[i]
           /\ Append(s, x)[Len(s) + 1] = x
  OBVIOUS

LEMMA Joined ==
    ASSUME NEW S, NEW s \in Seq(S), NEW x \in S, NEW y \in S
    PROVE  /\ s \o <<>> = s
           /\ s \o <<x>> = Append(s, x)
           /\ s \o (<<x>> \o <<>>) = Append(s, x)
           /\ s \o (<<x>> \o <<y>>) = Append(Append(s, x), y)
  OBVIOUS

\* What a frame is, by its kind.
LEMMA FrameKinds ==
    ASSUME Types, NEW i \in 1..Len(wire)
    PROVE  /\ wire[i] \in Frames /\ wire[i].n \in Nat
           /\ wire[i].kind \in {"authenticated", "resubscribe", "list", "post", "answer"}
           /\ wire[i].kind = "answer" => wire[i].to \in Callers /\ wire[i].request \in Requests
<1>1. wire[i] \in Frames
  BY DEF Types
<1> QED BY <1>1 DEF Frames

-----------------------------------------------------------------------------
(***************************************************************************)
(* The values of the variables.                                            *)
(***************************************************************************)
LEMMA NothingParked == <<>> \in Seq(Events) /\ <<>> \in Seq(Frames)
  OBVIOUS

LEMMA AskTyped ==
    ASSUME NEW what \in {"access", "revisions"}, NEW able \in BOOLEAN, NEW e \in Nat,
           NEW listed \in Nat
    PROVE  /\ Ask(what, able, e, listed) \in Requests
           /\ Ask(what, able, e, listed).state # "answered"
           /\ ~able => Ask(what, able, e, listed).state \notin {"asked", "answered"}
  BY DEF Ask, Requests, NoRequest

LEMMA FailedTyped ==
    ASSUME NEW r \in Requests
    PROVE  /\ Failed(r) \in Requests /\ Failed(r).state \notin {"asked", "answered"}
           /\ Failed(r).for = r.for
  BY DEF Failed, Requests

LEMMA EnterTyped ==
    ASSUME Types, NEW next \in Steps \ {"none", "state"}, Enter(next)
    PROVE  Types'
<1>1. request' \in [Callers -> Requests]
  <2>1. NoRequest \in Requests
    BY DEF NoRequest, Requests
  <2>2. CASE next \in {"access", "revisions"}
    <3>1. (connected /\ signedIn) \in BOOLEAN
      BY DEF Types
    <3>2. Ask(next, connected /\ signedIn, epoch, myList) \in Requests
      BY <2>2, <3>1, AskTyped DEF Types
    <3> QED BY <2>2, <3>2 DEF Enter, Types, Callers
  <2>3. CASE next \notin {"access", "revisions"}
    BY <2>1, <2>3 DEF Enter, Types, Callers
  <2> QED BY <2>2, <2>3
<1> QED
  BY <1>1 DEF Enter, Types, serverVars, socketVars, bindingVars, actorVars, diskVars

LEMMA ServeTyped ==
    ASSUME Admits = {}, Types, ChangeList \/ ChangePost \/ Serve PROVE Types'
<1>1. CASE ChangeList
  <2>1. [kind |-> "list", n |-> list + 1] \in Frames /\ [kind |-> "resubscribe", n |-> 0] \in Frames
    BY DEF Frames, Types
  <2>2. wire' \in Seq(Frames)
    <3>1. \/ wire' = wire \o <<>>
          \/ wire' = wire \o (<<[kind |-> "list", n |-> list + 1]>> \o <<[kind |-> "resubscribe", n |-> 0]>>)
          \/ wire' = wire \o (<<[kind |-> "list", n |-> list + 1]>> \o <<>>)
      BY <1>1 DEF ChangeList, Publish
    <3>2. /\ wire \o <<>> = wire
          /\ wire \o (<<[kind |-> "list", n |-> list + 1]>> \o <<>>)
               = Append(wire, [kind |-> "list", n |-> list + 1])
          /\ wire \o (<<[kind |-> "list", n |-> list + 1]>> \o <<[kind |-> "resubscribe", n |-> 0]>>)
               = Append(Append(wire, [kind |-> "list", n |-> list + 1]),
                        [kind |-> "resubscribe", n |-> 0])
      BY <2>1, Joined DEF Types
    <3>3. Append(wire, [kind |-> "list", n |-> list + 1]) \in Seq(Frames)
      BY <2>1, Appended DEF Types
    <3>4. Append(Append(wire, [kind |-> "list", n |-> list + 1]), [kind |-> "resubscribe", n |-> 0])
             \in Seq(Frames)
      BY <2>1, <3>3, Appended
    <3> QED BY <3>1, <3>2, <3>3, <3>4 DEF Types
  <2> QED
    BY <1>1, <2>2 DEF ChangeList, Types, bindingVars, actorVars, diskVars, coordVars, runVars
<1>2. CASE ChangePost
  <2>1. [kind |-> "post", n |-> posts + 1] \in Frames
    BY DEF Frames, Types
  <2>2. wire' \in Seq(Frames)
    <3>1. wire' = wire \o <<>> \/ wire' = wire \o <<[kind |-> "post", n |-> posts + 1]>>
      BY <1>2 DEF ChangePost, Publish
    <3>2. /\ wire \o <<>> = wire
          /\ wire \o <<[kind |-> "post", n |-> posts + 1]>>
               = Append(wire, [kind |-> "post", n |-> posts + 1])
      BY <2>1, Joined DEF Types
    <3>3. Append(wire, [kind |-> "post", n |-> posts + 1]) \in Seq(Frames)
      BY <2>1, Appended DEF Types
    <3> QED BY <3>1, <3>2, <3>3 DEF Types
  <2> QED
    BY <1>2, <2>2 DEF ChangePost, Types, bindingVars, actorVars, diskVars, coordVars, runVars
<1>3. CASE Authenticate
  <2>1. [kind |-> "authenticated", n |-> 0] \in Frames
    BY DEF Frames
  <2> QED
    BY <1>3, <2>1 DEF Authenticate, Types, actorVars, diskVars, coordVars, runVars
<1>4. ASSUME NEW c \in Callers, Answer(c) PROVE Types'
  <2>1. request' \in [Callers -> Requests] /\ request'[c] \in Requests
    BY <1>4 DEF Answer, Types, Requests
  <2>2. [kind |-> "answer", to |-> c, request |-> request'[c],
         n |-> IF request[c].for = "access" THEN list ELSE posts] \in Frames
    BY <2>1 DEF Frames, Types
  <2>3. wire' \in Seq(Frames)
    BY <1>4, <2>2 DEF Answer, Types
  <2> QED
    BY <1>4, <2>1, <2>3
    DEF Answer, Types, serverVars, bindingVars, actorVars, diskVars, coordVars
<1> QED
  BY <1>1, <1>2, <1>3, <1>4 DEF Serve

LEMMA RunTyped == ASSUME Types, Run PROVE Types'
<1>1. CASE TimerFires
  BY <1>1 DEF TimerFires, Types, Steps, serverVars, socketVars, bindingVars, actorVars, diskVars
<1>2. CASE StateProbed
  <2>1. CASE signedIn
    BY <1>2, <2>1, EnterTyped DEF StateProbed, Steps
  <2>2. CASE ~signedIn
    BY <1>2, <2>2, NothingParked
    DEF StateProbed, Types, Steps, serverVars, socketVars, bindingVars, actorVars, diskVars
  <2> QED BY <2>1, <2>2
<1>3. CASE AccessRefreshed
  BY <1>3, EnterTyped DEF AccessRefreshed, Steps
<1>4. CASE ProposalsFlushed
  BY <1>4, EnterTyped DEF ProposalsFlushed, Steps
<1>5. CASE RevisionsRecovered
  BY <1>5, EnterTyped DEF RevisionsRecovered, Steps
<1>6. CASE SnapshotsRefreshed
  BY <1>6, EnterTyped DEF SnapshotsRefreshed, Steps
<1>7. CASE TakeBatch
  BY <1>7 DEF TakeBatch, Types, serverVars, socketVars, bindingVars, actorVars, diskVars
<1>8. CASE ReplayEvent
  <2>1. batch' \in Seq(Events) /\ Head(batch) \in Events
    BY <1>8, Taken DEF ReplayEvent, Types
  <2>2. myList' \in Nat /\ myPosts' \subseteq Nat
    BY <1>8, <2>1 DEF ReplayEvent, Writes, Events, Types, diskVars
  <2> QED
    BY <1>8, <2>1, <2>2 DEF ReplayEvent, Types, serverVars, socketVars, bindingVars, actorVars, coordVars
<1>9. CASE ReplayEnds
  BY <1>9 DEF ReplayEnds, Types, Steps, serverVars, socketVars, bindingVars, actorVars, diskVars
<1> QED
  BY <1>1, <1>2, <1>3, <1>4, <1>5, <1>6, <1>7, <1>8, <1>9 DEF Run

\* The actions that take the first frame off the wire.
Arrival == HandleAuthenticated \/ HandleResubscribe \/ HandleAnswer \/ IgnoreEvent
           \/ ApplyEvent \/ FailEvent \/ ParkEvent

LEMMA ArrivalTakes ==
    ASSUME Types, Arrival
    PROVE  /\ wire # <<>> /\ wire' = Tail(wire) /\ wire' \in Seq(Frames)
           /\ Len(wire) \in Nat \ {0} /\ Len(wire') = Len(wire) - 1 /\ Head(wire) = wire[1]
           /\ \A i \in 1..Len(wire') : i + 1 \in 1..Len(wire) /\ wire'[i] = wire[i + 1]
           /\ \A i \in 2..Len(wire) : i - 1 \in 1..Len(wire') /\ wire[i] = wire'[i - 1]
           /\ 1 \in 1..Len(wire)
           /\ UNCHANGED <<list, posts, channels, connected, signedIn, epoch, step, batch>>
<1>1. wire # <<>> /\ wire' = Tail(wire)
  BY DEF Arrival, HandleAuthenticated, HandleResubscribe, HandleAnswer, IgnoreEvent,
         ApplyEvent, FailEvent, ParkEvent, Arrives, IsEvent
<1>2. UNCHANGED <<list, posts, channels, connected, signedIn, epoch, step, batch>>
  BY DEF Arrival, HandleAuthenticated, HandleResubscribe, HandleAnswer, IgnoreEvent,
         ApplyEvent, FailEvent, ParkEvent, serverVars, actorVars, runVars
<1>3. /\ Tail(wire) \in Seq(Frames) /\ Len(wire) \in Nat \ {0}
      /\ Len(Tail(wire)) = Len(wire) - 1 /\ Head(wire) = wire[1]
      /\ \A i \in 1..(Len(wire) - 1) : Tail(wire)[i] = wire[i + 1]
  BY <1>1, Taken DEF Types
<1>4. \A i \in 1..(Len(wire) - 1) : i + 1 \in 1..Len(wire)
  BY <1>3
<1>5. \A i \in 2..Len(wire) : i - 1 \in 1..(Len(wire) - 1) /\ i = (i - 1) + 1
  BY <1>3
<1>6. \A i \in 2..Len(wire) : wire[i] = Tail(wire)[i - 1]
  BY <1>3, <1>5
<1> QED BY <1>1, <1>2, <1>3, <1>4, <1>5, <1>6

LEMMA HandleTyped == ASSUME Types, Handle PROVE Types'
<1>1. CASE RefreshFails
  BY <1>1
  DEF RefreshFails, Types, NoRequest, Requests, Callers, serverVars, socketVars, bindingVars,
      actorVars, diskVars, coordVars
<1>2. CASE Arrival
  <2>1. /\ wire' \in Seq(Frames) /\ Head(wire) = wire[1] /\ 1 \in 1..Len(wire)
        /\ UNCHANGED <<list, posts, channels, connected, signedIn, epoch, step, batch>>
    BY <1>2, ArrivalTakes
  <2>2. /\ Head(wire).n \in Nat
        /\ Head(wire).kind = "answer" => Head(wire).to \in Callers
    BY <2>1, FrameKinds
  <2>3. CASE HandleAuthenticated
    BY <2>1, <2>3 DEF HandleAuthenticated, Types, diskVars, coordVars, runVars
  <2>4. CASE HandleResubscribe
    <3>1. CASE signedIn
      <4>1. auth' = auth + 1 /\ authenticated' = FALSE /\ timer' = TRUE /\ auth' \in Nat
        BY <2>4, <3>1 DEF HandleResubscribe, Schedule, Types
      <4>2. UNCHANGED <<myList, myPosts, request, queue>>
        BY <2>4 DEF HandleResubscribe, diskVars, runVars
      <4> QED
        BY <2>1, <4>1, <4>2 DEF Types
    <3>2. CASE ~signedIn
      BY <2>1, <2>4, <3>2 DEF HandleResubscribe, Types, bindingVars, diskVars, runVars
    <3> QED BY <3>1, <3>2
  <2>5. CASE HandleAnswer
    <3>1. Head(wire).to \in Callers
      BY <2>2, <2>5 DEF HandleAnswer, Arrives
    <3>2. NoRequest \in Requests
      BY DEF NoRequest, Requests
    <3>3. Ask("revisions", TRUE, epoch, Head(wire).n) \in Requests
      BY <2>2, AskTyped DEF Types
    <3>4. request' \in [Callers -> Requests]
      BY <2>2, <2>5, <3>1, <3>2, <3>3 DEF HandleAnswer, Types, diskVars
    <3>5. myList' \in Nat /\ myPosts' \subseteq Nat
      <4>1. \/ myList' \in {myList, Head(wire).n} /\ myPosts' = myPosts
            \/ myList' = myList /\ myPosts' = myPosts \cup 1..Head(wire).n
        BY <2>5 DEF HandleAnswer, diskVars
      <4>2. myList \in Nat /\ myPosts \subseteq Nat
        BY DEF Types
      <4>3. PICK n \in Nat : n = Head(wire).n
        BY <2>2
      <4>4. 1..n \subseteq Nat
        OBVIOUS
      <4> QED
        BY <4>1, <4>2, <4>3, <4>4
    <3> QED
      BY <2>1, <2>5, <3>4, <3>5 DEF HandleAnswer, Types, bindingVars, coordVars
  <2>6. CASE IgnoreEvent
    BY <2>1, <2>6 DEF IgnoreEvent, Types, bindingVars, diskVars, coordVars, runVars
  <2>7. CASE ApplyEvent
    BY <2>1, <2>2, <2>7 DEF ApplyEvent, Types, Writes, bindingVars, coordVars, runVars
  <2>8. CASE FailEvent
    BY <2>1, <2>8 DEF FailEvent, Types, Schedule, bindingVars, diskVars, runVars
  <2>9. CASE ParkEvent
    <3>1. [kind |-> Head(wire).kind, n |-> Head(wire).n, epoch |-> epoch] \in Events
      BY <2>2, <2>9 DEF ParkEvent, IsEvent, Events, Types
    <3>2. queue' \in Seq(Events)
      BY <2>9, <3>1 DEF ParkEvent, Types
    <3> QED
      BY <2>1, <2>9, <3>2 DEF ParkEvent, Types, bindingVars, diskVars, runVars
  <2> QED
    BY <1>2, <2>3, <2>4, <2>5, <2>6, <2>7, <2>8, <2>9 DEF Arrival
<1> QED
  BY <1>1, <1>2 DEF Handle, Arrival

LEMMA RestTyped ==
    ASSUME Types, Connect \/ Disconnect \/ SignOut \/ SignIn \/ Waits \/ UNCHANGED vars
    PROVE  Types'
<1>1. [c \in Callers |-> Failed(request[c])] \in [Callers -> Requests]
  BY FailedTyped DEF Types
<1>2. CASE Connect
  BY <1>2
  DEF Connect, Types, Schedule, serverVars, bindingVars, actorVars, diskVars, runVars
<1>3. CASE Disconnect
  BY <1>1, <1>3, NothingParked DEF Disconnect, Types, actorVars, diskVars, coordVars
<1>4. CASE SignOut
  <2>1. queue' = <<>> /\ epoch' = epoch + 1 /\ timer' = FALSE /\ authenticated' = FALSE
        /\ signedIn' = FALSE
    BY <1>4 DEF SignOut, TokenChanges
  <2>2. UNCHANGED <<list, posts, channels, myList, myPosts, connected, wire, auth, step, batch>>
    BY <1>4 DEF SignOut, serverVars, diskVars
  <2>3. request' \in [Callers -> Requests]
    BY <1>1, <1>4 DEF SignOut
  <2>4. queue' \in Seq(Events) /\ epoch' \in Nat
    BY <2>1, NothingParked DEF Types
  <2> QED
    BY <2>1, <2>2, <2>3, <2>4 DEF Types
<1>5. CASE SignIn
  <2>1. queue' = <<>> /\ epoch' = epoch + 1 /\ timer' = FALSE /\ signedIn' = TRUE
    BY <1>5 DEF SignIn, TokenChanges
  <2>2. UNCHANGED <<list, posts, channels, myList, myPosts, connected, wire, authenticated, step,
                    batch>>
    BY <1>5 DEF SignIn, serverVars, diskVars
  <2>3. request' \in [Callers -> Requests] /\ auth' \in Nat
    <3>1. Ask("access", connected, epoch + 1, myList) \in Requests
      BY AskTyped DEF Types
    <3>2. request' = [request EXCEPT !["refresh"] = Ask("access", connected, epoch + 1, myList)]
      BY <1>5 DEF SignIn
    <3>3. request \in [Callers -> Requests] /\ auth \in Nat
      BY DEF Types
    <3>4. auth' = auth + 1 \/ auth' = auth
      BY <1>5 DEF SignIn
    <3> QED
      BY <3>1, <3>2, <3>3, <3>4 DEF Callers
  <2>4. queue' \in Seq(Events) /\ epoch' \in Nat
    BY <2>1, NothingParked DEF Types
  <2> QED
    BY <2>1, <2>2, <2>3, <2>4 DEF Types
<1>6. CASE Waits \/ UNCHANGED vars
  BY <1>6
  DEF Waits, vars, Types, serverVars, socketVars, bindingVars, actorVars, diskVars, coordVars,
      runVars
<1> QED
  BY <1>2, <1>3, <1>4, <1>5, <1>6

LEMMA TypesNext == ASSUME Admits = {}, Types, [Next]_vars PROVE Types'
  BY ServeTyped, RunTyped, HandleTyped, RestTyped DEF Next

-----------------------------------------------------------------------------
(***************************************************************************)
(* How the numberings follow the wire.                                     *)
(***************************************************************************)
\* The frames on their way stay where they are, and k more come after them.
Sends(k) == /\ Len(wire) \in Nat /\ Len(wire') = Len(wire) + k
            /\ \A i \in 1..Len(wire) : wire'[i] = wire[i]

LEMMA AppendSends ==
    ASSUME Types, NEW f \in Frames, wire' = Append(wire, f)
    PROVE  Sends(1) /\ wire'[Len(wire) + 1] = f
  BY Appended DEF Types, Sends

\* What the server sends of a change.
LEMMA ListSends ==
    ASSUME Admits = {}, Types, ChangeList
    PROVE  /\ channels = NoBinding => wire' = wire
           /\ channels # NoBinding /\ list > 0 =>
                 Sends(1) /\ wire'[Len(wire) + 1] = [kind |-> "list", n |-> list + 1]
           /\ channels # NoBinding /\ list = 0 =>
                 /\ Sends(2) /\ wire'[Len(wire) + 1] = [kind |-> "list", n |-> list + 1]
                 /\ wire'[Len(wire) + 2] = [kind |-> "resubscribe", n |-> 0]
<1> DEFINE f == [kind |-> "list", n |-> list + 1]
           r == [kind |-> "resubscribe", n |-> 0]
<1>1. f \in Frames /\ r \in Frames /\ wire \in Seq(Frames) /\ list \in Nat
  BY DEF Frames, Types
<1>2. /\ channels = NoBinding => wire' = wire \o <<>>
      /\ channels # NoBinding /\ list > 0 => wire' = wire \o (<<f>> \o <<>>)
      /\ channels # NoBinding /\ list = 0 => wire' = wire \o (<<f>> \o <<r>>)
  <2>1. CASE channels = NoBinding
    BY <2>1 DEF ChangeList, Publish
  <2>2. CASE channels # NoBinding /\ list > 0
    <3>1. list # 0
      BY <2>2
    <3> QED BY <2>2, <3>1 DEF ChangeList, Publish
  <2>3. CASE channels # NoBinding /\ list = 0
    <3>1. ~(list > 0)
      BY <2>3
    <3> QED BY <2>3, <3>1 DEF ChangeList, Publish
  <2> QED BY <1>1, <2>1, <2>2, <2>3
<1> HIDE DEF f, r
<1>3. /\ channels = NoBinding => wire' = wire
      /\ channels # NoBinding /\ list > 0 => wire' = Append(wire, f)
      /\ channels # NoBinding /\ list = 0 => wire' = Append(Append(wire, f), r)
  <2>1. /\ wire \o <<>> = wire /\ wire \o (<<f>> \o <<>>) = Append(wire, f)
        /\ wire \o (<<f>> \o <<r>>) = Append(Append(wire, f), r)
    BY <1>1, Joined
  <2> QED BY <1>2, <2>1
<1>4. /\ Append(wire, f) \in Seq(Frames) /\ Len(Append(wire, f)) = Len(wire) + 1
      /\ Len(wire) \in Nat /\ Append(wire, f)[Len(wire) + 1] = f
      /\ \A i \in 1..Len(wire) : Append(wire, f)[i] = wire[i]
  BY <1>1, Appended
<1>5. /\ Len(Append(Append(wire, f), r)) = Len(wire) + 2
      /\ Append(Append(wire, f), r)[Len(wire) + 2] = r
      /\ \A i \in 1..(Len(wire) + 1) : Append(Append(wire, f), r)[i] = Append(wire, f)[i]
  <2>1. /\ Len(Append(Append(wire, f), r)) = Len(Append(wire, f)) + 1
        /\ Append(Append(wire, f), r)[Len(Append(wire, f)) + 1] = r
        /\ \A i \in 1..Len(Append(wire, f)) : Append(Append(wire, f), r)[i] = Append(wire, f)[i]
    BY <1>1, <1>4, Appended
  <2> QED BY <1>4, <2>1
<1>6. channels # NoBinding /\ list > 0 => Sends(1) /\ wire'[Len(wire) + 1] = f
  BY <1>3, <1>4 DEF Sends
<1>7. channels # NoBinding /\ list = 0 =>
         Sends(2) /\ wire'[Len(wire) + 1] = f /\ wire'[Len(wire) + 2] = r
  BY <1>3, <1>4, <1>5 DEF Sends
<1> QED BY <1>3, <1>6, <1>7 DEF f, r

LEMMA PostSends ==
    ASSUME Admits = {}, Types, ChangePost
    PROVE  /\ channels \in {NoBinding, 0} => wire' = wire
           /\ channels > 0 =>
                 Sends(1) /\ wire'[Len(wire) + 1] = [kind |-> "post", n |-> posts + 1]
<1>1. [kind |-> "post", n |-> posts + 1] \in Frames /\ wire \in Seq(Frames)
  BY DEF Frames, Types
<1>2. /\ ~(channels > 0) => wire' = wire \o <<>>
      /\ channels > 0 => wire' = wire \o <<[kind |-> "post", n |-> posts + 1]>>
  BY DEF ChangePost, Publish
<1>3. channels \in {NoBinding, 0} => ~(channels > 0)
  BY DEF NoBinding
<1> QED
  BY <1>1, <1>2, <1>3, Joined, AppendSends

LEMMA AuthenticateSends ==
    ASSUME Types, Authenticate
    PROVE  Sends(1) /\ wire'[Len(wire) + 1] = [kind |-> "authenticated", n |-> 0]
  BY AppendSends DEF Authenticate, Frames

LEMMA AnswerSends ==
    ASSUME Types, NEW c \in Callers, Answer(c)
    PROVE  /\ Sends(1)
           /\ wire'[Len(wire) + 1] =
                [kind |-> "answer", to |-> c, request |-> request'[c],
                 n |-> IF request[c].for = "access" THEN list ELSE posts]
           /\ request' = [request EXCEPT ![c].state = "answered"] /\ request'[c] \in Requests
           /\ request'[c].for = request[c].for /\ request'[c].state = "answered"
           /\ request'[c].epoch = request[c].epoch
           /\ \A d \in Callers : d # c => request'[d] = request[d]
<1>1. request' = [request EXCEPT ![c].state = "answered"]
  BY DEF Answer
<1>2. /\ request'[c] \in Requests /\ request'[c].for = request[c].for
      /\ request'[c].state = "answered" /\ request'[c].epoch = request[c].epoch
      /\ \A d \in Callers : d # c => request'[d] = request[d]
  BY <1>1 DEF Types, Requests
<1>3. [kind |-> "answer", to |-> c, request |-> request'[c],
       n |-> IF request[c].for = "access" THEN list ELSE posts] \in Frames
  BY <1>2 DEF Types, Frames
<1> QED
  BY <1>1, <1>2, <1>3, AppendSends DEF Answer

\* The numbering of a wire from which the first frame was taken.
LEMMA NumbersTaken ==
    ASSUME Types, Arrival, NEW h, NEW p, Numbered(h, p), NEW g, NEW q,
           g = [i \in 0..(Len(wire) - 1) |-> h[i + 1]],
           q = [i \in 0..(Len(wire) - 1) |-> p[i + 1]]
    PROVE  Numbered(g, q)'
<1>1. /\ Len(wire) \in Nat \ {0} /\ Len(wire') = Len(wire) - 1
      /\ \A i \in 1..Len(wire') : i + 1 \in 1..Len(wire) /\ wire'[i] = wire[i + 1]
      /\ UNCHANGED <<list, posts, channels>>
  BY ArrivalTakes
<1>2. list \in Nat /\ posts \in Nat
  BY DEF Types
<1>3. /\ g \in [0..Len(wire') -> 0..list'] /\ q \in [0..Len(wire') -> 0..posts']
      /\ g[Len(wire')] = list' /\ q[Len(wire')] = posts'
  BY <1>1, <1>2 DEF Numbered
<1>4. \A i \in 1..Len(wire') : /\ g[i] = h[i + 1] /\ g[i - 1] = h[(i + 1) - 1]
                               /\ q[i] = p[i + 1] /\ q[i - 1] = p[(i + 1) - 1]
  BY <1>1
<1>5. ASSUME NEW i \in 1..Len(wire')
      PROVE  (/\ g[i] = g[i - 1] + (IF IsKind(i, "list") THEN 1 ELSE 0)
              /\ q[i] = q[i - 1] + (IF IsKind(i, "post") THEN 1 ELSE 0)
              /\ IsKind(i, "list") \/ IsAnswer(i, "access") => wire[i].n = g[i]
              /\ IsKind(i, "post") => wire[i].n = q[i] /\ channels > 0
              /\ IsAnswer(i, "revisions") => wire[i].n <= q[i])'
  <2>1. i + 1 \in 1..Len(wire) /\ wire'[i] = wire[i + 1]
    BY <1>1
  <2>2. /\ g[i] = h[i + 1] /\ g[i - 1] = h[(i + 1) - 1]
        /\ q[i] = p[i + 1] /\ q[i - 1] = p[(i + 1) - 1]
    BY <1>4
  <2> QED
    BY <1>1, <2>1, <2>2 DEF Numbered, IsKind, IsAnswer
<1> QED
  BY <1>3, <1>5 DEF Numbered

\* The numbering of a wire with one more frame.
LEMMA NumbersSent ==
    ASSUME Types, Types', Sends(1), NEW h, NEW p, Numbered(h, p), NEW g, NEW q,
           g = [i \in 0..(Len(wire) + 1) |-> IF i <= Len(wire) THEN h[i] ELSE list'],
           q = [i \in 0..(Len(wire) + 1) |-> IF i <= Len(wire) THEN p[i] ELSE posts'],
           NEW f, f = wire'[Len(wire) + 1],
           list' = list + (IF f.kind = "list" THEN 1 ELSE 0),
           posts' = posts + (IF f.kind = "post" THEN 1 ELSE 0),
           f.kind = "list" \/ (f.kind = "answer" /\ f.request.for = "access") => f.n = list',
           f.kind = "post" => f.n = posts' /\ channels' > 0,
           f.kind = "answer" /\ f.request.for = "revisions" => f.n <= posts',
           \A i \in 1..Len(wire) : IsKind(i, "post") => channels' > 0
    PROVE  Numbered(g, q)'
<1>1. /\ Len(wire) \in Nat /\ Len(wire') = Len(wire) + 1
      /\ \A i \in 1..Len(wire) : wire'[i] = wire[i]
  BY DEF Sends
<1>2. /\ list \in Nat /\ posts \in Nat /\ list' \in Nat /\ posts' \in Nat
      /\ list <= list' /\ posts <= posts'
  BY DEF Types
<1>3. /\ \A i \in 0..Len(wire) : g[i] = h[i] /\ q[i] = p[i]
      /\ g[Len(wire')] = list' /\ q[Len(wire')] = posts'
  BY <1>1
<1>4. g \in [0..Len(wire') -> 0..list'] /\ q \in [0..Len(wire') -> 0..posts']
  <2>1. \A i \in 0..(Len(wire) + 1) :
           /\ (IF i <= Len(wire) THEN h[i] ELSE list') \in 0..list'
           /\ (IF i <= Len(wire) THEN p[i] ELSE posts') \in 0..posts'
    <3>1. ASSUME NEW i \in 0..Len(wire) PROVE h[i] \in 0..list' /\ p[i] \in 0..posts'
      <4>1. h[i] \in 0..list /\ p[i] \in 0..posts
        BY DEF Numbered
      <4> QED BY <1>2, <4>1
    <3>2. \A i \in 0..(Len(wire) + 1) : i \in 0..Len(wire) \/ ~(i <= Len(wire))
      BY <1>1
    <3>3. list' \in 0..list' /\ posts' \in 0..posts'
      BY <1>2
    <3>4. \A i \in 0..Len(wire) : i <= Len(wire)
      BY <1>1
    <3> QED BY <3>1, <3>2, <3>3, <3>4
  <2> QED BY <1>1, <2>1
<1>5. ASSUME NEW i \in 1..Len(wire)
      PROVE  (/\ g[i] = g[i - 1] + (IF IsKind(i, "list") THEN 1 ELSE 0)
              /\ q[i] = q[i - 1] + (IF IsKind(i, "post") THEN 1 ELSE 0)
              /\ IsKind(i, "list") \/ IsAnswer(i, "access") => wire[i].n = g[i]
              /\ IsKind(i, "post") => wire[i].n = q[i] /\ channels > 0
              /\ IsAnswer(i, "revisions") => wire[i].n <= q[i])'
  <2>1. i \in 0..Len(wire) /\ i - 1 \in 0..Len(wire)
    BY <1>1
  <2>2. wire'[i] = wire[i] /\ g[i] = h[i] /\ g[i - 1] = h[i - 1] /\ q[i] = p[i] /\ q[i - 1] = p[i - 1]
    BY <1>1, <1>3, <2>1
  <2>3. /\ h[i] = h[i - 1] + (IF IsKind(i, "list") THEN 1 ELSE 0)
        /\ p[i] = p[i - 1] + (IF IsKind(i, "post") THEN 1 ELSE 0)
        /\ IsKind(i, "list") \/ IsAnswer(i, "access") => wire[i].n = h[i]
        /\ IsKind(i, "post") => wire[i].n = p[i]
        /\ IsAnswer(i, "revisions") => wire[i].n <= p[i]
    BY DEF Numbered
  <2> QED
    BY <2>2, <2>3 DEF IsKind, IsAnswer
<1>6. ASSUME NEW i, i = Len(wire) + 1
      PROVE  (/\ g[i] = g[i - 1] + (IF IsKind(i, "list") THEN 1 ELSE 0)
              /\ q[i] = q[i - 1] + (IF IsKind(i, "post") THEN 1 ELSE 0)
              /\ IsKind(i, "list") \/ IsAnswer(i, "access") => wire[i].n = g[i]
              /\ IsKind(i, "post") => wire[i].n = q[i] /\ channels > 0
              /\ IsAnswer(i, "revisions") => wire[i].n <= q[i])'
  <2>1. g[i - 1] = list /\ q[i - 1] = posts /\ g[i] = list' /\ q[i] = posts'
    BY <1>1, <1>3, <1>6 DEF Numbered
  <2> QED
    BY <1>6, <2>1 DEF IsKind, IsAnswer
<1>7. \A i \in 1..Len(wire') : i \in 1..Len(wire) \/ i = Len(wire) + 1
  BY <1>1
<1> QED
  BY <1>3, <1>4, <1>5, <1>6, <1>7 DEF Numbered

-----------------------------------------------------------------------------
(***************************************************************************)
(* The link, the session and the requests.                                 *)
(***************************************************************************)
LEMMA RunIsOpen ==
    ASSUME Types, OwnRequests, step \notin {"access", "revisions"} \/ RequestOver
    PROVE  ~OpenRequest("run")
<1>1. request["run"].for \in {"nothing", "access", "revisions"}
  BY DEF Types, Requests, Callers
<1>2. step # "nothing"
  BY DEF Types, Steps
<1> QED BY <1>1, <1>2 DEF OwnRequests, OpenRequest, RequestOver

\* What keeps the link, the session and the requests as they are.
LEMMA LinksKept ==
    ASSUME Types, Links, step' = step \/ ~OpenRequest("run"),
           UNCHANGED <<connected, wire, auth, authenticated, channels, signedIn, epoch, request>>
    PROVE  Links'
  BY DEF Links, LinkDown, SignedOut, NotBound, OwnRequests, AnswersFit, FitOnce, OpenRequest,
         Unanswered, IsKind, Fits

\* Requests that are not under way are replaced by ones without an answer.
LEMMA RequestsReplaced ==
    ASSUME Types, Links, UNCHANGED <<connected, wire, authenticated, channels, signedIn, epoch>>,
           ~connected => auth' = 0,
           \A c \in Callers : \/ request'[c] = request[c]
                              \/ /\ ~OpenRequest(c) /\ request'[c].state # "answered"
                                 /\ ~connected \/ ~signedIn => request'[c].state # "asked"
                                 /\ request'[c].state = "asked" =>
                                       request'[c].epoch = epoch /\ request'[c].for # "nothing",
           OpenRequest("run")' => step' = request'["run"].for
    PROVE  Links'
<1>1. \A c \in Callers : /\ OpenRequest(c)' => request'[c].state = "asked" \/ request'[c] = request[c]
                         /\ request'[c] = request[c] => (OpenRequest(c)' <=> OpenRequest(c))
  BY DEF OpenRequest
<1>2. LinkDown' /\ SignedOut' /\ NotBound'
  BY <1>1 DEF Links, LinkDown, SignedOut, NotBound, Unanswered
<1>3. OwnRequests'
  BY <1>1 DEF Links, OwnRequests
<1>4. ASSUME NEW i \in 1..Len(wire), IsKind(i, "answer")
      PROVE  /\ wire[i].request.epoch = epoch => Fits(i)'
             /\ Fits(i)' => Fits(i)
  <2>1. wire[i].to \in Callers /\ wire[i].request.state = "answered"
    BY <1>4, FrameKinds DEF Links, AnswersFit, IsKind
  <2>2. Fits(i) => OpenRequest(wire[i].to) /\ request'[wire[i].to] = request[wire[i].to]
    BY <2>1 DEF Fits, OpenRequest
  <2>3. request'[wire[i].to] = wire[i].request => request'[wire[i].to] = request[wire[i].to]
    BY <2>1
  <2> QED
    BY <1>4, <2>1, <2>2, <2>3 DEF Links, AnswersFit, Fits, IsKind
<1>5. AnswersFit' /\ FitOnce'
  BY <1>4 DEF Links, AnswersFit, FitOnce, Fits, IsKind
<1> QED BY <1>2, <1>3, <1>5 DEF Links

LEMMA EnterLinks ==
    ASSUME Types, Links, ~OpenRequest("run"), NEW next \in Steps \ {"none", "state"}, Enter(next)
    PROVE  Links'
<1>1. /\ UNCHANGED <<connected, wire, auth, authenticated, channels, signedIn, epoch>>
      /\ step' = next /\ request'["refresh"] = request["refresh"]
      /\ request'["run"] = IF next \in {"access", "revisions"}
                           THEN Ask(next, connected /\ signedIn, epoch, myList) ELSE NoRequest
  BY DEF Enter, serverVars, socketVars, bindingVars, actorVars, Types, Callers
<1>2. /\ request'["run"].state # "answered"
      /\ ~connected \/ ~signedIn => request'["run"].state # "asked"
      /\ request'["run"].state = "asked" =>
            request'["run"].epoch = epoch /\ request'["run"].for = step'
  BY <1>1 DEF Ask, NoRequest
<1>3. /\ OpenRequest("run")' => step' = request'["run"].for
      /\ request'["run"].state = "asked" => request'["run"].for # "nothing"
  BY <1>1, <1>2 DEF OpenRequest, Ask, NoRequest
<1>4. ~connected => auth' = 0
  BY <1>1 DEF Links, LinkDown
<1> QED
  BY <1>1, <1>2, <1>3, <1>4, RequestsReplaced DEF Callers

LEMMA RunLinks == ASSUME Admits = {}, Types, Links, Parking, Run PROVE Links'
<1>1. CASE TimerFires
  <2>1. step = "none"
    BY <1>1 DEF TimerFires
  <2> QED
    BY <1>1, <2>1, RunIsOpen, LinksKept
    DEF TimerFires, Links, serverVars, socketVars, bindingVars, actorVars
<1>2. CASE StateProbed
  <2>1. ~OpenRequest("run")
    BY <1>2, RunIsOpen DEF StateProbed, Links
  <2>2. CASE signedIn
    BY <1>2, <2>1, <2>2, EnterLinks DEF StateProbed, Steps
  <2>3. CASE ~signedIn
    BY <1>2, <2>1, <2>3, LinksKept
    DEF StateProbed, serverVars, socketVars, bindingVars, actorVars
  <2> QED BY <2>2, <2>3
<1>3. CASE AccessRefreshed
  BY <1>3, RunIsOpen, EnterLinks DEF AccessRefreshed, Steps, Links
<1>4. CASE ProposalsFlushed
  BY <1>4, RunIsOpen, EnterLinks DEF ProposalsFlushed, Steps, Links
<1>5. CASE RevisionsRecovered
  BY <1>5, RunIsOpen, EnterLinks DEF RevisionsRecovered, Steps, Links
<1>6. CASE SnapshotsRefreshed
  BY <1>6, RunIsOpen, EnterLinks DEF SnapshotsRefreshed, Steps, Links
<1>7. CASE TakeBatch
  BY <1>7, LinksKept DEF TakeBatch, serverVars, socketVars, bindingVars, actorVars
<1>8. CASE ReplayEvent
  BY <1>8, LinksKept DEF ReplayEvent, serverVars, socketVars, bindingVars, actorVars
<1>9. CASE ReplayEnds
  <2>1. ~OpenRequest("run")
    BY <1>9, RunIsOpen DEF ReplayEnds, Links
  <2> QED
    BY <1>9, <2>1, LinksKept DEF ReplayEnds, serverVars, socketVars, bindingVars, actorVars
<1> QED
  BY <1>1, <1>2, <1>3, <1>4, <1>5, <1>6, <1>7, <1>8, <1>9 DEF Run

\* A frame that is no answer disturbs none.
LEMMA SentLinks ==
    ASSUME Types, Links, NEW k \in {1, 2}, Sends(k), channels # NoBinding, channels' # NoBinding,
           \A i \in (Len(wire) + 1)..(Len(wire) + k) : wire'[i].kind # "answer",
           UNCHANGED <<connected, authenticated, signedIn, epoch, request, step>>
    PROVE  Links'
<1>1. connected
  BY DEF Links, LinkDown
<1>2. LinkDown' /\ SignedOut' /\ NotBound' /\ OwnRequests'
  BY <1>1 DEF Links, LinkDown, SignedOut, NotBound, OwnRequests, OpenRequest
<1>3. \A i \in 1..Len(wire') : wire'[i].kind = "answer" => i \in 1..Len(wire) /\ wire'[i] = wire[i]
  BY DEF Sends
<1>4. AnswersFit'
  BY <1>3 DEF Links, AnswersFit, IsKind, Fits
<1>5. FitOnce'
  BY <1>3 DEF Links, FitOnce, Fits
<1> QED BY <1>2, <1>4, <1>5 DEF Links

LEMMA ServeLinks ==
    ASSUME Admits = {}, Types, Links, ChangeList \/ ChangePost \/ Serve
    PROVE  Links'
<1>1. CASE ChangeList
  <2>1. UNCHANGED <<connected, auth, authenticated, signedIn, epoch, request, step, channels>>
    BY <1>1 DEF ChangeList, bindingVars, actorVars, runVars
  <2>2. CASE channels = NoBinding
    BY <1>1, <2>1, <2>2, ListSends, LinksKept
  <2>3. CASE channels # NoBinding
    <3>1. list > 0 \/ list = 0
      BY DEF Types
    <3>2. PICK k \in {1, 2} : Sends(k) /\ wire'[Len(wire) + 1].kind = "list"
                              /\ (k = 2 => wire'[Len(wire) + 2].kind = "resubscribe")
      BY <1>1, <2>3, <3>1, ListSends
    <3>3. \A i \in (Len(wire) + 1)..(Len(wire) + k) : i = Len(wire) + 1 \/ (k = 2 /\ i = Len(wire) + 2)
      BY <3>2 DEF Sends
    <3>4. \A i \in (Len(wire) + 1)..(Len(wire) + k) : wire'[i].kind # "answer"
      BY <3>2, <3>3
    <3> QED BY <2>1, <2>3, <3>2, <3>4, SentLinks
  <2> QED BY <2>2, <2>3
<1>2. CASE ChangePost
  <2>1. UNCHANGED <<connected, auth, authenticated, signedIn, epoch, request, step, channels>>
    BY <1>2 DEF ChangePost, bindingVars, actorVars, runVars
  <2>2. CASE channels \in {NoBinding, 0}
    BY <1>2, <2>1, <2>2, PostSends, LinksKept
  <2>3. CASE channels > 0
    <3>1. Sends(1) /\ wire'[Len(wire) + 1].kind = "post" /\ Len(wire) \in Nat
      BY <1>2, <2>3, PostSends DEF Sends
    <3>2. \A i \in (Len(wire) + 1)..(Len(wire) + 1) : wire'[i].kind # "answer"
      BY <3>1
    <3>3. channels # NoBinding
      BY <2>3 DEF NoBinding
    <3> QED BY <2>1, <3>1, <3>2, <3>3, SentLinks
  <2>4. channels \in {NoBinding, 0} \/ channels > 0
    BY DEF Types
  <2> QED BY <2>2, <2>3, <2>4
<1>3. CASE Authenticate
  <2>1. UNCHANGED <<connected, authenticated, signedIn, epoch, request, step, list>>
    BY <1>3 DEF Authenticate, actorVars, runVars
  <2>2. Sends(1) /\ wire'[Len(wire) + 1].kind = "authenticated" /\ Len(wire) \in Nat
    BY <1>3, AuthenticateSends DEF Sends
  <2>3. \A i \in 1..Len(wire') : wire'[i].kind = "answer" => i \in 1..Len(wire) /\ wire'[i] = wire[i]
    BY <2>2 DEF Sends
  <2>4. connected /\ channels' # NoBinding
    BY <1>3 DEF Authenticate, Links, LinkDown, Types, NoBinding
  <2>5. LinkDown' /\ SignedOut' /\ NotBound' /\ OwnRequests'
    BY <2>1, <2>4 DEF Links, LinkDown, SignedOut, NotBound, OwnRequests, OpenRequest
  <2>6. AnswersFit'
    BY <2>1, <2>3 DEF Links, AnswersFit, IsKind, Fits
  <2>7. FitOnce'
    BY <2>1, <2>3 DEF Links, FitOnce, Fits
  <2> QED BY <2>5, <2>6, <2>7 DEF Links
<1>4. ASSUME NEW c \in Callers, Answer(c) PROVE Links'
  <2>1. UNCHANGED <<connected, authenticated, signedIn, epoch, step, channels>>
    BY <1>4 DEF Answer, serverVars, bindingVars, actorVars
  <2>2. authenticated /\ request[c].state = "asked" /\ connected /\ signedIn /\ channels # NoBinding
    BY <1>4 DEF Answer, Links, LinkDown, SignedOut, NotBound
  <2>3. /\ Sends(1) /\ Len(wire) \in Nat
        /\ wire'[Len(wire) + 1].kind = "answer" /\ wire'[Len(wire) + 1].to = c
        /\ wire'[Len(wire) + 1].request = request'[c]
        /\ request'[c].for = request[c].for /\ request'[c].state = "answered"
        /\ request'[c].epoch = request[c].epoch
        /\ \A d \in Callers : d # c => request'[d] = request[d]
    <3>1. /\ Sends(1)
          /\ wire'[Len(wire) + 1] =
               [kind |-> "answer", to |-> c, request |-> request'[c],
                n |-> IF request[c].for = "access" THEN list ELSE posts]
          /\ request'[c].for = request[c].for /\ request'[c].state = "answered"
          /\ request'[c].epoch = request[c].epoch
          /\ \A d \in Callers : d # c => request'[d] = request[d]
      BY <1>4, AnswerSends
    <3>2. Len(wire) \in Nat
      BY <3>1 DEF Sends
    <3> QED BY <3>1, <3>2
  <2>4. request'[c].epoch = epoch
    BY <2>2, <2>3 DEF Links, OwnRequests, OpenRequest
  <2>5. LinkDown' /\ SignedOut' /\ NotBound'
    BY <2>1, <2>2 DEF LinkDown, SignedOut, NotBound
  <2>6. OwnRequests'
    <3>1. \A d \in Callers : OpenRequest(d)' => OpenRequest(d) /\ request'[d].epoch = request[d].epoch
                                                 /\ request'[d].for = request[d].for
      BY <2>2, <2>3 DEF OpenRequest
    <3> QED BY <2>1, <3>1 DEF Links, OwnRequests, Callers
  <2>7. \A i \in 1..Len(wire') : i = Len(wire) + 1 \/ (i \in 1..Len(wire) /\ wire'[i] = wire[i])
    BY <2>3 DEF Sends
  <2>8. ASSUME NEW i \in 1..Len(wire), IsKind(i, "answer")
        PROVE  /\ wire[i].to \in Callers /\ wire[i].request.state = "answered"
               /\ Fits(i) => wire[i].to # c
               /\ wire[i].to # c => request'[wire[i].to] = request[wire[i].to]
               /\ wire[i].to = c => request'[c] # wire[i].request
    <3>1. wire[i].to \in Callers /\ wire[i].request.state = "answered"
      BY <2>8, FrameKinds DEF Links, AnswersFit, IsKind
    <3>2. Fits(i) => wire[i].to # c
      BY <2>2, <3>1 DEF Fits
    <3>3. wire[i].request.epoch = epoch => wire[i].to # c
      BY <2>8, <3>2 DEF Links, AnswersFit
    <3> QED BY <2>3, <2>4, <3>1, <3>2, <3>3
  <2>9. AnswersFit'
    <3>1. ASSUME NEW i \in 1..Len(wire), IsKind(i, "answer")
          PROVE  /\ wire[i].request.epoch <= epoch /\ wire[i].request.state = "answered"
                 /\ wire[i].request.epoch = epoch => wire[i].request = request'[wire[i].to]
      BY <2>8, <3>1 DEF Links, AnswersFit, Fits
    <3>2. epoch <= epoch
      BY DEF Types
    <3>3. \A i \in 1..Len(wire') : IsKind(i, "answer")' =>
             /\ wire'[i].request.epoch <= epoch /\ wire'[i].request.state = "answered"
             /\ wire'[i].request.epoch = epoch => wire'[i].request = request'[wire'[i].to]
      BY <2>3, <2>4, <2>7, <3>1, <3>2 DEF IsKind
    <3> QED BY <2>1, <3>3 DEF AnswersFit, Fits, IsKind
  <2>10. FitOnce'
    BY <2>3, <2>7, <2>8 DEF Links, FitOnce, IsKind, Fits
  <2> QED BY <2>5, <2>6, <2>9, <2>10 DEF Links
<1> QED
  BY <1>1, <1>2, <1>3, <1>4 DEF Serve

\* What an arrival does to the requests: an answer that fits ends one.
LEMMA ArrivalRequests ==
    ASSUME Types, Arrival
    PROVE  \/ request' = request
           \/ /\ HandleAnswer /\ Fits(1) /\ wire[1].to \in Callers
              /\ \A d \in Callers : d # wire[1].to => request'[d] = request[d]
              /\ request'[wire[1].to].state # "answered"
              /\ request'[wire[1].to].state = "asked" =>
                    /\ wire[1].to = "refresh" /\ request'[wire[1].to].epoch = epoch
                    /\ request'[wire[1].to].for # "nothing"
<1>1. CASE HandleAnswer
  <2>1. Head(wire) = wire[1] /\ 1 \in 1..Len(wire) /\ wire[1].kind = "answer"
    BY <1>1, ArrivalTakes DEF HandleAnswer, Arrives
  <2>2. wire[1].to \in Callers /\ wire[1].n \in Nat
    BY <2>1, FrameKinds
  <2>3. CASE request[wire[1].to] # wire[1].request
    BY <1>1, <2>1, <2>3 DEF HandleAnswer
  <2>4. CASE request[wire[1].to] = wire[1].request
    <3>1. PICK r : /\ request' = [request EXCEPT ![wire[1].to] = r]
                   /\ \/ r = NoRequest
                      \/ wire[1].to = "refresh" /\ r = Ask("revisions", TRUE, epoch, wire[1].n)
      BY <1>1, <2>1, <2>4 DEF HandleAnswer
    <3>2. r.state # "answered" /\ (r.state = "asked" => wire[1].to = "refresh" /\ r.epoch = epoch
                                                          /\ r.for # "nothing")
      BY <3>1 DEF NoRequest, Ask
    <3>3. request'[wire[1].to] = r /\ \A d \in Callers : d # wire[1].to => request'[d] = request[d]
      BY <2>2, <3>1 DEF Types
    <3> QED BY <1>1, <2>1, <2>2, <2>4, <3>2, <3>3 DEF Fits
  <2> QED BY <2>3, <2>4
<1>2. CASE ~HandleAnswer
  BY <1>2 DEF Arrival, HandleAuthenticated, HandleResubscribe, IgnoreEvent, ApplyEvent, FailEvent,
              ParkEvent, runVars
<1> QED BY <1>1, <1>2

\* Frames arrive on a link with a binding; who fits an answer is signed in.
LEMMA ArrivalBound ==
    ASSUME Types, Links, Arrival
    PROVE  /\ connected /\ channels # NoBinding
           /\ Fits(1) => signedIn /\ OpenRequest(wire[1].to)
                         /\ \A i \in 2..Len(wire) : Fits(i) => wire[i].to # wire[1].to
<1>1. wire # <<>> /\ 1 \in 1..Len(wire) /\ Len(wire) \in Nat
  BY ArrivalTakes
<1>2. connected /\ channels # NoBinding
  BY <1>1 DEF Links, LinkDown, NotBound
<1>3. ASSUME Fits(1) PROVE signedIn /\ OpenRequest(wire[1].to)
  <2>1. wire[1].to \in Callers /\ wire[1].request.state = "answered"
    BY <1>1, <1>3, FrameKinds DEF Links, AnswersFit, IsKind, Fits
  <2> QED BY <1>3, <2>1 DEF Fits, OpenRequest, Links, SignedOut
<1>4. ASSUME Fits(1), NEW i \in 2..Len(wire), Fits(i) PROVE wire[i].to # wire[1].to
  <2>1. i \in 1..Len(wire) /\ i # 1
    BY <1>1
  <2> QED BY <1>1, <1>4, <2>1 DEF Links, FitOnce
<1> QED BY <1>2, <1>3, <1>4

LEMMA ArrivalLinks == ASSUME Types, Links, Arrival PROVE Links'
<1>1. /\ Len(wire') = Len(wire) - 1 /\ Len(wire) \in Nat \ {0}
      /\ \A i \in 1..Len(wire') : i + 1 \in 1..Len(wire) /\ wire'[i] = wire[i + 1]
      /\ UNCHANGED <<channels, connected, signedIn, epoch, step>>
  BY ArrivalTakes
<1>2. connected /\ channels # NoBinding
  BY ArrivalBound
<1>3. authenticated' => authenticated \/ signedIn
  BY DEF Arrival, HandleAuthenticated, HandleResubscribe, HandleAnswer, IgnoreEvent, ApplyEvent,
         FailEvent, ParkEvent, bindingVars
<1>4. CASE request' = request
  <2>1. LinkDown' /\ SignedOut' /\ NotBound' /\ OwnRequests'
    BY <1>1, <1>2, <1>3, <1>4 DEF Links, LinkDown, SignedOut, NotBound, OwnRequests, OpenRequest
  <2>2. AnswersFit'
    BY <1>1, <1>4 DEF Links, AnswersFit, IsKind, Fits
  <2>3. FitOnce'
    <3>1. \A i \in 1..Len(wire') : Fits(i)' => Fits(i + 1) /\ wire'[i].to = wire[i + 1].to
      BY <1>1, <1>4 DEF Fits
    <3>2. \A i, j \in 1..Len(wire') : i + 1 = j + 1 => i = j
      BY <1>1
    <3> QED BY <1>1, <3>1, <3>2 DEF Links, FitOnce
  <2> QED BY <2>1, <2>2, <2>3 DEF Links
<1>5. CASE request' # request
  <2>1. /\ Fits(1) /\ wire[1].to \in Callers
        /\ \A d \in Callers : d # wire[1].to => request'[d] = request[d]
        /\ request'[wire[1].to].state # "answered"
        /\ request'[wire[1].to].state = "asked" =>
              /\ wire[1].to = "refresh" /\ request'[wire[1].to].epoch = epoch
              /\ request'[wire[1].to].for # "nothing"
    BY <1>5, ArrivalRequests
  <2>2. signedIn /\ OpenRequest(wire[1].to)
        /\ \A i \in 2..Len(wire) : Fits(i) => wire[i].to # wire[1].to
    BY <2>1, ArrivalBound
  <2>3. LinkDown' /\ SignedOut' /\ NotBound'
    BY <1>1, <1>2, <2>2 DEF LinkDown, SignedOut, NotBound
  <2>4. OwnRequests'
    <3>1. \A d \in Callers : OpenRequest(d)' =>
             \/ d = wire[1].to /\ d = "refresh" /\ request'[d].epoch = epoch /\ request'[d].for # "nothing"
             \/ OpenRequest(d) /\ request'[d] = request[d]
      BY <2>1 DEF OpenRequest
    <3> QED BY <1>1, <3>1 DEF Links, OwnRequests, Callers
  <2>5. ASSUME NEW i \in 1..Len(wire'), IsKind(i, "answer")'
        PROVE  /\ i + 1 \in 1..Len(wire) /\ wire'[i] = wire[i + 1]
               /\ Fits(i + 1) => Fits(i)'
               /\ Fits(i)' => Fits(i + 1)
               /\ wire'[i].request.state = "answered" /\ wire'[i].request.epoch <= epoch
               /\ wire'[i].request.epoch = epoch => Fits(i)'
    <3>1. i + 1 \in 1..Len(wire) /\ wire'[i] = wire[i + 1] /\ i + 1 \in 2..Len(wire)
      BY <1>1
    <3>2. /\ IsKind(i + 1, "answer") /\ wire[i + 1].to \in Callers
          /\ wire[i + 1].request.state = "answered"
          /\ wire[i + 1].request.epoch <= epoch
          /\ wire[i + 1].request.epoch = epoch => Fits(i + 1)
      BY <2>5, <3>1, FrameKinds DEF Links, AnswersFit, IsKind
    <3>3. Fits(i + 1) => Fits(i)'
      BY <2>1, <2>2, <3>1, <3>2 DEF Fits
    <3>4. Fits(i)' => Fits(i + 1)
      BY <2>1, <3>1, <3>2 DEF Fits
    <3> QED BY <3>1, <3>2, <3>3, <3>4
  <2>6. AnswersFit'
    BY <1>1, <2>5 DEF AnswersFit
  <2>7. FitOnce'
    <3>1. \A i \in 1..Len(wire') : Fits(i)' => /\ Fits(i + 1) /\ wire'[i].to = wire[i + 1].to
                                               /\ i + 1 \in 1..Len(wire)
      BY <2>5 DEF Fits, IsKind
    <3>2. \A i, j \in 1..Len(wire') : i + 1 = j + 1 => i = j
      BY <1>1
    <3> QED BY <3>1, <3>2 DEF Links, FitOnce
  <2> QED BY <2>3, <2>4, <2>6, <2>7 DEF Links
<1> QED BY <1>4, <1>5

LEMMA RestLinks ==
    ASSUME Types, Links, RefreshFails \/ Connect \/ Disconnect \/ SignOut \/ SignIn \/ Waits
                         \/ UNCHANGED vars
    PROVE  Links'
<1>1. CASE RefreshFails
  <2>1. /\ UNCHANGED <<connected, wire, auth, authenticated, channels, signedIn, epoch, step>>
        /\ request'["run"] = request["run"] /\ request'["refresh"] = NoRequest
        /\ ~OpenRequest("refresh")
    BY <1>1
    DEF RefreshFails, Types, Callers, OpenRequest, serverVars, socketVars, bindingVars, actorVars
  <2>2. NoRequest.state \notin {"asked", "answered"}
    BY DEF NoRequest
  <2>3. OpenRequest("run")' => step' = request'["run"].for
    BY <2>1 DEF Links, OwnRequests, OpenRequest
  <2> QED
    BY <2>1, <2>2, <2>3, RequestsReplaced DEF Callers, Links, LinkDown
<1>2. CASE Connect
  <2>1. /\ UNCHANGED <<wire, authenticated, channels, signedIn, epoch, step, request>>
        /\ ~connected /\ connected' = TRUE
    BY <1>2 DEF Connect, serverVars, actorVars, runVars
  <2>2. \A i \in 1..Len(wire) : FALSE
    BY <2>1 DEF Links, LinkDown
  <2> QED
    BY <2>1, <2>2
    DEF Links, LinkDown, SignedOut, NotBound, OwnRequests, AnswersFit, FitOnce, OpenRequest,
        Unanswered
<1>3. CASE Disconnect
  <2>1. /\ wire' = <<>> /\ auth' = 0 /\ authenticated' = FALSE /\ channels' = NoBinding
        /\ request' = [c \in Callers |-> Failed(request[c])]
    BY <1>3 DEF Disconnect
  <2>2. \A c \in Callers : ~OpenRequest(c)' /\ request'[c].state # "answered"
    BY <2>1, FailedTyped DEF OpenRequest, Types
  <2>3. \A i \in 1..Len(wire') : FALSE
    BY <2>1
  <2> QED
    BY <2>1, <2>2, <2>3
    DEF Links, LinkDown, SignedOut, NotBound, OwnRequests, AnswersFit, FitOnce, Unanswered, Callers
<1>4. CASE SignOut \/ SignIn
  <2>1. /\ UNCHANGED <<wire, channels, connected>> /\ epoch' = epoch + 1 /\ epoch \in Nat
        /\ authenticated' => authenticated
        /\ ~connected => auth' = auth
        /\ ~signedIn => \A c \in Callers : ~OpenRequest(c)
    BY <1>4 DEF SignOut, SignIn, TokenChanges, serverVars, Types, Links, SignedOut
  <2>2. \A c \in Callers : request'[c].state # "answered" /\ ~OpenRequest("run")'
    <3>1. CASE SignOut
      BY <3>1, FailedTyped DEF SignOut, OpenRequest, Types, Callers
    <3>2. CASE SignIn
      <4>1. /\ request'["run"] = request["run"]
            /\ request'["refresh"] = Ask("access", connected, epoch + 1, myList)
            /\ ~OpenRequest("run")
        BY <2>1, <3>2 DEF SignIn, Types, Callers
      <4> QED BY <4>1 DEF Callers, OpenRequest, Ask
    <3> QED BY <1>4, <3>1, <3>2
  <2>3. \A c \in Callers : OpenRequest(c)' => connected /\ signedIn' /\ request'[c].epoch = epoch'
                                           /\ request'[c].for # "nothing"
    <3>1. CASE SignOut
      BY <3>1, FailedTyped DEF SignOut, OpenRequest, Types, Callers
    <3>2. CASE SignIn
      <4>1. /\ request'["refresh"] = Ask("access", connected, epoch + 1, myList)
            /\ signedIn' /\ epoch' = epoch + 1
        BY <3>2 DEF SignIn, TokenChanges, Types, Callers
      <4> QED BY <2>2, <4>1 DEF Callers, OpenRequest, Ask
    <3> QED BY <1>4, <3>1, <3>2
  <2>4. ~signedIn' => ~authenticated'
    BY <1>4 DEF SignOut, SignIn
  <2>5. LinkDown' /\ SignedOut' /\ NotBound' /\ OwnRequests'
    BY <2>1, <2>2, <2>3, <2>4 DEF Links, LinkDown, SignedOut, NotBound, OwnRequests, Unanswered, Callers
  <2>6. ASSUME NEW i \in 1..Len(wire), IsKind(i, "answer")
        PROVE  /\ wire[i].request.epoch <= epoch' /\ wire[i].request.epoch # epoch'
               /\ wire[i].request.state = "answered"
               /\ wire[i].to \in Callers /\ request'[wire[i].to] # wire[i].request
    <3>1. /\ wire[i].request.epoch <= epoch /\ wire[i].request.state = "answered"
          /\ wire[i].to \in Callers /\ wire[i].request.epoch \in Nat
      BY <2>6, FrameKinds DEF Links, AnswersFit, IsKind, Requests
    <3> QED BY <2>1, <2>2, <3>1
  <2>7. AnswersFit' /\ FitOnce'
    BY <2>1, <2>6 DEF AnswersFit, FitOnce, IsKind, Fits
  <2> QED BY <2>5, <2>7 DEF Links
<1>5. CASE Waits \/ UNCHANGED vars
  BY <1>5, LinksKept
  DEF Waits, vars, serverVars, socketVars, bindingVars, actorVars, runVars
<1> QED BY <1>1, <1>2, <1>3, <1>4, <1>5

LEMMA LinksNext ==
    ASSUME Admits = {}, Types, Links, Parking, [Next]_vars PROVE Links'
<1>1. CASE Handle
  BY <1>1, ArrivalLinks, RestLinks DEF Handle, Arrival
<1> QED
  BY <1>1, RunLinks, ServeLinks, RestLinks DEF Next

-----------------------------------------------------------------------------
(***************************************************************************)
(* What is parked.                                                         *)
(***************************************************************************)
LEMMA ParkedNext == ASSUME ParkedIsTransient, [Next]_vars PROVE ParkedIsTransient'
  BY RunParks, HandleParks, RestParks DEF Next

\* What keeps the queue and the batch as they are.
LEMMA ParkingKept ==
    ASSUME Parking, UNCHANGED <<queue, batch, epoch>>, signedIn' = signedIn,
           batch # <<>> => step' = step,
           phase' = "idle" => phase = "idle",
           connected' /\ channels' = NoBinding => connected /\ channels = NoBinding
    PROVE  QueueOwn' /\ BatchOwn' /\ NoneParked'
  BY DEF Parking, QueueOwn, BatchOwn, NoneParked, NoListAfter

LEMMA EnterParking ==
    ASSUME Parking, batch = <<>>, NEW next \in Steps \ {"none", "state"}, Enter(next)
    PROVE  QueueOwn' /\ BatchOwn' /\ NoneParked'
<1>1. PhaseOf[next] # "idle"
  BY DEF Steps, PhaseOf
<1> QED
  BY <1>1, ParkingKept
  DEF Enter, serverVars, socketVars, bindingVars, actorVars

LEMMA RunParking ==
    ASSUME Admits = {}, Types, Parking, Run PROVE QueueOwn' /\ BatchOwn' /\ NoneParked'
<1>1. step # "replay" => batch = <<>>
  BY DEF Parking, BatchOwn
<1>2. CASE TimerFires
  <2>1. step = "none" /\ batch = <<>>
    BY <1>1, <1>2 DEF TimerFires
  <2> QED
    BY <1>2, <2>1, ParkingKept DEF TimerFires, serverVars, socketVars, bindingVars, actorVars
<1>3. CASE StateProbed
  <2>1. batch = <<>>
    BY <1>1, <1>3 DEF StateProbed
  <2>2. CASE signedIn
    BY <1>3, <2>1, <2>2, EnterParking DEF StateProbed, Steps
  <2>3. CASE ~signedIn
    <3>1. queue' = <<>> /\ batch' = <<>> /\ signedIn' = signedIn
      BY <1>3, <2>1, <2>3 DEF StateProbed, actorVars
    <3>2. \A i \in 1..Len(queue') : FALSE
      BY <3>1
    <3>3. \A i \in 1..Len(batch') : FALSE
      BY <3>1
    <3> QED BY <3>1, <3>2, <3>3 DEF QueueOwn, BatchOwn, NoneParked, NoListAfter
  <2> QED BY <2>2, <2>3
<1>4. CASE AccessRefreshed
  BY <1>1, <1>4, EnterParking DEF AccessRefreshed, Steps
<1>5. CASE ProposalsFlushed
  BY <1>1, <1>5, EnterParking DEF ProposalsFlushed, Steps
<1>6. CASE RevisionsRecovered
  BY <1>1, <1>6, EnterParking DEF RevisionsRecovered, Steps
<1>7. CASE SnapshotsRefreshed
  BY <1>1, <1>7, EnterParking DEF SnapshotsRefreshed, Steps
<1>8. CASE TakeBatch
  <2>1. /\ batch' = queue /\ queue' = <<>> /\ step' = "replay" /\ queue # <<>>
        /\ UNCHANGED <<epoch, signedIn, phase, connected, channels>>
    BY <1>8 DEF TakeBatch, serverVars, socketVars, actorVars
  <2>2. \A i \in 1..Len(queue') : FALSE
    BY <2>1
  <2>3. phase # "idle" /\ signedIn /\ epoch <= epoch
    BY <2>1 DEF Parking, ParkedIsTransient, QueueOwn, Types
  <2>4. QueueOwn' /\ BatchOwn'
    BY <2>1, <2>2, <2>3 DEF Parking, QueueOwn, BatchOwn
  <2>5. NoneParked'
    BY <2>1, <2>2 DEF Parking, NoneParked, NoListAfter
  <2> QED BY <2>4, <2>5
<1>9. CASE ReplayEvent
  <2>1. /\ step = "replay" /\ batch # <<>> /\ batch' = Tail(batch)
        /\ UNCHANGED <<queue, epoch, signedIn, phase, connected, channels, step>>
    BY <1>9 DEF ReplayEvent, serverVars, socketVars, actorVars, coordVars
  <2>2. /\ Len(batch) \in Nat \ {0} /\ Len(batch') = Len(batch) - 1
        /\ \A i \in 1..(Len(batch) - 1) : batch'[i] = batch[i + 1]
    BY <2>1, Taken DEF Types
  <2>3. \A i \in 1..Len(batch') : i + 1 \in 1..Len(batch) /\ batch'[i] = batch[i + 1]
    BY <2>2
  <2>4. QueueOwn' /\ BatchOwn'
    BY <2>1, <2>3 DEF Parking, QueueOwn, BatchOwn
  <2>5. NoListAfter(batch, 0) => NoListAfter(batch, 0)'
    <3>1. \A i \in 1..Len(batch) : 0 < i
      BY <2>2
    <3> QED BY <2>1, <2>3, <3>1 DEF NoListAfter
  <2>6. NoneParked'
    BY <2>1, <2>5 DEF Parking, NoneParked, NoListAfter
  <2> QED BY <2>4, <2>6
<1>10. CASE ReplayEnds
  <2>1. /\ queue' = <<>> /\ batch' = <<>>
    BY <1>10 DEF ReplayEnds
  <2>2. \A i \in 1..Len(queue') : FALSE
    BY <2>1
  <2>3. \A i \in 1..Len(batch') : FALSE
    BY <2>1
  <2> QED BY <2>1, <2>2, <2>3 DEF QueueOwn, BatchOwn, NoneParked, NoListAfter
<1> QED
  BY <1>2, <1>3, <1>4, <1>5, <1>6, <1>7, <1>8, <1>9, <1>10 DEF Run

LEMMA HandleParking ==
    ASSUME Types, Links, Parking, Handle PROVE QueueOwn' /\ BatchOwn' /\ NoneParked'
<1>1. CASE ParkEvent
  <2>1. /\ signedIn /\ phase # "idle"
        /\ queue' = Append(queue, [kind |-> Head(wire).kind, n |-> Head(wire).n, epoch |-> epoch])
        /\ UNCHANGED <<batch, epoch, signedIn, phase, connected, channels, step>>
    BY <1>1 DEF ParkEvent, serverVars, actorVars, runVars
  <2>2. channels # NoBinding
    BY <1>1, ArrivalBound DEF Arrival
  <2>3. wire # <<>> /\ Head(wire) \in Frames
    BY <1>1, Taken DEF ParkEvent, IsEvent, Types
  <2>4. [kind |-> Head(wire).kind, n |-> Head(wire).n, epoch |-> epoch] \in Events
    BY <1>1, <2>3 DEF ParkEvent, IsEvent, Events, Frames, Types
  <2>5. /\ Len(queue) \in Nat /\ Len(queue') = Len(queue) + 1
        /\ \A i \in 1..Len(queue) : queue'[i] = queue[i]
        /\ queue'[Len(queue) + 1].epoch = epoch
    BY <2>1, <2>4, Appended DEF Types
  <2>6. \A i \in 1..Len(queue') : i = Len(queue) + 1 \/ (i \in 1..Len(queue) /\ queue'[i] = queue[i])
    BY <2>5
  <2>7. QueueOwn' /\ BatchOwn'
    BY <2>1, <2>5, <2>6 DEF Parking, QueueOwn, BatchOwn
  <2> QED BY <2>1, <2>2, <2>7 DEF NoneParked
<1>2. CASE Arrival /\ ~ParkEvent
  <2>1. UNCHANGED <<queue, batch, epoch, signedIn, connected, channels, step>>
    BY <1>2
    DEF Arrival, HandleAuthenticated, HandleResubscribe, HandleAnswer, IgnoreEvent, ApplyEvent,
        FailEvent, serverVars, actorVars, coordVars, runVars
  <2>2. phase' = "idle" => phase = "idle"
    BY <1>2
    DEF Arrival, HandleAuthenticated, HandleResubscribe, HandleAnswer, IgnoreEvent, ApplyEvent,
        FailEvent, Schedule, coordVars
  <2> QED BY <2>1, <2>2, ParkingKept
<1>3. CASE RefreshFails
  BY <1>3, ParkingKept
  DEF RefreshFails, serverVars, socketVars, actorVars, coordVars
<1> QED BY <1>1, <1>2, <1>3 DEF Handle, Arrival

LEMMA RestParking ==
    ASSUME Admits = {}, Types, Links, Parking,
           ChangeList \/ ChangePost \/ Serve \/ Connect \/ Disconnect \/ SignOut \/ SignIn
             \/ Waits \/ UNCHANGED vars
    PROVE  QueueOwn' /\ BatchOwn' /\ NoneParked'
<1>1. CASE ChangeList
  BY <1>1, ParkingKept DEF ChangeList, actorVars, coordVars, runVars
<1>2. CASE ChangePost
  BY <1>2, ParkingKept DEF ChangePost, actorVars, coordVars, runVars
<1>3. CASE Authenticate
  <2>1. channels' # NoBinding
    BY <1>3 DEF Authenticate, Types, NoBinding
  <2> QED
    BY <1>3, <2>1, ParkingKept DEF Authenticate, actorVars, coordVars, runVars
<1>4. ASSUME NEW c \in Callers, Answer(c) PROVE QueueOwn' /\ BatchOwn' /\ NoneParked'
  BY <1>4, ParkingKept DEF Answer, serverVars, actorVars, coordVars
<1>5. CASE Connect
  <2>1. /\ ~timer /\ step = "none" /\ UNCHANGED <<queue, batch, epoch, signedIn, step>>
        /\ phase' # "idle"
    BY <1>5 DEF Connect, Schedule, actorVars, runVars
  <2>2. batch = <<>> /\ queue = <<>>
    BY <2>1 DEF Parking, BatchOwn, ParkedIsTransient
  <2>3. \A i \in 1..Len(queue') : FALSE
    BY <2>1, <2>2
  <2>4. \A i \in 1..Len(batch') : FALSE
    BY <2>1, <2>2
  <2> QED BY <2>1, <2>2, <2>3, <2>4 DEF QueueOwn, BatchOwn, NoneParked, NoListAfter
<1>6. CASE Disconnect
  BY <1>6, ParkingKept DEF Disconnect, actorVars, coordVars
<1>7. CASE SignOut \/ SignIn
  <2>1. /\ queue' = <<>> /\ batch' = batch /\ epoch' = epoch + 1 /\ step' = step
    BY <1>7 DEF SignOut, SignIn, TokenChanges
  <2>2. \A i \in 1..Len(queue') : FALSE
    BY <2>1
  <2>3. \A i \in 1..Len(batch) : batch[i].epoch <= epoch /\ batch[i].epoch \in Nat
    <3>1. \A i \in 1..Len(batch) : batch[i] \in Events
      BY DEF Types
    <3> QED BY <3>1 DEF Parking, BatchOwn, Events
  <2>4. \A i \in 1..Len(batch') : batch'[i].epoch <= epoch' /\ batch'[i].epoch # epoch'
    BY <2>1, <2>3 DEF Types
  <2> QED
    BY <2>1, <2>2, <2>4 DEF Parking, QueueOwn, BatchOwn, NoneParked, NoListAfter
<1>8. CASE Waits \/ UNCHANGED vars
  BY <1>8, ParkingKept
  DEF Waits, vars, serverVars, socketVars, actorVars, coordVars, runVars
<1> QED BY <1>1, <1>2, <1>3, <1>4, <1>5, <1>6, <1>7, <1>8 DEF Serve

LEMMA ParkingNext ==
    ASSUME Admits = {}, Types, Links, Parking, [Next]_vars PROVE Parking'
<1>1. ParkedIsTransient'
  BY ParkedNext DEF Parking
<1> QED
  BY <1>1, RunParking, HandleParking, RestParking DEF Next, Parking

-----------------------------------------------------------------------------
(***************************************************************************)
(* What is stored, and who has been told to join.                          *)
(***************************************************************************)
\* What the numberings say of the frame that is handled next.
LEMMA FirstFrame ==
    ASSUME Types, NEW h, NEW p, Numbered(h, p), 1 \in 1..Len(wire)
    PROVE  /\ h[0] \in 0..list /\ h[1] \in 0..list /\ p[0] \in 0..posts /\ p[1] \in 0..posts
           /\ IsKind(1, "list") => wire[1].n = h[1] /\ h[1] = h[0] + 1
           /\ ~IsKind(1, "list") => h[1] = h[0]
           /\ IsKind(1, "post") => wire[1].n = p[1] /\ p[1] = p[0] + 1
           /\ ~IsKind(1, "post") => p[1] = p[0]
           /\ IsAnswer(1, "access") => wire[1].n = h[1]
           /\ IsAnswer(1, "revisions") => wire[1].n <= p[1]
<1>1. Len(wire) \in Nat /\ Len(wire) >= 1 /\ list \in Nat /\ posts \in Nat
  BY DEF Types
<1>2. h[0] \in 0..list /\ h[1] \in 0..list /\ p[0] \in 0..posts /\ p[1] \in 0..posts
  BY <1>1 DEF Numbered
<1>3. 1 - 1 = 0
  OBVIOUS
<1>4. /\ h[1] = h[0] + (IF IsKind(1, "list") THEN 1 ELSE 0)
      /\ p[1] = p[0] + (IF IsKind(1, "post") THEN 1 ELSE 0)
      /\ IsKind(1, "list") \/ IsAnswer(1, "access") => wire[1].n = h[1]
      /\ IsKind(1, "post") => wire[1].n = p[1]
      /\ IsAnswer(1, "revisions") => wire[1].n <= p[1]
  BY <1>3 DEF Numbered
<1> QED BY <1>2, <1>4

\* The list and the revisions only grow.
LEMMA Grows ==
    ASSUME Types, [Next]_vars
    PROVE  list' \in Nat /\ posts' \in Nat /\ list <= list' /\ posts <= posts'
<1>1. CASE ChangeList
  BY <1>1 DEF ChangeList, Types
<1>2. CASE ChangePost
  BY <1>2 DEF ChangePost, Types
<1>3. CASE ~ChangeList /\ ~ChangePost
  <2>1. list' = list /\ posts' = posts
    <3>1. CASE Serve
      BY <3>1 DEF Serve, Authenticate, Answer, serverVars
    <3>2. CASE Run
      BY <3>2
      DEF Run, TimerFires, StateProbed, Enter, AccessRefreshed, ProposalsFlushed,
          RevisionsRecovered, SnapshotsRefreshed, TakeBatch, ReplayEvent, ReplayEnds, serverVars
    <3>3. CASE Handle
      BY <3>3
      DEF Handle, HandleAuthenticated, HandleResubscribe, HandleAnswer, IgnoreEvent, ApplyEvent,
          FailEvent, ParkEvent, RefreshFails, serverVars
    <3>4. CASE Connect \/ Disconnect \/ SignOut \/ SignIn \/ Waits \/ UNCHANGED vars
      BY <3>4 DEF Connect, Disconnect, SignOut, SignIn, Waits, vars, serverVars
    <3> QED BY <1>3, <3>1, <3>2, <3>3, <3>4 DEF Next
  <2> QED BY <2>1 DEF Types
<1> QED BY <1>1, <1>2, <1>3

LEMMA BoundedKept ==
    ASSUME Types, Types', Bounded, list <= list', posts <= posts', list' = 0 => posts' = 0,
           queue' \in {queue, <<>>}, batch' = batch, UNCHANGED <<myList, myPosts>>
    PROVE  Bounded'
<1>1. list \in Nat /\ posts \in Nat /\ list' \in Nat /\ posts' \in Nat /\ myList \in Nat
  BY DEF Types
<1>2. ASSUME NEW n PROVE (n \in 1..list => n \in 1..list') /\ (n \in 1..posts => n \in 1..posts')
  BY <1>1
<1>3. \A i \in 1..Len(queue') : EventBounded(queue[i])'
  <2>1. CASE queue' = <<>>
    BY <2>1
  <2>2. CASE queue' = queue
    BY <1>2, <2>2 DEF Bounded, EventBounded
  <2> QED BY <2>1, <2>2
<1>4. \A i \in 1..Len(batch') : EventBounded(batch[i])'
  BY <1>2 DEF Bounded, EventBounded
<1>5. myList' <= list' /\ myPosts' \subseteq 1..posts'
  <2>1. myList <= list /\ myPosts \subseteq 1..posts
    BY DEF Bounded
  <2>2. 1..posts \subseteq 1..posts'
    BY <1>1
  <2> QED BY <1>1, <2>1, <2>2
<1> QED BY <1>3, <1>4, <1>5 DEF Bounded

LEMMA BoundedNext ==
    ASSUME Types, Types', Links, Bounded, NEW h, NEW p, Numbered(h, p), [Next]_vars
    PROVE  Bounded'
<1>1. /\ list \in Nat /\ posts \in Nat /\ list' \in Nat /\ posts' \in Nat /\ myList \in Nat
      /\ list <= list' /\ posts <= posts'
  BY Grows DEF Types
<1>2. list' = 0 => posts' = 0
  <2>1. CASE ChangePost
    BY <1>1, <2>1 DEF ChangePost
  <2>2. CASE ~ChangePost
    <3>1. list' = 0 => list = 0
      BY <1>1
    <3>2. posts' = posts
      <4>1. CASE ChangeList \/ Serve
        BY <4>1 DEF ChangeList, Serve, Authenticate, Answer, serverVars
      <4>2. CASE Run
        BY <4>2
        DEF Run, TimerFires, StateProbed, Enter, AccessRefreshed, ProposalsFlushed,
            RevisionsRecovered, SnapshotsRefreshed, TakeBatch, ReplayEvent, ReplayEnds, serverVars
      <4>3. CASE Handle
        BY <4>3
        DEF Handle, HandleAuthenticated, HandleResubscribe, HandleAnswer, IgnoreEvent, ApplyEvent,
            FailEvent, ParkEvent, RefreshFails, serverVars
      <4>4. CASE Connect \/ Disconnect \/ SignOut \/ SignIn \/ Waits \/ UNCHANGED vars
        BY <4>4 DEF Connect, Disconnect, SignOut, SignIn, Waits, vars, serverVars
      <4> QED BY <2>2, <4>1, <4>2, <4>3, <4>4 DEF Next
    <3> QED BY <3>1, <3>2 DEF Bounded
  <2> QED BY <2>1, <2>2
<1>3. CASE Run
  <2>1. CASE TakeBatch
    <3>1. batch' = queue /\ queue' = <<>>
          /\ UNCHANGED <<list, posts, myList, myPosts>>
      BY <2>1 DEF TakeBatch, serverVars, diskVars
    <3>2. \A i \in 1..Len(queue') : FALSE
      BY <3>1
    <3> QED BY <3>1, <3>2 DEF Bounded, EventBounded
  <2>2. CASE ReplayEvent
    <3>1. batch # <<>> /\ batch' = Tail(batch) /\ UNCHANGED <<list, posts, queue>>
      BY <2>2 DEF ReplayEvent, serverVars, coordVars
    <3>2. /\ \A i \in 1..Len(batch') : i + 1 \in 1..Len(batch) /\ batch'[i] = batch[i + 1]
          /\ Head(batch) = batch[1] /\ 1 \in 1..Len(batch)
      BY <3>1, Taken DEF Types
    <3>3. EventBounded(Head(batch))
      BY <3>2 DEF Bounded
    <3>4. myList' <= list /\ myPosts' \subseteq 1..posts
      <4>1. \/ myList' = myList /\ myPosts' = myPosts
            \/ /\ myList' = IF Head(batch).kind = "list" THEN Head(batch).n ELSE myList
               /\ myPosts' = IF Head(batch).kind = "post" THEN myPosts \cup {Head(batch).n} ELSE myPosts
        BY <2>2 DEF ReplayEvent, Writes, diskVars
      <4>2. myList <= list /\ myPosts \subseteq 1..posts
        BY DEF Bounded
      <4>3. /\ Head(batch).kind = "list" => Head(batch).n <= list
            /\ Head(batch).kind = "post" => Head(batch).n \in 1..posts
        BY <1>1, <3>3 DEF EventBounded
      <4>4. CASE myList' = myList /\ myPosts' = myPosts
        BY <4>2, <4>4
      <4>5. CASE /\ myList' = IF Head(batch).kind = "list" THEN Head(batch).n ELSE myList
                 /\ myPosts' = IF Head(batch).kind = "post" THEN myPosts \cup {Head(batch).n} ELSE myPosts
        <5>1. myList' <= list
          BY <4>2, <4>3, <4>5
        <5>2. myPosts' \subseteq 1..posts
          BY <4>2, <4>3, <4>5
        <5> QED BY <5>1, <5>2
      <4> QED BY <4>1, <4>4, <4>5
    <3>5. \A i \in 1..Len(batch') : EventBounded(batch'[i])
      BY <3>2 DEF Bounded
    <3> QED BY <1>2, <3>1, <3>4, <3>5 DEF Bounded, EventBounded
  <2>3. CASE ~TakeBatch /\ ~ReplayEvent
    <3>1. queue' \in {queue, <<>>} /\ batch' = batch /\ UNCHANGED <<myList, myPosts>>
      BY <1>3, <2>3
      DEF Run, TimerFires, StateProbed, Enter, AccessRefreshed, ProposalsFlushed,
          RevisionsRecovered, SnapshotsRefreshed, ReplayEnds, diskVars
    <3> QED BY <1>1, <1>2, <3>1, BoundedKept
  <2> QED BY <2>1, <2>2, <2>3
<1>4. CASE Arrival
  <2>1. /\ Head(wire) = wire[1] /\ 1 \in 1..Len(wire)
        /\ UNCHANGED <<list, posts, batch>>
    BY <1>4, ArrivalTakes
  <2>2. /\ IsKind(1, "list") => wire[1].n \in 1..list
        /\ IsKind(1, "post") => wire[1].n \in 1..posts
        /\ IsAnswer(1, "access") => wire[1].n \in 0..list
        /\ IsAnswer(1, "revisions") => wire[1].n <= posts
    BY <1>1, <2>1, FirstFrame, FrameKinds
  <2>3. CASE HandleAnswer
    <3>1. queue' = queue
      BY <2>3 DEF HandleAnswer, coordVars
    <3>2. wire[1].kind = "answer" /\ wire[1].n \in Nat
      BY <2>1, <2>3, FrameKinds DEF HandleAnswer, Arrives
    <3>3. myList' <= list /\ myPosts' \subseteq 1..posts
      <4>1. \/ myList' = myList /\ myPosts' = myPosts
            \/ IsAnswer(1, "access") /\ myList' = wire[1].n /\ myPosts' = myPosts
            \/ ~IsAnswer(1, "access") /\ Fits(1)
               /\ myList' = myList /\ myPosts' = myPosts \cup 1..wire[1].n
        BY <2>1, <2>3, <3>2 DEF HandleAnswer, IsAnswer, Fits, diskVars
      <4>2. Fits(1) => IsAnswer(1, "access") \/ IsAnswer(1, "revisions")
        <5>1. Fits(1) => OpenRequest(wire[1].to) /\ wire[1].request \in Requests /\ wire[1].to \in Callers
          BY <1>4, <2>1, <3>2, ArrivalBound, FrameKinds
        <5> QED BY <3>2, <5>1 DEF Fits, IsAnswer, Requests, Links, OwnRequests
      <4>3. myList <= list /\ myPosts \subseteq 1..posts
        BY DEF Bounded
      <4>4. wire[1].n <= posts => 1..wire[1].n \subseteq 1..posts
        BY <1>1, <3>2
      <4>5. CASE myList' = myList /\ myPosts' = myPosts
        BY <4>3, <4>5
      <4>6. CASE IsAnswer(1, "access") /\ myList' = wire[1].n /\ myPosts' = myPosts
        BY <1>1, <2>2, <4>3, <4>6
      <4>7. CASE ~IsAnswer(1, "access") /\ Fits(1)
                 /\ myList' = myList /\ myPosts' = myPosts \cup 1..wire[1].n
        <5>1. 1..wire[1].n \subseteq 1..posts
          BY <2>2, <4>2, <4>4, <4>7
        <5> QED BY <4>3, <4>7, <5>1
      <4> QED BY <4>1, <4>5, <4>6, <4>7
    <3> QED BY <1>2, <2>1, <3>1, <3>3 DEF Bounded, EventBounded
  <2>4. CASE ApplyEvent
    <3>1. queue' = queue /\ (IsKind(1, "list") \/ IsKind(1, "post"))
          /\ myList' = (IF wire[1].kind = "list" THEN wire[1].n ELSE myList)
          /\ myPosts' = (IF wire[1].kind = "post" THEN myPosts \cup {wire[1].n} ELSE myPosts)
      BY <2>1, <2>4 DEF ApplyEvent, IsEvent, Writes, IsKind, coordVars
    <3>2. myList' <= list /\ myPosts' \subseteq 1..posts
      BY <1>1, <2>2, <3>1 DEF Bounded, IsKind
    <3> QED BY <1>2, <2>1, <3>1, <3>2 DEF Bounded, EventBounded
  <2>5. CASE ParkEvent
    <3>1. queue' = Append(queue, [kind |-> wire[1].kind, n |-> wire[1].n, epoch |-> epoch])
          /\ (IsKind(1, "list") \/ IsKind(1, "post")) /\ UNCHANGED <<myList, myPosts>>
      BY <2>1, <2>5 DEF ParkEvent, IsEvent, IsKind, diskVars
    <3>2. [kind |-> wire[1].kind, n |-> wire[1].n, epoch |-> epoch] \in Events
      BY <2>1, <3>1, FrameKinds DEF Events, IsKind, Types
    <3>3. /\ Len(queue) \in Nat /\ Len(queue') = Len(queue) + 1
          /\ \A i \in 1..Len(queue) : queue'[i] = queue[i]
          /\ queue'[Len(queue) + 1] = [kind |-> wire[1].kind, n |-> wire[1].n, epoch |-> epoch]
      BY <3>1, <3>2, Appended DEF Types
    <3>4. EventBounded(queue'[Len(queue) + 1])
      BY <2>2, <3>3 DEF EventBounded, IsKind
    <3>5. \A i \in 1..Len(queue') : i = Len(queue) + 1 \/ (i \in 1..Len(queue) /\ queue'[i] = queue[i])
      BY <3>3
    <3> QED BY <1>2, <2>1, <3>1, <3>4, <3>5 DEF Bounded, EventBounded
  <2>6. CASE ~HandleAnswer /\ ~ApplyEvent /\ ~ParkEvent
    <3>1. queue' = queue /\ batch' = batch /\ UNCHANGED <<myList, myPosts>>
      BY <1>4, <2>1, <2>6
      DEF Arrival, HandleAuthenticated, HandleResubscribe, IgnoreEvent, FailEvent, diskVars,
          coordVars
    <3> QED BY <1>1, <1>2, <3>1, BoundedKept
  <2> QED BY <2>3, <2>4, <2>5, <2>6
<1>5. CASE ChangeList \/ ChangePost \/ Serve \/ RefreshFails
  <2>1. queue' = queue /\ batch' = batch /\ UNCHANGED <<myList, myPosts>>
    BY <1>5
    DEF ChangeList, ChangePost, Serve, Authenticate, Answer, RefreshFails, diskVars, coordVars,
        runVars
  <2> QED BY <1>1, <1>2, <2>1, BoundedKept
<1>6. CASE Connect \/ Disconnect \/ SignOut \/ SignIn \/ Waits \/ UNCHANGED vars
  <2>1. queue' \in {queue, <<>>} /\ batch' = batch /\ UNCHANGED <<myList, myPosts>>
    BY <1>6
    DEF Connect, Disconnect, SignOut, SignIn, TokenChanges, Waits, vars, diskVars, coordVars,
        runVars
  <2> QED BY <1>1, <1>2, <2>1, BoundedKept
<1> QED BY <1>3, <1>4, <1>5, <1>6 DEF Next, Handle, Arrival

\* Nothing is asked about the posts of a list that is empty.
LEMMA NoRevisionsAsked ==
    ASSUME Types, Types', Bounded, Bounded', [Next]_vars, list' = 0, NEW c \in Callers,
           UnderWay(c, "revisions")'
    PROVE  UnderWay(c, "revisions")
<1>1. list = 0
  BY Grows DEF Types
<1>2. myList = 0 /\ myList' = 0
  BY <1>1 DEF Bounded, Types
<1>3. CASE \E next \in Steps \ {"none", "state"} : Enter(next)
  <2>1. PICK next \in Steps \ {"none", "state"} : Enter(next)
    BY <1>3
  <2>2. c = "run" => request'[c] \in {NoRequest, Ask(next, connected /\ signedIn, epoch, myList)}
    BY <2>1 DEF Enter, Types, Callers
  <2>3. c = "run" => request'[c] = NoRequest \/ (next # "revisions" /\ request'[c].for = next)
    BY <1>2, <2>2 DEF Ask
  <2>4. c # "run" => request'[c] = request[c]
    BY <2>1 DEF Enter, Types, Callers
  <2> QED BY <2>3, <2>4 DEF UnderWay, OpenRequest, NoRequest
<1>4. CASE Arrival
  <2>1. CASE HandleAnswer
    <3>1. /\ Head(wire) = wire[1] /\ 1 \in 1..Len(wire) /\ wire[1].kind = "answer"
      BY <1>4, <2>1, ArrivalTakes DEF HandleAnswer, Arrives
    <3>2. wire[1].to \in Callers
      BY <3>1, FrameKinds
    <3>3. CASE c = wire[1].to /\ request' # request
      <4>1. request'[c] = NoRequest \/ (myList' = wire[1].n /\ request'[c] = Ask("revisions", TRUE, epoch, wire[1].n))
        BY <2>1, <3>1, <3>2, <3>3 DEF HandleAnswer, Types
      <4>2. request'[c] = NoRequest
        BY <1>2, <4>1 DEF Ask
      <4> QED BY <4>2 DEF UnderWay, OpenRequest, NoRequest
    <3>4. CASE c # wire[1].to \/ request' = request
      <4>1. request'[c] = request[c]
        BY <1>4, <3>4, ArrivalRequests
      <4> QED BY <4>1 DEF UnderWay, OpenRequest
    <3> QED BY <3>3, <3>4
  <2>2. CASE ~HandleAnswer
    <3>1. request' = request
      BY <1>4, <2>2, ArrivalRequests
    <3> QED BY <3>1 DEF UnderWay, OpenRequest
  <2> QED BY <2>1, <2>2
<1>5. CASE SignIn \/ RefreshFails
  <2>1. c = "refresh" => request'[c] \in {NoRequest, Ask("access", connected, epoch + 1, myList)}
    BY <1>5 DEF SignIn, RefreshFails, Types, Callers
  <2>2. c # "refresh" => request'[c] = request[c]
    BY <1>5 DEF SignIn, RefreshFails, Types, Callers
  <2> QED BY <2>1, <2>2 DEF UnderWay, OpenRequest, NoRequest, Ask
<1>6. CASE Disconnect \/ SignOut
  <2>1. request'[c] = Failed(request[c]) /\ request[c] \in Requests
    BY <1>6 DEF Disconnect, SignOut, Types
  <2> QED BY <2>1, FailedTyped DEF UnderWay, OpenRequest
<1>7. ASSUME NEW d \in Callers, Answer(d) PROVE UnderWay(c, "revisions")
  <2>1. /\ request[d].state = "asked" /\ request'[d].for = request[d].for
        /\ \A e \in Callers : e # d => request'[e] = request[e]
    BY <1>7, AnswerSends DEF Answer
  <2> QED BY <2>1 DEF UnderWay, OpenRequest
<1>8. CASE \/ ChangeList \/ ChangePost \/ Authenticate \/ TimerFires \/ TakeBatch \/ ReplayEvent
           \/ ReplayEnds \/ Connect \/ Waits \/ UNCHANGED vars \/ (StateProbed /\ ~signedIn)
  <2>1. request' = request
    BY <1>8
    DEF ChangeList, ChangePost, Authenticate, TimerFires, TakeBatch, ReplayEvent, ReplayEnds,
        Connect, Waits, vars, StateProbed, runVars
  <2> QED BY <2>1 DEF UnderWay, OpenRequest
<1>9. \/ \E next \in Steps \ {"none", "state"} : Enter(next)
      \/ TimerFires \/ TakeBatch \/ ReplayEvent \/ ReplayEnds \/ (StateProbed /\ ~signedIn) \/ ~Run
  BY DEF Run, StateProbed, AccessRefreshed, ProposalsFlushed, RevisionsRecovered,
         SnapshotsRefreshed, Steps
<1> QED
  BY <1>3, <1>4, <1>5, <1>6, <1>7, <1>8, <1>9 DEF Next, Handle, Arrival, Serve

\* What does not touch the wire, nor the server.
Quiet == Run \/ RefreshFails \/ Connect \/ SignOut \/ SignIn \/ Waits \/ UNCHANGED vars

LEMMA QuietKeeps ==
    ASSUME Quiet PROVE UNCHANGED <<list, posts, channels, wire>>
<1>1. CASE Run
  BY <1>1
  DEF Run, TimerFires, StateProbed, Enter, AccessRefreshed, ProposalsFlushed, RevisionsRecovered,
      SnapshotsRefreshed, TakeBatch, ReplayEvent, ReplayEnds, serverVars, socketVars
<1>2. CASE RefreshFails \/ Connect \/ SignOut \/ SignIn \/ Waits \/ UNCHANGED vars
  BY <1>2 DEF RefreshFails, Connect, SignOut, SignIn, Waits, vars, serverVars, socketVars
<1> QED BY <1>1, <1>2 DEF Quiet

LEMMA RejoinsNext ==
    ASSUME Admits = {}, Types, Types', Links, Bounded, Bounded', Rejoins, [Next]_vars
    PROVE  Rejoins'
<1> DEFINE None == \A i \in 1..Len(wire) : ~IsAnswer(i, "revisions") /\ ~IsKind(i, "resubscribe")
           After == \A i, j \in 1..Len(wire) :
                       IsAnswer(i, "revisions") /\ IsKind(j, "resubscribe") => j < i
<1>1. list' = 0 => list = 0
  BY Grows DEF Types
<1>2. list' = 0 => \A c \in Callers : ~UnderWay(c, "revisions")'
  BY <1>1, NoRevisionsAsked DEF Rejoins
<1>3. SUFFICES (list' = 0 => None') /\ After'
  BY <1>2 DEF Rejoins
<1>4. CASE Quiet
  <2>1. wire' = wire
    BY <1>4, QuietKeeps
  <2> QED BY <1>1, <2>1 DEF Rejoins, IsAnswer, IsKind
<1>5. CASE Arrival
  <2>1. \A i \in 1..Len(wire') : /\ i + 1 \in 1..Len(wire)
                                 /\ IsAnswer(i, "revisions")' => IsAnswer(i + 1, "revisions")
                                 /\ IsKind(i, "resubscribe")' => IsKind(i + 1, "resubscribe")
    BY <1>5, ArrivalTakes DEF IsAnswer, IsKind
  <2>2. \A i, j \in 1..Len(wire') : i + 1 < j + 1 => i < j
    BY <1>5, ArrivalTakes
  <2> QED BY <1>1, <2>1, <2>2 DEF Rejoins
<1>6. CASE Disconnect
  <2>1. \A i \in 1..Len(wire') : FALSE
    BY <1>6 DEF Disconnect
  <2> QED BY <2>1
<1>7. ASSUME Sends(1), wire'[Len(wire) + 1].kind # "resubscribe",
             list' = 0 => ~(wire'[Len(wire) + 1].kind = "answer"
                            /\ wire'[Len(wire) + 1].request.for = "revisions")
      PROVE  (list' = 0 => None') /\ After'
  <2>1. /\ Len(wire) \in Nat
        /\ \A i \in 1..Len(wire') : i = Len(wire) + 1 \/ (i \in 1..Len(wire) /\ wire'[i] = wire[i])
    BY <1>7 DEF Sends
  <2>2. \A i \in 1..Len(wire') : IsKind(i, "resubscribe")' => i \in 1..Len(wire) /\ IsKind(i, "resubscribe")
    BY <1>7, <2>1 DEF IsKind
  <2>3. \A i \in 1..Len(wire') : IsAnswer(i, "revisions")' =>
           \/ i = Len(wire) + 1 /\ list' # 0
           \/ i \in 1..Len(wire) /\ IsAnswer(i, "revisions")
    BY <1>7, <2>1 DEF IsAnswer
  <2>4. \A j \in 1..Len(wire) : j < Len(wire) + 1
    BY <2>1
  <2> QED BY <1>1, <1>7, <2>2, <2>3, <2>4 DEF Rejoins
<1>8. CASE ChangeList
  <2>1. list' # 0 /\ (list > 0 \/ list = 0)
    <3>1. list' = list + 1 /\ list \in Nat
      BY <1>8 DEF ChangeList, Types
    <3> QED BY <3>1
  <2>2. CASE channels = NoBinding
    <3>1. wire' = wire
      BY <1>8, <2>2, ListSends
    <3> QED BY <2>1, <3>1 DEF Rejoins, IsAnswer, IsKind
  <2>3. CASE channels # NoBinding /\ list > 0
    <3>1. Sends(1) /\ wire'[Len(wire) + 1].kind = "list"
      BY <1>8, <2>3, ListSends
    <3> QED BY <1>7, <2>1, <3>1
  <2>4. CASE channels # NoBinding /\ list = 0
    <3>1. /\ Sends(2) /\ wire'[Len(wire) + 1].kind = "list"
          /\ wire'[Len(wire) + 2].kind = "resubscribe"
      BY <1>8, <2>4, ListSends
    <3>2. \A i \in 1..Len(wire') : \/ i = Len(wire) + 1 \/ i = Len(wire) + 2
                                   \/ (i \in 1..Len(wire) /\ wire'[i] = wire[i])
      BY <3>1 DEF Sends
    <3>3. \A i \in 1..Len(wire') : ~IsAnswer(i, "revisions")'
      BY <2>4, <3>1, <3>2 DEF Rejoins, IsAnswer
    <3> QED BY <2>1, <3>3
  <2> QED BY <2>1, <2>2, <2>3, <2>4
<1>9. CASE ChangePost
  <2>1. channels \in {NoBinding, 0} \/ channels > 0
    BY DEF Types
  <2>2. CASE channels \in {NoBinding, 0}
    <3>1. wire' = wire
      BY <1>9, <2>2, PostSends
    <3> QED BY <1>1, <3>1 DEF Rejoins, IsAnswer, IsKind
  <2>3. CASE channels > 0
    <3>1. Sends(1) /\ wire'[Len(wire) + 1].kind = "post"
      BY <1>9, <2>3, PostSends
    <3> QED BY <1>7, <3>1
  <2> QED BY <2>1, <2>2, <2>3
<1>10. CASE Authenticate
  <2>1. Sends(1) /\ wire'[Len(wire) + 1].kind = "authenticated"
    BY <1>10, AuthenticateSends
  <2> QED BY <1>7, <2>1
<1>11. ASSUME NEW c \in Callers, Answer(c) PROVE (list' = 0 => None') /\ After'
  <2>1. /\ Sends(1) /\ wire'[Len(wire) + 1].kind = "answer"
        /\ wire'[Len(wire) + 1].request.for = request[c].for
    <3>1. /\ Sends(1)
          /\ wire'[Len(wire) + 1] =
               [kind |-> "answer", to |-> c, request |-> request'[c],
                n |-> IF request[c].for = "access" THEN list ELSE posts]
          /\ request'[c].for = request[c].for
      BY <1>11, AnswerSends
    <3> QED BY <3>1
  <2>2. list' = 0 => request[c].for # "revisions"
    BY <1>1, <1>11 DEF Answer, Rejoins, UnderWay, OpenRequest
  <2> QED BY <1>7, <2>1, <2>2
<1> QED
  BY <1>4, <1>5, <1>6, <1>8, <1>9, <1>10, <1>11 DEF Next, Handle, Arrival, Serve, Quiet

-----------------------------------------------------------------------------
(***************************************************************************)
(* What is still to come stays to come.                                    *)
(***************************************************************************)
LEMMA Awakes ==
    ASSUME Types, [Next]_vars, Live', ~Live PROVE Connect \/ SignIn
<1>1. CASE ChangeList \/ ChangePost \/ Serve
  BY <1>1 DEF ChangeList, ChangePost, Serve, Authenticate, Answer, actorVars, Live
<1>2. CASE Run
  BY <1>2
  DEF Run, TimerFires, StateProbed, Enter, AccessRefreshed, ProposalsFlushed, RevisionsRecovered,
      SnapshotsRefreshed, TakeBatch, ReplayEvent, ReplayEnds, socketVars, actorVars, Live
<1>3. CASE Handle
  BY <1>3
  DEF Handle, HandleAuthenticated, HandleResubscribe, HandleAnswer, IgnoreEvent, ApplyEvent,
      FailEvent, ParkEvent, RefreshFails, socketVars, actorVars, Live
<1>4. CASE Disconnect \/ SignOut \/ Waits \/ UNCHANGED vars
  BY <1>4 DEF Disconnect, SignOut, Waits, vars, socketVars, actorVars, Live
<1> QED BY <1>1, <1>2, <1>3, <1>4 DEF Next

LEMMA ResubscribesStays ==
    ASSUME Types, Resubscribes,
           wire' = wire \/ (Arrival /\ ~HandleResubscribe) \/ Sends(1) \/ Sends(2)
    PROVE  Resubscribes'
<1>1. PICK j \in 1..Len(wire) : IsKind(j, "resubscribe")
  BY DEF Resubscribes
<1>2. CASE wire' = wire
  BY <1>1, <1>2 DEF Resubscribes, IsKind
<1>3. CASE Arrival /\ ~HandleResubscribe
  <2>1. j # 1
    <3>1. Head(wire) = wire[1]
      BY <1>3, ArrivalTakes
    <3>2. Head(wire).kind # "resubscribe"
      BY <1>3
      DEF Arrival, HandleAuthenticated, HandleAnswer, IgnoreEvent, ApplyEvent, FailEvent,
          ParkEvent, Arrives, IsEvent
    <3> QED BY <1>1, <3>1, <3>2 DEF IsKind
  <2>2. j \in 2..Len(wire)
    BY <1>1, <2>1
  <2>3. j - 1 \in 1..Len(wire') /\ wire'[j - 1] = wire[j]
    BY <1>3, <2>2, ArrivalTakes
  <2> QED BY <1>1, <2>3 DEF Resubscribes, IsKind
<1>4. CASE Sends(1) \/ Sends(2)
  <2>1. j \in 1..Len(wire') /\ wire'[j] = wire[j]
    BY <1>4 DEF Sends
  <2> QED BY <1>1, <2>1 DEF Resubscribes, IsKind
<1> QED BY <1>2, <1>3, <1>4

\* What a step that begins anew leaves to do.
LEMMA Begins ==
    ASSUME Types, Live', Connect \/ SignIn \/ (HandleResubscribe /\ signedIn) \/ FailEvent
    PROVE  /\ ListAhead' /\ PostsAhead'
           /\ ~SignIn => Again'
           /\ SignIn => Asked("refresh", "access")'
<1>1. CASE Connect \/ (HandleResubscribe /\ signedIn) \/ FailEvent
  <2>1. timer' = TRUE
    BY <1>1 DEF Connect, HandleResubscribe, FailEvent, Schedule
  <2>2. ~SignIn
    BY <1>1 DEF Connect, HandleResubscribe, FailEvent, SignIn
  <2> QED BY <2>1, <2>2 DEF ListAhead, PostsAhead, Again
<1>2. CASE SignIn
  <2>1. connected
    BY <1>2 DEF SignIn, Live
  <2>2. request'["refresh"] = Ask("access", connected, epoch + 1, myList)
    BY <1>2 DEF SignIn, Types, Callers
  <2>3. request'["refresh"].for = "access" /\ request'["refresh"].state = "asked"
    BY <2>1, <2>2 DEF Ask
  <2> QED BY <1>2, <2>3 DEF ListAhead, PostsAhead, Asked, UnderWay, OpenRequest
<1> QED BY <1>1, <1>2

\* Entering a step does not forget a timer, a refresh or a list to join.
LEMMA EnterAhead ==
    ASSUME Types, Live, ~OpenRequest("run"), NEW next \in Steps \ {"none", "state"}, Enter(next)
    PROVE  /\ timer' = timer /\ request'["refresh"] = request["refresh"]
           /\ step' = next /\ wire' = wire /\ myList' = myList /\ myPosts' = myPosts
           /\ queue' = queue /\ batch' = batch /\ epoch' = epoch
           /\ next = "access" => Again' /\ ListAhead' /\ PostsAhead'
           /\ next = "revisions" /\ myList # 0 => PostsAhead'
           /\ request'["run"].state # "answered"
<1>1. /\ timer' = timer /\ request'["refresh"] = request["refresh"]
      /\ step' = next /\ wire' = wire /\ myList' = myList /\ myPosts' = myPosts
      /\ queue' = queue /\ batch' = batch /\ epoch' = epoch
      /\ request'["run"] = IF next \in {"access", "revisions"}
                           THEN Ask(next, connected /\ signedIn, epoch, myList) ELSE NoRequest
  BY DEF Enter, Types, Callers, socketVars, diskVars, actorVars
<1>2. request'["run"].state # "answered"
  BY <1>1 DEF Ask, NoRequest
<1>3. next = "access" => Asked("run", "access")'
  BY <1>1 DEF Ask, Asked, Live
<1>4. next = "revisions" /\ myList # 0 => Asked("run", "revisions")'
  BY <1>1 DEF Ask, Asked, Live
<1> QED
  BY <1>1, <1>2, <1>3, <1>4 DEF Again, ListAhead, PostsAhead, Asked, UnderWay, OpenRequest

\* A run that goes on keeps what it has still to ask or to wait for.
LEMMA RunAhead ==
    ASSUME Admits = {}, Types, Links, Run, Live
    PROVE  /\ Again => Again'
           /\ ListAhead => ListAhead'
           /\ PostsAhead /\ ~ProposalsFlushed => PostsAhead'
<1>1. CASE TimerFires
  <2>1. step' = "state"
    BY <1>1 DEF TimerFires
  <2> QED BY <2>1 DEF Again, ListAhead, PostsAhead
<1>2. CASE StateProbed
  <2>1. ~OpenRequest("run")
    BY <1>2, RunIsOpen DEF StateProbed, Links
  <2>2. Enter("access")
    BY <1>2 DEF StateProbed, Live
  <2> QED BY <2>1, <2>2, EnterAhead DEF Steps
<1>3. CASE AccessRefreshed \/ ProposalsFlushed \/ RevisionsRecovered \/ SnapshotsRefreshed
  <2>1. ~OpenRequest("run")
    BY <1>3, RunIsOpen
    DEF AccessRefreshed, ProposalsFlushed, RevisionsRecovered, SnapshotsRefreshed, Links
  <2>2. PICK next \in {"proposals", "revisions", "snapshots", "replay"} :
           /\ Enter(next) /\ step \notin {"none", "state"}
           /\ next = "proposals" => AccessRefreshed
           /\ next # "proposals" => step # "access"
           /\ next \in {"snapshots", "replay"} => step # "proposals"
           /\ next = "revisions" => ProposalsFlushed
    BY <1>3 DEF AccessRefreshed, ProposalsFlushed, RevisionsRecovered, SnapshotsRefreshed
  <2>3. next \in Steps \ {"none", "state"}
    BY DEF Steps
  <2>4. /\ timer' = timer /\ request'["refresh"] = request["refresh"]
        /\ step' = next /\ wire' = wire
    BY <2>1, <2>2, <2>3, EnterAhead
  <2>5. Again => Again'
    BY <2>1, <2>2, <2>4 DEF Again, Asked, OpenRequest
  <2>6. ListAhead => ListAhead'
    BY <2>1, <2>2, <2>4 DEF ListAhead, UnderWay, OpenRequest
  <2>7. PostsAhead /\ ~ProposalsFlushed => PostsAhead'
    <3>1. Resubscribes => Resubscribes'
      BY <2>4, ResubscribesStays
    <3> QED BY <2>1, <2>2, <2>4, <3>1 DEF PostsAhead, UnderWay, OpenRequest
  <2> QED BY <2>5, <2>6, <2>7
<1>4. CASE TakeBatch \/ ReplayEvent \/ ReplayEnds
  <2>1. /\ UNCHANGED <<timer, request, wire>> /\ step = "replay"
    BY <1>4 DEF TakeBatch, ReplayEvent, ReplayEnds, socketVars, coordVars
  <2>2. Again => Again'
    BY <2>1 DEF Again
  <2>3. ListAhead => ListAhead'
    BY <2>1 DEF ListAhead, UnderWay, OpenRequest
  <2>4. PostsAhead => PostsAhead'
    BY <2>1, ResubscribesStays DEF PostsAhead, UnderWay, OpenRequest
  <2> QED BY <2>2, <2>3, <2>4
<1> QED BY <1>1, <1>2, <1>3, <1>4 DEF Run

\* So does a client that handles a frame, unless it is the answer waited for.
LEMMA ArrivalAhead ==
    ASSUME Types, Links, Arrival, Live
    PROVE  /\ Again => Again'
           /\ ListAhead /\ ~(HandleAnswer /\ Fits(1) /\ IsAnswer(1, "access")) => ListAhead'
           /\ PostsAhead /\ ~(HandleAnswer /\ Fits(1)) => PostsAhead'
<1>1. step' = step /\ UNCHANGED <<connected, signedIn>> /\ 1 \in 1..Len(wire)
  BY ArrivalTakes
<1>2. timer => timer'
  BY DEF Arrival, HandleAuthenticated, HandleResubscribe, HandleAnswer, IgnoreEvent, ApplyEvent,
         FailEvent, ParkEvent, Schedule, coordVars
<1>3. CASE HandleResubscribe
  <2>1. signedIn /\ Live'
    BY <1>1 DEF Live
  <2>2. ~SignIn
    BY <2>1 DEF SignIn
  <2> QED BY <1>3, <2>1, <2>2, Begins
<1>4. CASE ~HandleResubscribe /\ request' = request
  <2>1. Resubscribes => Resubscribes'
    BY <1>4, ResubscribesStays
  <2> QED
    BY <1>1, <1>2, <1>4, <2>1 DEF Again, ListAhead, PostsAhead, Asked, UnderWay, OpenRequest
<1>5. CASE ~HandleResubscribe /\ request' # request
  <2>1. /\ HandleAnswer /\ Fits(1) /\ wire[1].to \in Callers
        /\ \A d \in Callers : d # wire[1].to => request'[d] = request[d]
    BY <1>5, ArrivalRequests
  <2>2. request[wire[1].to].state = "answered" /\ request[wire[1].to].for = wire[1].request.for
    BY <1>1, <2>1 DEF Links, AnswersFit, Fits, IsKind
  <2>3. Again => Again'
    <3>1. Asked("run", "access") => Asked("run", "access")'
      BY <2>1, <2>2 DEF Asked, Callers
    <3> QED BY <1>1, <1>2, <3>1 DEF Again
  <2>4. ~IsAnswer(1, "access") /\ ListAhead => ListAhead'
    <3>1. ASSUME ~IsAnswer(1, "access"), NEW c \in Callers, UnderWay(c, "access")
          PROVE  UnderWay(c, "access")'
      BY <2>1, <2>2, <3>1 DEF UnderWay, OpenRequest, IsAnswer, Fits
    <3> QED BY <1>1, <1>2, <3>1 DEF ListAhead, Callers
  <2> QED BY <2>1, <2>3, <2>4
<1> QED BY <1>3, <1>4, <1>5

\* And so does everything else while the client stays connected and signed in.
LEMMA RestAhead ==
    ASSUME Admits = {}, Types, Links, Live, Live',
           ChangeList \/ ChangePost \/ Serve \/ RefreshFails \/ Connect \/ Disconnect \/ SignOut
             \/ SignIn \/ Waits \/ UNCHANGED vars
    PROVE  /\ Again /\ ~Answer("run") => Again'
           /\ ListAhead => ListAhead'
           /\ PostsAhead => PostsAhead'
<1>1. CASE ChangeList
  <2>1. UNCHANGED <<timer, step, request>>
    BY <1>1 DEF ChangeList, coordVars, runVars
  <2>2. wire' = wire \/ Sends(1) \/ Sends(2)
    <3>1. list > 0 \/ list = 0
      BY DEF Types
    <3> QED BY <1>1, <3>1, ListSends
  <2> QED
    BY <2>1, <2>2, ResubscribesStays
    DEF Again, ListAhead, PostsAhead, Asked, UnderWay, OpenRequest
<1>2. CASE ChangePost
  <2>1. UNCHANGED <<timer, step, request>>
    BY <1>2 DEF ChangePost, coordVars, runVars
  <2>2. wire' = wire \/ Sends(1)
    <3>1. channels \in {NoBinding, 0} \/ channels > 0
      BY DEF Types
    <3> QED BY <1>2, <3>1, PostSends
  <2> QED
    BY <2>1, <2>2, ResubscribesStays
    DEF Again, ListAhead, PostsAhead, Asked, UnderWay, OpenRequest
<1>3. CASE Authenticate
  <2>1. UNCHANGED <<timer, step, request>>
    BY <1>3 DEF Authenticate, coordVars, runVars
  <2> QED
    BY <1>3, <2>1, AuthenticateSends, ResubscribesStays
    DEF Again, ListAhead, PostsAhead, Asked, UnderWay, OpenRequest
<1>4. ASSUME NEW c \in Callers, Answer(c)
      PROVE  /\ Again /\ ~Answer("run") => Again'
             /\ ListAhead => ListAhead'
             /\ PostsAhead => PostsAhead'
  <2>1. UNCHANGED <<timer, step>>
    BY <1>4 DEF Answer, coordVars
  <2>2. /\ Sends(1) /\ \A d \in Callers : d # c => request'[d] = request[d]
        /\ request'[c].for = request[c].for /\ request'[c].state = "answered"
    <3>1. /\ Sends(1)
          /\ request'[c].for = request[c].for /\ request'[c].state = "answered"
          /\ \A d \in Callers : d # c => request'[d] = request[d]
      BY <1>4, AnswerSends
    <3> QED BY <3>1
  <2>3. ASSUME NEW d \in Callers, NEW what, UnderWay(d, what) PROVE UnderWay(d, what)'
    BY <2>2, <2>3 DEF UnderWay, OpenRequest
  <2>4. ~Answer("run") /\ Asked("run", "access") => Asked("run", "access")'
    BY <1>4, <2>2 DEF Asked, Callers
  <2>5. Resubscribes => Resubscribes'
    BY <2>2, ResubscribesStays
  <2> QED BY <2>1, <2>3, <2>4, <2>5 DEF Again, ListAhead, PostsAhead, Callers
<1>5. CASE RefreshFails
  <2>1. /\ UNCHANGED <<timer, step, wire>> /\ request'["run"] = request["run"]
        /\ ~OpenRequest("refresh")
    BY <1>5 DEF RefreshFails, Types, Callers, OpenRequest, coordVars, socketVars
  <2> QED
    BY <2>1, ResubscribesStays
    DEF Again, ListAhead, PostsAhead, Asked, UnderWay, OpenRequest
<1>6. CASE Connect \/ Disconnect \/ SignOut \/ SignIn
  BY <1>6 DEF Connect, Disconnect, SignOut, SignIn, Live
<1>7. CASE Waits \/ UNCHANGED vars
  <2>1. UNCHANGED <<timer, step, request, wire>>
    BY <1>7 DEF Waits, vars, coordVars, runVars, socketVars
  <2> QED
    BY <2>1, ResubscribesStays
    DEF Again, ListAhead, PostsAhead, Asked, UnderWay, OpenRequest
<1> QED BY <1>1, <1>2, <1>3, <1>4, <1>5, <1>6, <1>7 DEF Serve

-----------------------------------------------------------------------------
(***************************************************************************)
(* A client that does not know its list, or whose channels do not cover    *)
(* it, has more to do.                                                     *)
(***************************************************************************)
LEMMA AgainAhead ==
    ASSUME Again \/ Asked("refresh", "access")
    PROVE  ListAhead /\ PostsAhead
  BY DEF Again, Asked, ListAhead, PostsAhead, UnderWay, OpenRequest

LEMMA ListStored ==
    ASSUME Types, Links, Bounded, NEW h, NEW p, Numbered(h, p), [Next]_vars
    PROVE  \/ myList' = myList /\ ~(HandleAnswer /\ Fits(1) /\ IsAnswer(1, "access"))
           \/ myList' > 0 /\ ~HandleAnswer
           \/ /\ HandleAnswer /\ Fits(1) /\ IsAnswer(1, "access")
              /\ myList' = h[1] /\ 1 \in 1..Len(wire)
<1>1. CASE ReplayEvent
  <2>1. Head(batch) = batch[1] /\ 1 \in 1..Len(batch)
    BY <1>1, Taken DEF ReplayEvent, Types
  <2>2. Head(batch).kind = "list" => Head(batch).n > 0
    BY <2>1 DEF Bounded, EventBounded, Types
  <2>3. myList' = myList \/ (Head(batch).kind = "list" /\ myList' = Head(batch).n)
    BY <1>1 DEF ReplayEvent, Writes, diskVars
  <2>4. ~HandleAnswer
    <3>1. wire' = wire
      BY <1>1 DEF ReplayEvent, socketVars
    <3>2. HandleAnswer => wire' # wire
      <4>1. SUFFICES ASSUME HandleAnswer PROVE wire' # wire
        OBVIOUS
      <4>2. Len(wire') = Len(wire) - 1 /\ Len(wire) \in Nat
        BY <4>1, ArrivalTakes DEF Arrival
      <4> QED BY <4>2
    <3> QED BY <3>1, <3>2
  <2> QED BY <2>2, <2>3, <2>4
<1>2. CASE Arrival
  <2>1. Head(wire) = wire[1] /\ 1 \in 1..Len(wire)
    BY <1>2, ArrivalTakes
  <2>2. CASE HandleAnswer
    <3>1. wire[1].kind = "answer"
      BY <2>1, <2>2 DEF HandleAnswer, Arrives
    <3>2. CASE Fits(1) /\ IsAnswer(1, "access")
      <4>1. myList' = wire[1].n
        BY <2>1, <2>2, <3>2 DEF HandleAnswer, Fits, IsAnswer
      <4> QED BY <2>1, <2>2, <3>2, <4>1, FirstFrame
    <3>3. CASE ~(Fits(1) /\ IsAnswer(1, "access"))
      BY <2>1, <2>2, <3>1, <3>3 DEF HandleAnswer, Fits, IsAnswer, diskVars
    <3> QED BY <3>2, <3>3
  <2>3. CASE ~HandleAnswer
    <3>1. myList' = myList \/ (IsKind(1, "list") /\ myList' = wire[1].n)
      BY <1>2, <2>1, <2>3
      DEF Arrival, HandleAuthenticated, HandleResubscribe, IgnoreEvent, ApplyEvent, FailEvent,
          ParkEvent, Writes, IsKind, diskVars
    <3>2. IsKind(1, "list") => wire[1].n > 0
      BY <2>1, FirstFrame DEF Types
    <3> QED BY <2>3, <3>1, <3>2
  <2> QED BY <2>2, <2>3
<1>3. CASE ~ReplayEvent /\ ~Arrival
  <2>1. myList' = myList
    <3>1. CASE ChangeList \/ ChangePost \/ Serve \/ RefreshFails
      BY <3>1 DEF ChangeList, ChangePost, Serve, Authenticate, Answer, RefreshFails, diskVars
    <3>2. CASE Run
      BY <1>3, <3>2
      DEF Run, TimerFires, StateProbed, Enter, AccessRefreshed, ProposalsFlushed,
          RevisionsRecovered, SnapshotsRefreshed, TakeBatch, ReplayEnds, diskVars
    <3>3. CASE Connect \/ Disconnect \/ SignOut \/ SignIn \/ Waits \/ UNCHANGED vars
      BY <3>3 DEF Connect, Disconnect, SignOut, SignIn, Waits, vars, diskVars
    <3> QED BY <1>3, <3>1, <3>2, <3>3 DEF Next, Handle, Arrival
  <2> QED BY <1>3, <2>1 DEF Arrival
<1> QED BY <1>1, <1>2, <1>3

LEMMA ListKnownNext ==
    ASSUME Admits = {}, Types, Types', Links, Bounded, ListKnown, Unbound, NEW h, NEW p,
           Numbered(h, p), JoinAhead(h), [Next]_vars
    PROVE  ListKnown'
<1>1. SUFFICES ASSUME Live', list' > 0, myList' = 0 PROVE ListAhead' \/ Resubscribes'
  BY DEF ListKnown
<1>2. CASE ~Live
  BY <1>1, <1>2, Awakes, Begins
<1>3. CASE Live /\ ChangeList
  <2>1. myList' = myList /\ (list > 0 \/ list = 0)
    BY <1>3 DEF ChangeList, Types, diskVars
  <2>2. CASE channels = NoBinding
    BY <1>1, <1>3, <2>2, AgainAhead, RestAhead DEF Unbound
  <2>3. CASE channels # NoBinding /\ list = 0
    <3>1. Sends(2) /\ wire'[Len(wire) + 2] = [kind |-> "resubscribe", n |-> 0]
      BY <1>3, <2>3, ListSends
    <3>2. Len(wire) + 2 \in 1..Len(wire')
      BY <3>1 DEF Sends
    <3> QED BY <3>1, <3>2 DEF Resubscribes, IsKind
  <2>4. CASE channels # NoBinding /\ list > 0
    <3>1. Sends(1)
      BY <1>3, <2>4, ListSends
    <3> QED BY <1>1, <1>3, <2>1, <2>4, <3>1, RestAhead, ResubscribesStays DEF ListKnown
  <2> QED BY <2>1, <2>2, <2>3, <2>4
<1>4. CASE Live /\ ~ChangeList /\ HandleAnswer /\ Fits(1) /\ IsAnswer(1, "access")
  <2>1. h[1] = 0 /\ 1 \in 0..Len(wire)
    <3>1. h[1] = 0 /\ 1 \in 1..Len(wire)
      BY <1>1, <1>4, ListStored DEF Types
    <3> QED BY <3>1 DEF Types
  <2>2. list > 0
    BY <1>1, <1>4, ArrivalTakes DEF Arrival
  <2>3. PICK j \in 1..Len(wire) : 1 < j /\ IsKind(j, "resubscribe")
    BY <2>1, <2>2 DEF JoinAhead
  <2>4. j \in 2..Len(wire)
    BY <2>3
  <2>5. j - 1 \in 1..Len(wire') /\ wire'[j - 1] = wire[j]
    BY <1>4, <2>4, ArrivalTakes DEF Arrival
  <2> QED BY <2>3, <2>5 DEF Resubscribes, IsKind
<1>5. CASE Live /\ ~ChangeList /\ ~(HandleAnswer /\ Fits(1) /\ IsAnswer(1, "access"))
  <2>1. myList = 0
    BY <1>1, <1>5, ListStored
  <2>2. list > 0
    <3>1. CASE Quiet \/ Arrival
      BY <1>1, <3>1, QuietKeeps, ArrivalTakes
    <3>2. CASE ChangePost \/ Serve \/ Disconnect
      BY <1>1, <3>2 DEF ChangePost, Serve, Authenticate, Answer, Disconnect, serverVars
    <3> QED BY <1>5, <3>1, <3>2 DEF Next, Quiet, Handle, Arrival
  <2>3. ListAhead \/ Resubscribes
    BY <1>5, <2>1, <2>2 DEF ListKnown
  <2>4. CASE Run
    BY <1>5, <2>3, <2>4, RunAhead, QuietKeeps, ResubscribesStays DEF Quiet
  <2>5. CASE Arrival
    <3>1. CASE HandleResubscribe
      BY <1>1, <1>5, <3>1, <2>5, Begins, ArrivalTakes DEF Live
    <3>2. CASE ~HandleResubscribe
      BY <1>5, <2>3, <2>5, <3>2, ArrivalAhead, ResubscribesStays
    <3> QED BY <3>1, <3>2
  <2>6. CASE ~Run /\ ~Arrival
    <3>1. CASE ListAhead
      BY <1>1, <1>5, <2>6, <3>1, RestAhead DEF Next, Handle, Arrival
    <3>2. CASE Resubscribes
      <4>1. CASE Quiet
        BY <3>2, <4>1, QuietKeeps, ResubscribesStays
      <4>2. CASE ChangePost
        <5>1. channels \in {NoBinding, 0} \/ channels > 0
          BY DEF Types
        <5> QED BY <3>2, <4>2, <5>1, PostSends, ResubscribesStays
      <4>3. CASE Authenticate
        BY <3>2, <4>3, AuthenticateSends, ResubscribesStays
      <4>4. ASSUME NEW c \in Callers, Answer(c) PROVE Resubscribes'
        <5>1. Sends(1)
          BY <4>4, AnswerSends
        <5> QED BY <3>2, <5>1, ResubscribesStays
      <4>5. ~Disconnect
        BY <1>1 DEF Disconnect, Live
      <4> QED
        BY <1>5, <2>6, <4>1, <4>2, <4>3, <4>4, <4>5 DEF Next, Quiet, Handle, Arrival, Serve
    <3> QED BY <2>3, <3>1, <3>2
  <2> QED BY <2>4, <2>5, <2>6
<1> QED BY <1>2, <1>3, <1>4, <1>5

LEMMA UnboundNext ==
    ASSUME Admits = {}, Types, Links, Unbound, [Next]_vars
    PROVE  Unbound'
<1>1. SUFFICES ASSUME Live', channels' = NoBinding PROVE Again' \/ Asked("refresh", "access")'
  BY DEF Unbound
<1>2. CASE ~Live
  BY <1>1, <1>2, Awakes, Begins
<1>3. CASE Live
  <2>1. ~Authenticate /\ ~Disconnect /\ ~Connect /\ ~SignIn /\ ~SignOut
    BY <1>1, <1>3 DEF Authenticate, Types, NoBinding, Disconnect, Connect, SignIn, SignOut, Live
  <2>2. channels = NoBinding
    <3>1. CASE Quiet \/ Arrival
      BY <1>1, <3>1, QuietKeeps, ArrivalTakes
    <3>2. CASE ChangeList \/ ChangePost \/ Serve
      BY <1>1, <2>1, <3>2 DEF ChangeList, ChangePost, Serve, Answer, serverVars
    <3> QED BY <2>1, <3>1, <3>2 DEF Next, Quiet, Handle, Arrival
  <2>3. ~authenticated /\ wire = <<>>
    BY <2>2 DEF Links, NotBound
  <2>4. ~Arrival /\ \A c \in Callers : ~Answer(c)
    BY <2>3, ArrivalTakes DEF Answer
  <2>5. Again \/ Asked("refresh", "access")
    BY <1>3, <2>2 DEF Unbound
  <2>6. CASE Run
    <3>1. request'["refresh"] = request["refresh"]
      BY <2>6
      DEF Run, TimerFires, StateProbed, Enter, AccessRefreshed, ProposalsFlushed,
          RevisionsRecovered, SnapshotsRefreshed, TakeBatch, ReplayEvent, ReplayEnds, Types, Callers
    <3> QED BY <1>3, <2>5, <2>6, <3>1, RunAhead DEF Asked
  <2>7. CASE RefreshFails
    <3>1. ~Asked("refresh", "access") /\ ~Answer("run")
      BY <2>4, <2>7 DEF RefreshFails, Asked, Callers
    <3> QED BY <1>1, <1>3, <2>5, <2>7, <3>1, RestAhead
  <2>8. CASE ChangeList \/ ChangePost \/ Waits \/ UNCHANGED vars
    <3>1. request' = request /\ ~Answer("run")
      BY <2>4, <2>8 DEF ChangeList, ChangePost, Waits, vars, runVars, Callers
    <3> QED BY <1>1, <1>3, <2>5, <2>8, <3>1, RestAhead DEF Asked
  <2> QED BY <2>1, <2>4, <2>6, <2>7, <2>8 DEF Next, Handle, Arrival, Serve
<1> QED BY <1>2, <1>3

\* Frames that follow keep a resubscription in sight, if they do not end it.
LEMMA ToRejoinStays ==
    ASSUME Types, ToRejoin,
           \/ wire' = wire
           \/ Sends(1) /\ wire'[Len(wire) + 1].kind # "authenticated"
           \/ Arrival /\ ~HandleResubscribe
    PROVE  ToRejoin'
<1>1. PICK j \in 1..Len(wire) :
         /\ IsKind(j, "resubscribe")
         /\ \A k \in 1..Len(wire) : j <= k => ~IsKind(k, "authenticated")
  BY DEF ToRejoin
<1>2. CASE wire' = wire
  BY <1>1, <1>2 DEF ToRejoin, IsKind
<1>3. CASE Sends(1) /\ wire'[Len(wire) + 1].kind # "authenticated"
  <2>1. j \in 1..Len(wire') /\ wire'[j] = wire[j]
    BY <1>3 DEF Sends
  <2>2. \A k \in 1..Len(wire') : k = Len(wire) + 1 \/ (k \in 1..Len(wire) /\ wire'[k] = wire[k])
    BY <1>3 DEF Sends
  <2>3. IsKind(j, "resubscribe")' /\ \A k \in 1..Len(wire') : j <= k => ~IsKind(k, "authenticated")'
    BY <1>1, <1>3, <2>1, <2>2 DEF IsKind
  <2> QED BY <2>1, <2>3 DEF ToRejoin
<1>4. CASE Arrival /\ ~HandleResubscribe
  <2>1. j # 1
    <3>1. Head(wire) = wire[1]
      BY <1>4, ArrivalTakes
    <3>2. Head(wire).kind # "resubscribe"
      BY <1>4
      DEF Arrival, HandleAuthenticated, HandleAnswer, IgnoreEvent, ApplyEvent, FailEvent,
          ParkEvent, Arrives, IsEvent
    <3> QED BY <1>1, <3>1, <3>2 DEF IsKind
  <2>2. j - 1 \in 1..Len(wire') /\ wire'[j - 1] = wire[j]
    <3>1. j \in 2..Len(wire)
      BY <1>1, <2>1
    <3> QED BY <1>4, <3>1, ArrivalTakes
  <2>3. \A k \in 1..Len(wire') : k + 1 \in 1..Len(wire) /\ wire'[k] = wire[k + 1]
    BY <1>4, ArrivalTakes
  <2>4. \A k \in 1..Len(wire') : j - 1 <= k => j <= k + 1
    OBVIOUS
  <2>5. PICK l \in 1..Len(wire') : l = j - 1 /\ wire'[l] = wire[j]
    BY <2>2
  <2>6. IsKind(l, "resubscribe")' /\ \A k \in 1..Len(wire') : l <= k => ~IsKind(k, "authenticated")'
    BY <1>1, <2>3, <2>4, <2>5 DEF IsKind
  <2> QED BY <2>6 DEF ToRejoin
<1> QED BY <1>2, <1>3, <1>4

LEMMA UnjoinedNext ==
    ASSUME Admits = {}, Types, Types', Links, Unjoined, [Next]_vars
    PROVE  Unjoined'
<1>1. SUFFICES ASSUME channels' = 0, list' > 0 PROVE ToRejoin' \/ Rejoining'
  BY DEF Unjoined
<1>2. CASE ChangeList
  <2>1. UNCHANGED <<channels, authenticated, signedIn, connected, timer, step, request>>
    BY <1>2 DEF ChangeList, bindingVars, actorVars, coordVars, runVars
  <2>2. channels # NoBinding /\ (list > 0 \/ list = 0)
    BY <1>1, <2>1 DEF NoBinding, Types
  <2>3. CASE list = 0
    <3>1. /\ Sends(2) /\ wire'[Len(wire) + 2].kind = "resubscribe"
      BY <1>2, <2>2, <2>3, ListSends
    <3>2. Len(wire) + 2 \in 1..Len(wire') /\ \A k \in 1..Len(wire') : Len(wire) + 2 <= k => k = Len(wire) + 2
      BY <3>1 DEF Sends
    <3>3. PICK j \in 1..Len(wire') : j = Len(wire) + 2
      BY <3>2
    <3> QED BY <3>1, <3>2, <3>3 DEF ToRejoin, IsKind
  <2>4. CASE list > 0
    <3>1. Sends(1) /\ wire'[Len(wire) + 1].kind = "list"
      BY <1>2, <2>2, <2>4, ListSends
    <3>2. CASE ToRejoin
      BY <3>1, <3>2, ToRejoinStays
    <3>3. CASE Rejoining
      <4>1. \A k \in 1..Len(wire') : k = Len(wire) + 1 \/ (k \in 1..Len(wire) /\ wire'[k] = wire[k])
        BY <3>1 DEF Sends
      <4> QED BY <2>1, <3>1, <3>3, <4>1 DEF Rejoining, IsKind, Again, Asked, Unanswered
    <3> QED BY <1>1, <2>1, <2>4, <3>2, <3>3 DEF Unjoined
  <2> QED BY <2>2, <2>3, <2>4
<1>3. CASE Quiet
  <2>1. UNCHANGED <<channels, list, wire>>
    BY <1>3, QuietKeeps
  <2>2. CASE ToRejoin
    BY <2>1, <2>2, ToRejoinStays
  <2>3. CASE Rejoining
    <3>1. connected /\ channels # NoBinding
      BY <1>1, <2>1 DEF Links, LinkDown, NoBinding
    <3>2. authenticated' => authenticated
      BY <1>3
      DEF Quiet, Run, TimerFires, StateProbed, Enter, AccessRefreshed, ProposalsFlushed,
          RevisionsRecovered, SnapshotsRefreshed, TakeBatch, ReplayEvent, ReplayEnds, RefreshFails,
          Connect, SignOut, SignIn, Waits, vars, socketVars, bindingVars
    <3>3. ~authenticated' /\ \A k \in 1..Len(wire') : ~IsKind(k, "authenticated")'
      BY <2>1, <2>3, <3>2 DEF Rejoining, IsKind
    <3>4. signedIn' => (Again \/ (Asked("refresh", "access") /\ Unanswered))'
      <4>1. CASE SignIn
        <5>1. Live' /\ \A c \in Callers : ~OpenRequest(c)
          BY <3>1, <4>1 DEF SignIn, Live, Links, SignedOut
        <5>2. request'["run"] = request["run"]
          BY <4>1 DEF SignIn, Types, Callers
        <5>3. Asked("refresh", "access")'
          BY <4>1, <5>1, Begins
        <5> QED BY <5>1, <5>2, <5>3 DEF Unanswered, Asked, Callers, OpenRequest
      <4>2. CASE SignOut \/ Connect
        BY <3>1, <4>2 DEF SignOut, Connect
      <4>3. CASE Run /\ signedIn
        <5>1. Live
          BY <3>1, <4>3 DEF Live
        <5>2. Again => Again'
          BY <4>3, <5>1, RunAhead
        <5>3. Asked("refresh", "access") /\ Unanswered => (Asked("refresh", "access") /\ Unanswered)'
          <6>1. request'["refresh"] = request["refresh"]
                /\ (request'["run"] = request["run"] \/ request'["run"].state # "answered")
            BY <4>3
            DEF Run, TimerFires, StateProbed, Enter, AccessRefreshed, ProposalsFlushed,
                RevisionsRecovered, SnapshotsRefreshed, TakeBatch, ReplayEvent, ReplayEnds, Types,
                Callers, Ask, NoRequest
          <6> QED BY <6>1 DEF Asked, Unanswered, Callers
        <5> QED BY <2>3, <4>3, <5>2, <5>3 DEF Rejoining
      <4>4. CASE Run /\ ~signedIn
        BY <4>4
        DEF Run, TimerFires, StateProbed, Enter, AccessRefreshed, ProposalsFlushed,
            RevisionsRecovered, SnapshotsRefreshed, TakeBatch, ReplayEvent, ReplayEnds, actorVars
      <4>5. CASE RefreshFails
        <5>1. /\ UNCHANGED <<timer, step, signedIn>> /\ request'["run"] = request["run"]
              /\ request["refresh"].state = "failed"
          BY <4>5 DEF RefreshFails, Types, Callers, coordVars, actorVars
        <5> QED BY <2>3, <5>1 DEF Rejoining, Again, Asked
      <4>6. CASE Waits \/ UNCHANGED vars
        <5>1. UNCHANGED <<timer, step, request, signedIn>>
          BY <4>6 DEF Waits, vars, coordVars, runVars, actorVars
        <5> QED BY <2>3, <5>1 DEF Rejoining, Again, Asked, Unanswered
      <4> QED BY <1>3, <4>1, <4>2, <4>3, <4>4, <4>5, <4>6 DEF Quiet
    <3> QED BY <3>3, <3>4 DEF Rejoining
  <2> QED BY <1>1, <2>1, <2>2, <2>3 DEF Unjoined
<1>4. CASE ChangePost
  <2>1. UNCHANGED <<channels, list, authenticated, signedIn, timer, step, request>>
    BY <1>4 DEF ChangePost, bindingVars, actorVars, coordVars, runVars
  <2>2. wire' = wire
    BY <1>1, <1>4, <2>1, PostSends
  <2>3. Rejoining => Rejoining'
    BY <2>1, <2>2 DEF Rejoining, IsKind, Again, Asked, Unanswered
  <2> QED BY <1>1, <2>1, <2>2, <2>3, ToRejoinStays DEF Unjoined
<1>5. CASE Authenticate
  BY <1>1, <1>5 DEF Authenticate
<1>6. ASSUME NEW c \in Callers, Answer(c) PROVE ToRejoin' \/ Rejoining'
  <2>1. authenticated /\ UNCHANGED <<channels, list>>
    BY <1>6 DEF Answer, serverVars
  <2>2. Sends(1) /\ wire'[Len(wire) + 1].kind = "answer"
    <3>1. /\ Sends(1)
          /\ wire'[Len(wire) + 1] =
               [kind |-> "answer", to |-> c, request |-> request'[c],
                n |-> IF request[c].for = "access" THEN list ELSE posts]
      BY <1>6, AnswerSends
    <3> QED BY <3>1
  <2>3. ToRejoin
    BY <1>1, <2>1 DEF Unjoined, Rejoining
  <2> QED BY <2>2, <2>3, ToRejoinStays
<1>7. CASE Arrival
  <2>1. /\ UNCHANGED <<list, channels, connected, signedIn, step>>
        /\ Head(wire) = wire[1] /\ 1 \in 1..Len(wire)
        /\ \A k \in 1..Len(wire') : k + 1 \in 1..Len(wire) /\ wire'[k] = wire[k + 1]
    BY <1>7, ArrivalTakes
  <2>2. connected
    BY <1>7, ArrivalBound
  <2>3. CASE HandleResubscribe
    <3>1. ToRejoin /\ ~ToRejoin' => \A k \in 1..Len(wire') : ~IsKind(k, "authenticated")'
      <4>1. SUFFICES ASSUME ToRejoin, NEW k \in 1..Len(wire'), IsKind(k, "authenticated")'
                     PROVE  ToRejoin'
        OBVIOUS
      <4>2. PICK j \in 1..Len(wire) :
              /\ IsKind(j, "resubscribe")
              /\ \A i \in 1..Len(wire) : j <= i => ~IsKind(i, "authenticated")
        BY <4>1 DEF ToRejoin
      <4>3. ~(j <= k + 1)
        BY <2>1, <4>1, <4>2 DEF IsKind
      <4>4. j \in 2..Len(wire)
        BY <4>1, <4>3
      <4>5. j - 1 \in 1..Len(wire') /\ wire'[j - 1] = wire[j]
        BY <1>7, <4>4, ArrivalTakes
      <4>6. \A i \in 1..Len(wire') : j - 1 <= i => j <= i + 1
        OBVIOUS
      <4> QED BY <2>1, <4>2, <4>5, <4>6 DEF ToRejoin, IsKind
    <3>2. Rejoining => \A k \in 1..Len(wire') : ~IsKind(k, "authenticated")'
      BY <2>1 DEF Rejoining, IsKind
    <3>3. CASE signedIn
      <4>1. authenticated' = FALSE /\ timer' = TRUE
        BY <2>3, <3>3 DEF HandleResubscribe, Schedule
      <4> QED BY <1>1, <2>1, <3>1, <3>2, <4>1 DEF Unjoined, Rejoining, Again
    <3>4. CASE ~signedIn
      <4>1. ~authenticated' /\ ~signedIn'
        BY <2>1, <2>3, <3>4 DEF HandleResubscribe, Links, SignedOut, bindingVars
      <4> QED BY <1>1, <2>1, <3>1, <3>2, <4>1 DEF Unjoined, Rejoining
    <3> QED BY <3>3, <3>4
  <2>4. CASE ~HandleResubscribe /\ ToRejoin
    BY <1>7, <2>4, ToRejoinStays
  <2>5. CASE ~HandleResubscribe /\ Rejoining
    <3>1. wire[1].kind # "authenticated" /\ ~HandleAuthenticated
      BY <2>1, <2>5 DEF Rejoining, IsKind, HandleAuthenticated, Arrives
    <3>2. ~authenticated'
      BY <1>7, <2>5, <3>1
      DEF Rejoining, Arrival, HandleAnswer, IgnoreEvent, ApplyEvent, FailEvent, ParkEvent,
          bindingVars
    <3>3. \A k \in 1..Len(wire') : ~IsKind(k, "authenticated")'
      BY <2>1, <2>5 DEF Rejoining, IsKind
    <3>4. signedIn' => (Again \/ (Asked("refresh", "access") /\ Unanswered))'
      <4>1. SUFFICES ASSUME signedIn PROVE (Again \/ (Asked("refresh", "access") /\ Unanswered))'
        BY <2>1
      <4>2. CASE Again
        BY <1>7, <2>2, <4>1, <4>2, ArrivalAhead DEF Live
      <4>3. CASE Asked("refresh", "access") /\ Unanswered
        <5>1. request' = request
          <6>1. SUFFICES ASSUME request' # request PROVE FALSE
            OBVIOUS
          <6>2. HandleAnswer /\ Fits(1) /\ wire[1].to \in Callers
            BY <1>7, <6>1, ArrivalRequests
          <6>3. wire[1].request.state = "answered"
            BY <2>1, <6>2 DEF Links, AnswersFit, IsKind, Fits
          <6> QED BY <4>3, <6>2, <6>3 DEF Unanswered, Fits
        <5> QED BY <4>3, <5>1 DEF Asked, Unanswered
      <4> QED BY <2>5, <4>1, <4>2, <4>3 DEF Rejoining
    <3> QED BY <3>2, <3>3, <3>4 DEF Rejoining
  <2> QED BY <1>1, <2>1, <2>3, <2>4, <2>5 DEF Unjoined
<1>8. CASE Disconnect
  BY <1>1, <1>8 DEF Disconnect, NoBinding
<1> QED
  BY <1>2, <1>3, <1>4, <1>5, <1>6, <1>7, <1>8 DEF Next, Quiet, Handle, Arrival, Serve

-----------------------------------------------------------------------------
(***************************************************************************)
(* The list a client holds, or has parked, is the latest it was sent.      *)
(***************************************************************************)
\* Without parked lists there is nothing to say.
LEMMA NothingLast ==
    ASSUME NEW g, (NoListAfter(queue, 0) /\ NoListAfter(batch, 0))', QueueOwn', Types'
    PROVE  LastParked(g)'
<1>1. \A i \in 1..Len(queue') : 0 < i /\ queue'[i].epoch = epoch'
  BY DEF QueueOwn, Types
<1>2. \A i \in 1..Len(batch') : 0 < i
  BY DEF Types
<1> QED BY <1>1, <1>2 DEF LastParked, NoListAfter

LEMMA EmptyParked ==
    ASSUME Types, queue = <<>> \/ phase = "idle", Parking, step # "replay" \/ phase = "idle" \/ ~signedIn
    PROVE  NoListAfter(queue, 0) /\ NoListAfter(batch, 0)
<1>1. queue = <<>>
  BY DEF Parking, ParkedIsTransient
<1>2. \A i \in 1..Len(queue) : FALSE
  BY <1>1
<1>3. \A i \in 1..Len(batch) : batch[i].epoch # epoch
  <2>1. CASE batch = <<>>
    BY <2>1
  <2>2. CASE batch # <<>>
    BY <2>2 DEF Parking, BatchOwn
  <2> QED BY <2>1, <2>2
<1> QED BY <1>2, <1>3 DEF NoListAfter

LEMMA LastParkedNext ==
    ASSUME Admits = {}, Types, Types', Links, Parking, Parking', [Next]_vars,
           NEW h, NEW p, Numbered(h, p), LastParked(h), NEW g, Arrival => g[0] = h[1],
           ~Arrival /\ ~Disconnect /\ ~(ChangeList /\ channels = NoBinding) => g[0] = h[0]
    PROVE  LastParked(g)'
<1>1. SUFFICES ASSUME connected' PROVE LastParked(g)'
  BY DEF LastParked
<1>2. CASE Connect \/ SignOut \/ SignIn
  <2>1. (NoListAfter(queue, 0) /\ NoListAfter(batch, 0))'
    <3>1. CASE Connect
      <4>1. UNCHANGED <<queue, batch, epoch>> /\ step = "none" /\ ~timer
        BY <3>1 DEF Connect, actorVars, runVars
      <4>2. queue = <<>>
        BY <4>1 DEF Parking, ParkedIsTransient
      <4>3. NoListAfter(queue, 0) /\ NoListAfter(batch, 0)
        BY <4>1, <4>2, EmptyParked
      <4> QED BY <4>1, <4>3 DEF NoListAfter
    <3>2. CASE SignOut \/ SignIn
      <4>1. queue' = <<>> /\ phase' = "idle"
        BY <3>2 DEF SignOut, SignIn, TokenChanges
      <4>2. \A i \in 1..Len(queue') : FALSE
        BY <4>1
      <4>3. \A i \in 1..Len(batch') : batch'[i].epoch # epoch'
        BY <4>1 DEF Parking, BatchOwn
      <4> QED BY <4>2, <4>3 DEF NoListAfter
    <3> QED BY <1>2, <3>1, <3>2
  <2> QED BY <2>1, NothingLast DEF Parking
<1>3. CASE Run
  <2>1. g[0] = h[0] /\ connected
    <3>1. wire' = wire /\ connected' = connected
      BY <1>3, QuietKeeps
      DEF Quiet, Run, TimerFires, StateProbed, Enter, AccessRefreshed, ProposalsFlushed,
          RevisionsRecovered, SnapshotsRefreshed, TakeBatch, ReplayEvent, ReplayEnds, socketVars
    <3>2. ~Arrival
      <4>1. Arrival => Len(wire') = Len(wire) - 1 /\ Len(wire) \in Nat
        BY ArrivalTakes
      <4> QED BY <3>1, <4>1
    <3>3. ~(ChangeList /\ channels = NoBinding) /\ ~Disconnect
      <4>1. list' = list
        BY <1>3, QuietKeeps DEF Quiet
      <4>2. ~ChangeList
        BY <4>1 DEF ChangeList, Types
      <4>3. ~Disconnect
        BY <1>1 DEF Disconnect
      <4> QED BY <4>2, <4>3
    <3> QED BY <1>1, <3>1, <3>2, <3>3
  <2>2. CASE TakeBatch
    <3>1. batch = <<>> /\ batch' = queue /\ queue' = <<>> /\ epoch' = epoch
      BY <2>2 DEF TakeBatch, actorVars
    <3>2. \A i \in 1..Len(queue') : FALSE
      BY <3>1
    <3>3. \A i \in 1..Len(queue) : queue[i].epoch = epoch
      BY DEF Parking, QueueOwn
    <3> QED BY <2>1, <3>1, <3>2, <3>3 DEF LastParked, NoListAfter
  <2>3. CASE ReplayEvent
    <3>1. batch # <<>> /\ batch' = Tail(batch) /\ UNCHANGED <<queue, epoch>>
      BY <2>3 DEF ReplayEvent, coordVars, actorVars
    <3>2. /\ Len(batch) \in Nat \ {0} /\ Len(batch') = Len(batch) - 1
          /\ \A i \in 1..Len(batch') : i + 1 \in 1..Len(batch) /\ batch'[i] = batch[i + 1]
      BY <3>1, Taken DEF Types
    <3>3. ASSUME NEW i \in 1..Len(batch'), NoListAfter(batch, i)'
          PROVE  NoListAfter(batch, i + 1)
      <4>1. ASSUME NEW j \in 1..Len(batch), i + 1 < j
            PROVE  ~(batch[j].kind = "list" /\ batch[j].epoch = epoch)
        <5>1. j - 1 \in 1..Len(batch') /\ i < j - 1 /\ (j - 1) + 1 = j
          BY <3>2, <4>1
        <5>2. batch'[j - 1] = batch[j]
          BY <3>2, <5>1
        <5> QED BY <3>1, <3>3, <5>1, <5>2 DEF NoListAfter
      <4> QED BY <4>1 DEF NoListAfter
    <3>4. NoListAfter(queue, 0)' <=> NoListAfter(queue, 0)
      BY <3>1 DEF NoListAfter
    <3>5. \A i \in 1..Len(queue') : NoListAfter(queue, i)' <=> NoListAfter(queue, i)
      BY <3>1 DEF NoListAfter
    <3> QED BY <2>1, <3>1, <3>2, <3>3, <3>4, <3>5 DEF LastParked
  <2>4. CASE ~TakeBatch /\ ~ReplayEvent
    <3>1. queue' \in {queue, <<>>} /\ batch' = batch /\ epoch' = epoch
          /\ (queue' # queue => step = "state")
      BY <1>3, <2>4
      DEF Run, TimerFires, StateProbed, Enter, AccessRefreshed, ProposalsFlushed,
          RevisionsRecovered, SnapshotsRefreshed, ReplayEnds, actorVars
    <3>2. CASE queue' = queue
      BY <2>1, <3>1, <3>2 DEF LastParked, NoListAfter
    <3>3. CASE queue' # queue
      <4>1. \A i \in 1..Len(queue') : FALSE
        BY <3>1, <3>3
      <4>2. batch' = <<>>
        BY <3>1, <3>3 DEF Parking, BatchOwn
      <4>3. \A i \in 1..Len(batch') : FALSE
        BY <4>2
      <4> QED BY <4>1, <4>3 DEF LastParked
    <3> QED BY <3>2, <3>3
  <2> QED BY <2>2, <2>3, <2>4
<1>4. CASE Arrival
  <2>1. /\ Head(wire) = wire[1] /\ 1 \in 1..Len(wire) /\ connected
        /\ UNCHANGED <<batch, epoch, signedIn, step>>
    BY <1>4, ArrivalTakes, ArrivalBound
  <2>2. ~IsKind(1, "list") => g[0] = h[0]
    BY <1>4, <2>1, FirstFrame
  <2>3. CASE ParkEvent
    <3>1. /\ queue' = Append(queue, [kind |-> wire[1].kind, n |-> wire[1].n, epoch |-> epoch])
          /\ wire[1].kind \in {"list", "post"}
      BY <2>1, <2>3 DEF ParkEvent, IsEvent
    <3>2. [kind |-> wire[1].kind, n |-> wire[1].n, epoch |-> epoch] \in Events
      BY <2>1, <3>1, FrameKinds DEF Events, Types
    <3>3. /\ Len(queue) \in Nat /\ Len(queue') = Len(queue) + 1
          /\ \A i \in 1..Len(queue) : queue'[i] = queue[i]
          /\ queue'[Len(queue) + 1] = [kind |-> wire[1].kind, n |-> wire[1].n, epoch |-> epoch]
      BY <3>1, <3>2, Appended DEF Types
    <3>4. \A i \in 1..Len(queue') : i = Len(queue) + 1 \/ (i \in 1..Len(queue) /\ queue'[i] = queue[i])
      BY <3>3
    <3>5. Len(queue) + 1 \in 1..Len(queue') /\ 0 < Len(queue) + 1 /\ \A i \in 1..Len(queue) : i < Len(queue) + 1
      BY <3>3
    <3>6. CASE wire[1].kind = "list"
      <4>1. g[0] = wire[1].n
        BY <1>4, <2>1, <3>6, FirstFrame DEF IsKind
      <4>2. ~NoListAfter(queue, 0)' /\ \A i \in 1..Len(queue) : ~NoListAfter(queue, i)'
        BY <2>1, <3>3, <3>5, <3>6 DEF NoListAfter
      <4> QED BY <3>3, <3>4, <4>1, <4>2 DEF LastParked
    <3>7. CASE wire[1].kind = "post"
      <4>1. g[0] = h[0]
        BY <2>2, <3>7 DEF IsKind
      <4>2. ASSUME NEW i \in 0..Len(queue) PROVE NoListAfter(queue, i)' => NoListAfter(queue, i)
        <5>1. \A j \in 1..Len(queue) : j \in 1..Len(queue') /\ queue'[j] = queue[j]
          BY <3>3
        <5> QED BY <2>1, <5>1 DEF NoListAfter
      <4>3. \A i \in 1..Len(batch') : NoListAfter(batch, i)' => NoListAfter(batch, i)
        BY <2>1 DEF NoListAfter
      <4>4. 0 \in 0..Len(queue) /\ \A i \in 1..Len(queue) : i \in 0..Len(queue)
        BY <3>3
      <4>5. queue'[Len(queue) + 1].kind # "list"
        BY <3>3, <3>7
      <4> QED BY <2>1, <3>4, <4>1, <4>2, <4>3, <4>4, <4>5 DEF LastParked
    <3> QED BY <3>1, <3>6, <3>7
  <2>4. CASE ~ParkEvent
    <3>1. queue' = queue
      BY <1>4, <2>4
      DEF Arrival, HandleAuthenticated, HandleResubscribe, HandleAnswer, IgnoreEvent, ApplyEvent,
          FailEvent, coordVars
    <3>2. CASE ~IsKind(1, "list")
      BY <2>1, <2>2, <3>1, <3>2 DEF LastParked, NoListAfter
    <3>3. CASE IsKind(1, "list")
      <4>1. phase = "idle" \/ ~signedIn
        BY <1>4, <2>1, <2>4, <3>3
        DEF Arrival, HandleAuthenticated, HandleResubscribe, HandleAnswer, IgnoreEvent, ApplyEvent,
            FailEvent, Arrives, IsKind
      <4>2. NoListAfter(queue, 0) /\ NoListAfter(batch, 0)
        BY <4>1, EmptyParked DEF Parking, QueueOwn
      <4>3. (NoListAfter(queue, 0) /\ NoListAfter(batch, 0))'
        BY <2>1, <3>1, <4>2 DEF NoListAfter
      <4> QED BY <4>3, NothingLast DEF Parking
    <3> QED BY <3>2, <3>3
  <2> QED BY <2>3, <2>4
<1>5. CASE ChangeList /\ channels = NoBinding
  <2>1. UNCHANGED <<connected, queue, batch, epoch>>
    BY <1>5 DEF ChangeList, actorVars, coordVars, runVars
  <2>2. (NoListAfter(queue, 0) /\ NoListAfter(batch, 0))'
    BY <1>1, <1>5, <2>1 DEF Parking, NoneParked, NoListAfter
  <2> QED BY <2>2, NothingLast DEF Parking
<1>6. CASE /\ ChangeList \/ ChangePost \/ Serve \/ RefreshFails \/ Waits \/ UNCHANGED vars
           /\ ~Arrival /\ ~(ChangeList /\ channels = NoBinding)
  <2>1. UNCHANGED <<connected, queue, batch, epoch>>
    BY <1>6
    DEF ChangeList, ChangePost, Serve, Authenticate, Answer, RefreshFails, Waits, vars, socketVars,
        actorVars, coordVars, runVars
  <2>2. ~Disconnect
    BY <1>1 DEF Disconnect
  <2> QED BY <1>1, <1>6, <2>1, <2>2 DEF LastParked, NoListAfter
<1>7. ~Disconnect
  BY <1>1 DEF Disconnect
<1> QED BY <1>2, <1>3, <1>4, <1>5, <1>6, <1>7 DEF Next, Handle, Arrival

LEMMA ListParkedStays ==
    ASSUME Types, Parking, ListParked, Live, Live', [Next]_vars, ~ReplayEvent
    PROVE  ListParked'
<1>1. CASE ParkEvent
  <2>1. /\ queue' = Append(queue, [kind |-> Head(wire).kind, n |-> Head(wire).n, epoch |-> epoch])
        /\ UNCHANGED <<batch, epoch>>
    BY <1>1 DEF ParkEvent, actorVars, runVars
  <2>2. [kind |-> Head(wire).kind, n |-> Head(wire).n, epoch |-> epoch] \in Events
    <3>1. Head(wire) = wire[1] /\ 1 \in 1..Len(wire)
      BY <1>1, ArrivalTakes DEF Arrival
    <3> QED BY <1>1, <3>1, FrameKinds DEF ParkEvent, IsEvent, Events, Types
  <2>3. \A i \in 1..Len(queue) : i \in 1..Len(queue') /\ queue'[i] = queue[i]
    <3>1. /\ Len(queue) \in Nat /\ Len(queue') = Len(queue) + 1
          /\ \A i \in 1..Len(queue) : queue'[i] = queue[i]
      BY <2>1, <2>2, Appended DEF Types
    <3> QED BY <3>1
  <2> QED BY <2>1, <2>3 DEF ListParked, NoListAfter
<1>2. CASE TakeBatch
  <2>1. batch = <<>> /\ batch' = queue /\ epoch' = epoch
    BY <1>2 DEF TakeBatch, actorVars
  <2>2. \A i \in 1..Len(batch) : FALSE
    BY <2>1
  <2> QED BY <2>1, <2>2 DEF ListParked, NoListAfter
<1>3. CASE Run /\ ~TakeBatch
  <2>1. UNCHANGED <<queue, batch, epoch>>
    BY <1>3
    DEF Live, Run, TimerFires, StateProbed, Enter, AccessRefreshed, ProposalsFlushed,
        RevisionsRecovered, SnapshotsRefreshed, ReplayEnds, actorVars
  <2> QED BY <2>1 DEF ListParked, NoListAfter
<1>4. CASE ~Run /\ ~ParkEvent
  <2>1. UNCHANGED <<queue, batch, epoch>>
    <3>1. CASE Handle
      BY <1>4, <3>1
      DEF Handle, HandleAuthenticated, HandleResubscribe, HandleAnswer, IgnoreEvent, ApplyEvent,
          FailEvent, RefreshFails, actorVars, coordVars, runVars
    <3>2. CASE ChangeList \/ ChangePost \/ Serve \/ Waits \/ UNCHANGED vars
      BY <3>2
      DEF ChangeList, ChangePost, Serve, Authenticate, Answer, Waits, vars, actorVars, coordVars,
          runVars
    <3>3. ~Connect /\ ~Disconnect /\ ~SignOut /\ ~SignIn
      BY DEF Connect, Disconnect, SignOut, SignIn, Live
    <3> QED BY <1>4, <3>1, <3>2, <3>3 DEF Next
  <2> QED BY <2>1 DEF ListParked, NoListAfter
<1> QED BY <1>1, <1>2, <1>3, <1>4 DEF Run

LEMMA ListCurrentNext ==
    ASSUME Admits = {}, Types, Types', Links, Parking, Bounded, Unbound, [Next]_vars,
           NEW h, NEW p, Numbered(h, p), LastParked(h), ListCurrent(h), NEW g,
           Arrival => g[0] = h[1],
           ~Arrival /\ ~Disconnect /\ ~(ChangeList /\ channels = NoBinding) => g[0] = h[0]
    PROVE  ListCurrent(g)'
<1>1. SUFFICES ASSUME Live' PROVE ListAhead' \/ ListParked' \/ myList' = g[0]
  BY DEF ListCurrent
<1>2. CASE ~Live
  BY <1>1, <1>2, Awakes, Begins
<1>3. CASE Live /\ ChangeList /\ channels = NoBinding
  BY <1>1, <1>3, AgainAhead, RestAhead DEF Unbound
<1>4. CASE Live /\ Arrival
  <2>1. 1 \in 1..Len(wire) /\ Head(wire) = wire[1] /\ UNCHANGED <<batch, epoch, signedIn>>
    BY <1>4, ArrivalTakes
  <2>2. g[0] = h[1] /\ (~IsKind(1, "list") => g[0] = h[0])
    BY <1>4, <2>1, FirstFrame
  <2>3. CASE HandleAnswer /\ Fits(1) /\ IsAnswer(1, "access")
    BY <1>4, <2>2, <2>3, ListStored DEF Types
  <2>4. CASE ParkEvent /\ IsKind(1, "list")
    <3>1. queue' = Append(queue, [kind |-> wire[1].kind, n |-> wire[1].n, epoch |-> epoch])
      BY <2>1, <2>4 DEF ParkEvent
    <3>2. [kind |-> wire[1].kind, n |-> wire[1].n, epoch |-> epoch] \in Events
      BY <2>1, <2>4, FrameKinds DEF Events, Types, IsKind
    <3>3. /\ Len(queue) + 1 \in 1..Len(queue') /\ 0 < Len(queue) + 1
          /\ queue'[Len(queue) + 1] = [kind |-> wire[1].kind, n |-> wire[1].n, epoch |-> epoch]
      <4>1. /\ Len(queue) \in Nat /\ Len(queue') = Len(queue) + 1
            /\ queue'[Len(queue) + 1] = [kind |-> wire[1].kind, n |-> wire[1].n, epoch |-> epoch]
        BY <3>1, <3>2, Appended DEF Types
      <4> QED BY <4>1
    <3> QED BY <2>1, <2>4, <3>3 DEF ListParked, NoListAfter, IsKind
  <2>5. CASE ApplyEvent /\ IsKind(1, "list")
    <3>1. myList' = wire[1].n
      BY <2>1, <2>5 DEF ApplyEvent, Writes, IsKind
    <3> QED BY <2>1, <2>2, <2>5, <3>1, FirstFrame
  <2>6. CASE FailEvent
    BY <1>1, <2>6, Begins
  <2>7. CASE ~FailEvent /\ ~IsKind(1, "list") /\ ~(HandleAnswer /\ Fits(1) /\ IsAnswer(1, "access"))
    <3>1. myList' = myList
      <4>1. CASE HandleAnswer
        BY <2>7, <4>1, ListStored
      <4>2. CASE ~HandleAnswer
        BY <1>4, <2>1, <2>7, <4>2
        DEF Arrival, HandleAuthenticated, HandleResubscribe, IgnoreEvent, ApplyEvent,
            ParkEvent, Writes, IsKind, diskVars
      <4> QED BY <4>1, <4>2
    <3>2. ~ReplayEvent
      <4>1. ReplayEvent => wire' = wire
        BY DEF ReplayEvent, socketVars
      <4>2. Len(wire') = Len(wire) - 1 /\ Len(wire) \in Nat
        BY <1>4, ArrivalTakes
      <4> QED BY <4>1, <4>2
    <3>3. ListAhead => ListAhead'
      BY <1>4, <2>7, ArrivalAhead
    <3>4. ListParked => ListParked'
      BY <1>1, <1>4, <3>2, ListParkedStays
    <3> QED BY <1>4, <2>2, <2>7, <3>1, <3>3, <3>4 DEF ListCurrent
  <2>8. IsKind(1, "list") => ApplyEvent \/ FailEvent \/ ParkEvent
    BY <1>4, <2>1
    DEF Arrival, HandleAuthenticated, HandleResubscribe, HandleAnswer, IgnoreEvent, Arrives,
        IsKind, Live
  <2> QED BY <2>3, <2>4, <2>5, <2>6, <2>7, <2>8
<1>5. CASE Live /\ ReplayEvent
  <2>1. /\ batch # <<>> /\ batch' = Tail(batch)
        /\ UNCHANGED <<queue, epoch, timer, step, request, wire, list, connected>>
    BY <1>5 DEF ReplayEvent, coordVars, actorVars, socketVars, serverVars
  <2>2. /\ Len(batch) \in Nat \ {0} /\ Len(batch') = Len(batch) - 1 /\ Head(batch) = batch[1]
        /\ \A i \in 1..(Len(batch) - 1) : batch'[i] = batch[i + 1]
    BY <2>1, Taken DEF Types
  <2>3. g[0] = h[0]
    <3>1. ~Arrival
      <4>1. Arrival => Len(wire') = Len(wire) - 1 /\ Len(wire) \in Nat
        BY ArrivalTakes
      <4> QED BY <2>1, <4>1
    <3>2. ~ChangeList
      BY <2>1 DEF ChangeList, Types
    <3>3. ~Disconnect
      BY <1>1 DEF Disconnect, Live
    <3> QED BY <3>1, <3>2, <3>3
  <2>4. ListAhead => ListAhead'
    BY <2>1 DEF ListAhead, UnderWay, OpenRequest
  <2>5. ASSUME NEW j \in 2..Len(batch), batch[j].kind = "list", batch[j].epoch = epoch
        PROVE  ListParked'
    <3>1. j - 1 \in 1..Len(batch') /\ 0 < j - 1 /\ (j - 1) + 1 = j
      BY <2>2
    <3>2. batch'[j - 1] = batch[j]
      BY <2>2, <3>1
    <3> QED BY <2>1, <2>5, <3>1, <3>2 DEF ListParked, NoListAfter
  <2>6. ~NoListAfter(queue, 0) => ListParked'
    BY <2>1 DEF ListParked, NoListAfter
  <2>7. CASE batch[1].kind = "list" /\ batch[1].epoch = epoch
    <3>1. myList' = batch[1].n
      BY <1>5, <2>2, <2>7 DEF ReplayEvent, IsCurrent, Writes
    <3>2. NoListAfter(batch, 1) /\ NoListAfter(queue, 0) => batch[1].n = h[0]
      BY <1>5, <2>2, <2>7 DEF LastParked, Live
    <3>3. ~NoListAfter(batch, 1) => ListParked'
      <4>1. \A j \in 1..Len(batch) : 1 < j => j \in 2..Len(batch)
        OBVIOUS
      <4> QED BY <2>5, <4>1 DEF NoListAfter
    <3> QED BY <2>3, <2>6, <3>1, <3>2, <3>3
  <2>8. CASE ~(batch[1].kind = "list" /\ batch[1].epoch = epoch)
    <3>1. myList' = myList
      BY <1>5, <2>2, <2>8 DEF ReplayEvent, IsCurrent, Writes, diskVars
    <3>2. ~NoListAfter(batch, 0) => ListParked'
      <4>1. \A j \in 1..Len(batch) : j = 1 \/ j \in 2..Len(batch)
        OBVIOUS
      <4> QED BY <2>5, <2>8, <4>1 DEF NoListAfter
    <3> QED BY <1>5, <2>3, <2>4, <2>6, <3>1, <3>2 DEF ListCurrent, ListParked
  <2> QED BY <2>7, <2>8
<1>6. CASE Live /\ ~Arrival /\ ~ReplayEvent /\ ~(ChangeList /\ channels = NoBinding)
  <2>1. g[0] = h[0]
    BY <1>1, <1>6 DEF Disconnect, Live
  <2>2. ListParked => ListParked'
    BY <1>1, <1>6, ListParkedStays
  <2>3. ListAhead => ListAhead'
    <3>1. CASE Run
      BY <1>6, <3>1, RunAhead
    <3>2. CASE ~Run
      BY <1>1, <1>6, <3>2, RestAhead DEF Next, Handle, Arrival
    <3> QED BY <3>1, <3>2
  <2>4. myList' = myList
    <3>1. CASE ChangeList \/ ChangePost \/ Serve \/ RefreshFails
      BY <3>1 DEF ChangeList, ChangePost, Serve, Authenticate, Answer, RefreshFails, diskVars
    <3>2. CASE Run
      BY <1>6, <3>2
      DEF Run, TimerFires, StateProbed, Enter, AccessRefreshed, ProposalsFlushed,
          RevisionsRecovered, SnapshotsRefreshed, TakeBatch, ReplayEnds, diskVars
    <3>3. CASE Connect \/ Disconnect \/ SignOut \/ SignIn \/ Waits \/ UNCHANGED vars
      BY <3>3 DEF Connect, Disconnect, SignOut, SignIn, Waits, vars, diskVars
    <3> QED BY <1>6, <3>1, <3>2, <3>3 DEF Next, Handle, Arrival
  <2> QED BY <1>6, <2>1, <2>2, <2>3, <2>4 DEF ListCurrent
<1> QED BY <1>2, <1>3, <1>4, <1>5, <1>6


-----------------------------------------------------------------------------
(***************************************************************************)
(* The posts a client holds, or has parked, are all those it was sent.     *)
(***************************************************************************)
\* A post that is stored or parked goes no further than from the batch to the disk.
LEMMA HeldStays ==
    ASSUME Types, Parking, Live, Live', [Next]_vars, NEW n, n \in myPosts \/ Parked("post", n)
    PROVE  n \in myPosts' \/ Parked("post", n)'
<1>1. CASE n \in myPosts
  <2>1. CASE Run
    BY <1>1, <2>1
    DEF Run, TimerFires, StateProbed, Enter, AccessRefreshed, ProposalsFlushed,
        RevisionsRecovered, SnapshotsRefreshed, TakeBatch, ReplayEvent, ReplayEnds, Writes, diskVars
  <2>2. CASE Handle
    BY <1>1, <2>2
    DEF Handle, HandleAuthenticated, HandleResubscribe, HandleAnswer, IgnoreEvent, ApplyEvent,
        FailEvent, ParkEvent, RefreshFails, Writes, diskVars
  <2>3. CASE ~Run /\ ~Handle
    <3>1. myPosts' = myPosts
      BY <2>3
      DEF Next, ChangeList, ChangePost, Serve, Authenticate, Answer, Connect, Disconnect, SignOut,
          SignIn, Waits, vars, diskVars
    <3> QED BY <1>1, <3>1
  <2> QED BY <2>1, <2>2, <2>3
<1>2. CASE Parked("post", n) /\ ParkEvent
  <2>1. /\ queue' = Append(queue, [kind |-> Head(wire).kind, n |-> Head(wire).n, epoch |-> epoch])
        /\ UNCHANGED <<batch, epoch>>
    BY <1>2 DEF ParkEvent, actorVars, runVars
  <2>2. [kind |-> Head(wire).kind, n |-> Head(wire).n, epoch |-> epoch] \in Events
    <3>1. Head(wire) = wire[1] /\ 1 \in 1..Len(wire)
      BY <1>2, ArrivalTakes DEF Arrival
    <3> QED BY <1>2, <3>1, FrameKinds DEF ParkEvent, IsEvent, Events, Types
  <2>3. \A i \in 1..Len(queue) : i \in 1..Len(queue') /\ queue'[i] = queue[i]
    <3>1. /\ Len(queue) \in Nat /\ Len(queue') = Len(queue) + 1
          /\ \A i \in 1..Len(queue) : queue'[i] = queue[i]
      BY <2>1, <2>2, Appended DEF Types
    <3> QED BY <3>1
  <2> QED BY <1>2, <2>1, <2>3 DEF Parked, ParkedIn
<1>3. CASE Parked("post", n) /\ TakeBatch
  <2>1. batch = <<>> /\ batch' = queue /\ epoch' = epoch
    BY <1>3 DEF TakeBatch, actorVars
  <2>2. \A i \in 1..Len(batch) : FALSE
    BY <2>1
  <2> QED BY <1>3, <2>1, <2>2 DEF Parked, ParkedIn
<1>4. CASE Parked("post", n) /\ ReplayEvent
  <2>1. batch # <<>> /\ batch' = Tail(batch) /\ UNCHANGED <<queue, epoch>>
    BY <1>4 DEF ReplayEvent, coordVars, actorVars
  <2>2. /\ Len(batch) \in Nat \ {0} /\ Len(batch') = Len(batch) - 1 /\ Head(batch) = batch[1]
        /\ \A i \in 1..(Len(batch) - 1) : batch'[i] = batch[i + 1]
    BY <2>1, Taken DEF Types
  <2>3. CASE ParkedIn(queue, "post", n)
    BY <2>1, <2>3 DEF Parked, ParkedIn
  <2>4. CASE ParkedIn(batch, "post", n)
    <3>1. PICK i \in 1..Len(batch) :
            batch[i].kind = "post" /\ batch[i].n = n /\ batch[i].epoch = epoch
      BY <2>4 DEF ParkedIn
    <3>2. CASE i = 1
      BY <1>4, <2>2, <3>1, <3>2 DEF ReplayEvent, IsCurrent, Writes
    <3>3. CASE i # 1
      <4>1. i - 1 \in 1..Len(batch') /\ (i - 1) + 1 = i
        BY <2>2, <3>3
      <4>2. batch'[i - 1] = batch[i]
        BY <2>2, <4>1
      <4> QED BY <2>1, <3>1, <4>1, <4>2 DEF Parked, ParkedIn
    <3> QED BY <3>2, <3>3
  <2> QED BY <1>4, <2>3, <2>4 DEF Parked
<1>5. CASE Parked("post", n) /\ ~ParkEvent /\ ~TakeBatch /\ ~ReplayEvent
  <2>1. UNCHANGED <<queue, batch, epoch>>
    <3>1. CASE Run
      BY <1>5, <3>1
      DEF Live, Run, TimerFires, StateProbed, Enter, AccessRefreshed, ProposalsFlushed,
          RevisionsRecovered, SnapshotsRefreshed, ReplayEnds, actorVars
    <3>2. CASE Handle
      BY <1>5, <3>2
      DEF Handle, HandleAuthenticated, HandleResubscribe, HandleAnswer, IgnoreEvent, ApplyEvent,
          FailEvent, RefreshFails, actorVars, coordVars, runVars
    <3>3. CASE ChangeList \/ ChangePost \/ Serve \/ Waits \/ UNCHANGED vars
      BY <3>3
      DEF ChangeList, ChangePost, Serve, Authenticate, Answer, Waits, vars, actorVars, coordVars,
          runVars
    <3>4. ~Connect /\ ~Disconnect /\ ~SignOut /\ ~SignIn
      BY DEF Connect, Disconnect, SignOut, SignIn, Live
    <3> QED BY <3>1, <3>2, <3>3, <3>4 DEF Next
  <2> QED BY <1>5, <2>1 DEF Parked, ParkedIn
<1> QED BY <1>1, <1>2, <1>3, <1>4, <1>5

LEMMA PostsCurrentNext ==
    ASSUME Admits = {}, Types, Types', Links, Parking, Bounded, ListKnown, Unbound, Unjoined,
           [Next]_vars, NEW h, NEW p, Numbered(h, p), JoinAhead(h), PostsCurrent(p),
           StaleAnswers(p), NEW q, Arrival => q[0] = p[1],
           ~Arrival /\ ~Disconnect /\ ~(ChangePost /\ ~(channels > 0)) => q[0] = p[0]
    PROVE  PostsCurrent(q)'
<1>1. SUFFICES ASSUME Live'
               PROVE  PostsAhead' \/ \A n \in 1..q[0] : n \in myPosts' \/ Parked("post", n)'
  BY DEF PostsCurrent
<1>2. CASE ~Live
  BY <1>1, <1>2, Awakes, Begins
<1>3. CASE Live /\ ChangePost /\ ~(channels > 0)
  <2>1. PostsAhead
    <3>1. channels = NoBinding \/ (channels = 0 /\ list > 0)
      BY <1>3 DEF ChangePost, Types
    <3>2. CASE channels = NoBinding
      BY <1>3, <3>2, AgainAhead DEF Unbound
    <3>3. CASE channels = 0 /\ list > 0
      BY <1>3, <3>3, AgainAhead
      DEF Unjoined, ToRejoin, Rejoining, Live, PostsAhead, Resubscribes
    <3> QED BY <3>1, <3>2, <3>3
  <2> QED BY <1>1, <1>3, <2>1, RestAhead
<1>4. CASE Live /\ ProposalsFlushed
  <2>1. Enter("revisions") /\ step = "proposals" /\ "revisions" \in Steps \ {"none", "state"}
    BY <1>4 DEF ProposalsFlushed, Steps
  <2>2. ~OpenRequest("run")
    BY <2>1, RunIsOpen DEF Links
  <2>3. /\ timer' = timer /\ request'["refresh"] = request["refresh"] /\ wire' = wire
        /\ myList # 0 => PostsAhead'
    BY <1>4, <2>1, <2>2, EnterAhead
  <2>4. CASE myList = 0 /\ list > 0
    <3>1. ListAhead \/ Resubscribes
      BY <1>4, <2>4 DEF ListKnown
    <3>2. Resubscribes => Resubscribes'
      BY <2>3 DEF Resubscribes, IsKind
    <3> QED BY <2>1, <2>2, <2>3, <3>1, <3>2 DEF ListAhead, PostsAhead, UnderWay, OpenRequest
  <2>5. CASE list = 0
    <3>1. p[0] = 0
      <4>1. posts = 0 /\ 0 \in 0..Len(wire)
        BY <2>5 DEF Bounded, Types
      <4> QED BY <4>1 DEF Numbered
    <3>2. q[0] = p[0]
      <4>1. Arrival => Len(wire') = Len(wire) - 1 /\ Len(wire) \in Nat
        BY ArrivalTakes
      <4>2. ~Disconnect /\ ~ChangePost
        BY <1>1, <2>5 DEF Disconnect, Live, ChangePost
      <4> QED BY <2>3, <4>1, <4>2
    <3> QED BY <3>1, <3>2
  <2> QED BY <2>3, <2>4, <2>5 DEF Types
<1>5. CASE Live /\ HandleAnswer /\ Fits(1)
  <2>1. /\ Arrival /\ 1 \in 1..Len(wire) /\ Head(wire) = wire[1] /\ step' = step
        /\ \A i \in 2..Len(wire) : i - 1 \in 1..Len(wire') /\ wire[i] = wire'[i - 1]
    <3>1. Arrival
      BY <1>5 DEF Arrival
    <3> QED BY <3>1, ArrivalTakes
  <2>2. q[0] = p[1] /\ p[1] \in 0..posts /\ p[1] \in Int
    BY <2>1, FirstFrame
  <2>3. /\ wire[1].to \in Callers /\ request[wire[1].to] = wire[1].request /\ wire[1].n \in Nat
        /\ OpenRequest(wire[1].to) /\ wire[1].request.for \in {"access", "revisions"}
    <3>1. wire[1].to \in Callers /\ wire[1].request \in Requests /\ wire[1].n \in Nat
      BY <1>5, <2>1, FrameKinds DEF Fits
    <3>2. OpenRequest(wire[1].to)
      BY <2>1, <1>5, ArrivalBound
    <3> QED BY <1>5, <3>1, <3>2 DEF Fits, Links, OwnRequests, Requests
  <2>4. CASE wire[1].request.for = "access" /\ wire[1].to = "run"
    BY <2>1, <2>3, <2>4 DEF Links, OwnRequests, PostsAhead
  <2>5. CASE wire[1].request.for = "access" /\ wire[1].to = "refresh"
    <3>1. request'["refresh"] = Ask("revisions", TRUE, epoch, wire[1].n)
      BY <1>5, <2>1, <2>3, <2>5 DEF HandleAnswer, Types
    <3>2. CASE wire[1].n # 0
      BY <3>1, <3>2 DEF Ask, PostsAhead, UnderWay, OpenRequest
    <3>3. CASE wire[1].n = 0 /\ list = 0
      BY <2>2, <3>3 DEF Bounded
    <3>4. CASE wire[1].n = 0 /\ list > 0
      <4>1. h[1] = 0
        BY <1>5, <2>1, <2>5, <3>4, FirstFrame DEF IsAnswer, Fits
      <4>2. PICK j \in 1..Len(wire) : 1 < j /\ IsKind(j, "resubscribe")
        BY <2>1, <3>4, <4>1 DEF JoinAhead
      <4>3. j \in 2..Len(wire)
        BY <4>2
      <4>4. Resubscribes'
        BY <2>1, <4>2, <4>3 DEF Resubscribes, IsKind
      <4> QED BY <4>4 DEF PostsAhead
    <3>5. list = 0 \/ list > 0
      BY DEF Types
    <3> QED BY <3>2, <3>3, <3>4, <3>5
  <2>6. CASE wire[1].request.for = "revisions"
    <3>1. CASE wire[1].n < p[1]
      <4>1. Excused(1)
        BY <1>5, <2>1, <2>6, <3>1 DEF StaleAnswers, IsAnswer, Fits
      <4>2. Again
        BY <4>1 DEF Excused
      <4>3. Again'
        BY <1>5, <2>1, <4>2, ArrivalAhead
      <4> QED BY <4>3 DEF Again, PostsAhead
    <3>2. CASE ~(wire[1].n < p[1])
      <4>1. wire[1].n <= p[1]
        BY <1>5, <2>1, <2>6, FirstFrame DEF IsAnswer, Fits
      <4>2. wire[1].n = p[1]
        BY <2>2, <2>3, <3>2, <4>1
      <4>3. myPosts' = myPosts \cup 1..wire[1].n
        BY <1>5, <2>1, <2>3, <2>6 DEF HandleAnswer
      <4> QED BY <2>2, <4>2, <4>3
    <3> QED BY <3>1, <3>2
  <2> QED BY <2>3, <2>4, <2>5, <2>6 DEF Callers
<1>6. CASE Live /\ Arrival /\ ~(HandleAnswer /\ Fits(1))
  <2>1. /\ 1 \in 1..Len(wire) /\ Head(wire) = wire[1] /\ signedIn /\ UNCHANGED <<batch, epoch>>
    BY <1>6, ArrivalTakes DEF Live
  <2>2. q[0] = p[1] /\ p[1] \in Int /\ p[0] \in Int
    BY <1>6, <2>1, FirstFrame
  <2>3. CASE PostsAhead
    BY <1>6, <2>3, ArrivalAhead
  <2>4. CASE ~PostsAhead
    <3>1. \A n \in 1..p[0] : n \in myPosts' \/ Parked("post", n)'
      BY <1>1, <1>6, <2>4, HeldStays DEF PostsCurrent
    <3>2. CASE ~IsKind(1, "post")
      BY <2>1, <2>2, <3>1, <3>2, FirstFrame
    <3>3. CASE IsKind(1, "post")
      <4>1. wire[1].n = p[1] /\ p[1] = p[0] + 1
        BY <2>1, <3>3, FirstFrame
      <4>2. \A n \in 1..p[1] : n = p[1] \/ n \in 1..p[0]
        BY <2>2, <4>1
      <4>3. ApplyEvent \/ FailEvent \/ ParkEvent
        BY <1>6, <2>1, <3>3
        DEF Arrival, HandleAuthenticated, HandleResubscribe, HandleAnswer, IgnoreEvent, Arrives,
            IsKind
      <4>4. CASE FailEvent
        BY <1>1, <4>4, Begins
      <4>5. CASE ApplyEvent
        <5>1. wire[1].n \in myPosts'
          BY <2>1, <3>3, <4>5 DEF ApplyEvent, Writes, IsKind
        <5> QED BY <2>2, <3>1, <4>1, <4>2, <5>1
      <4>6. CASE ParkEvent
        <5>1. queue' = Append(queue, [kind |-> wire[1].kind, n |-> wire[1].n, epoch |-> epoch])
          BY <2>1, <4>6 DEF ParkEvent
        <5>2. [kind |-> wire[1].kind, n |-> wire[1].n, epoch |-> epoch] \in Events
          BY <2>1, <3>3, FrameKinds DEF Events, Types, IsKind
        <5>3. /\ Len(queue) + 1 \in 1..Len(queue')
              /\ queue'[Len(queue) + 1] = [kind |-> wire[1].kind, n |-> wire[1].n, epoch |-> epoch]
          <6>1. /\ Len(queue) \in Nat /\ Len(queue') = Len(queue) + 1
                /\ queue'[Len(queue) + 1] = [kind |-> wire[1].kind, n |-> wire[1].n, epoch |-> epoch]
            BY <5>1, <5>2, Appended DEF Types
          <6> QED BY <6>1
        <5>4. \A n : n = wire[1].n => Parked("post", n)'
          BY <2>1, <3>3, <5>3 DEF Parked, ParkedIn, IsKind
        <5> QED BY <2>2, <3>1, <4>1, <4>2, <5>4
      <4> QED BY <4>3, <4>4, <4>5, <4>6
    <3> QED BY <3>2, <3>3
  <2> QED BY <2>3, <2>4
<1>7. CASE Live /\ ~Arrival /\ ~ProposalsFlushed /\ ~(ChangePost /\ ~(channels > 0))
  <2>1. q[0] = p[0]
    BY <1>1, <1>7 DEF Disconnect, Live
  <2>2. PostsAhead => PostsAhead'
    <3>1. CASE Run
      BY <1>7, <3>1, RunAhead
    <3>2. CASE ~Run
      BY <1>1, <1>7, <3>2, RestAhead DEF Next, Handle, Arrival
    <3> QED BY <3>1, <3>2
  <2>3. ~PostsAhead => \A n \in 1..p[0] : n \in myPosts' \/ Parked("post", n)'
    BY <1>1, <1>7, HeldStays DEF PostsCurrent
  <2> QED BY <2>1, <2>2, <2>3
<1> QED BY <1>2, <1>3, <1>4, <1>5, <1>6, <1>7

-----------------------------------------------------------------------------
(***************************************************************************)
(* An answer about posts that is overtaken is made up for.                 *)
(***************************************************************************)
\* An answer that fits is awaited, so the client is connected and signed in.
LEMMA FitsAwaited ==
    ASSUME Types, Links, NEW i \in 1..Len(wire), IsKind(i, "answer")
    PROVE  /\ wire[i].to \in Callers /\ wire[i].request.state = "answered"
           /\ Fits(i) => Live /\ request[wire[i].to].state = "answered"
<1>1. wire[i].to \in Callers /\ wire[i].request.state = "answered"
  BY FrameKinds DEF Links, AnswersFit, IsKind
<1> QED BY <1>1 DEF Links, LinkDown, SignedOut, Fits, OpenRequest, Live

LEMMA QuietStale ==
    ASSUME Admits = {}, Types, Links, Quiet, NEW p, StaleAnswers(p)
    PROVE  StaleAnswers(p)'
<1>1. wire' = wire
  BY QuietKeeps
<1>2. SUFFICES ASSUME NEW i \in 1..Len(wire), IsAnswer(i, "revisions"), Fits(i)', wire[i].n < p[i]
               PROVE  Excused(i)'
  BY <1>1 DEF StaleAnswers, IsAnswer
<1>3. IsKind(i, "answer") /\ wire[i].to \in Callers /\ wire[i].request.state = "answered"
  BY <1>2, FitsAwaited DEF IsAnswer, IsKind
<1>4. request'[wire[i].to].state = "answered" /\ wire[i].request = request'[wire[i].to]
  BY <1>1, <1>2, <1>3 DEF Fits
<1>5. ~SignOut
  BY <1>3, <1>4, FailedTyped DEF SignOut, Types
<1>6. request'[wire[i].to] = request[wire[i].to]
  <2>1. CASE Run
    BY <1>3, <1>4, <2>1
    DEF Run, TimerFires, StateProbed, Enter, AccessRefreshed, ProposalsFlushed,
        RevisionsRecovered, SnapshotsRefreshed, TakeBatch, ReplayEvent, ReplayEnds, Types,
        Callers, Ask, NoRequest
  <2>2. CASE RefreshFails
    BY <1>3, <1>4, <2>2 DEF RefreshFails, Types, Callers, NoRequest
  <2>3. CASE SignIn
    BY <1>3, <1>4, <2>3 DEF SignIn, Types, Callers, Ask, NoRequest
  <2>4. CASE Connect \/ Waits \/ UNCHANGED vars
    BY <2>4 DEF Connect, Waits, vars, runVars
  <2> QED BY <1>5, <2>1, <2>2, <2>3, <2>4 DEF Quiet
<1>7. Fits(i) /\ Live
  BY <1>2, <1>3, <1>4, <1>6, FitsAwaited DEF Fits, IsKind
<1>8. Excused(i)
  BY <1>2, <1>7 DEF StaleAnswers
<1>9. ~Connect /\ ~SignIn
  BY <1>7 DEF Connect, SignIn, Live
<1>10. authenticated' = authenticated /\ Live'
  BY <1>5, <1>7, <1>9
  DEF Quiet, Run, TimerFires, StateProbed, Enter, AccessRefreshed, ProposalsFlushed,
      RevisionsRecovered, SnapshotsRefreshed, TakeBatch, ReplayEvent, ReplayEnds, RefreshFails,
      Waits, vars, socketVars, bindingVars, actorVars, Live
<1>11. Again => Again'
  <2>1. CASE Run
    BY <1>7, <2>1, RunAhead
  <2>2. CASE RefreshFails \/ Waits \/ UNCHANGED vars
    <3>1. UNCHANGED <<timer, step>> /\ request'["run"] = request["run"]
      BY <2>2 DEF RefreshFails, Waits, vars, Types, Callers, coordVars, runVars
    <3> QED BY <3>1 DEF Again, Asked
  <2> QED BY <1>5, <1>9, <2>1, <2>2 DEF Quiet
<1> QED BY <1>1, <1>8, <1>10, <1>11 DEF Excused, IsKind

LEMMA SentStale ==
    ASSUME Types, Types', Links, Links', Sends(1), NEW p, NEW q, StaleAnswers(p),
           \A i \in 1..Len(wire) : q[i] = p[i], authenticated' = authenticated,
           UNCHANGED <<timer, step, request>> \/ \E c \in Callers : Answer(c),
           NEW f, f = wire'[Len(wire) + 1], NEW m, m = q[Len(wire) + 1],
           f.kind = "answer" /\ f.request.for = "revisions" => ~(f.n < m)
    PROVE  StaleAnswers(q)'
<1>1. SUFFICES ASSUME NEW i \in 1..Len(wire'), IsAnswer(i, "revisions")', Fits(i)',
                      wire'[i].n < q[i]
               PROVE  Excused(i)'
  BY DEF StaleAnswers
<1>2. /\ Len(wire) \in Nat /\ Len(wire') = Len(wire) + 1
      /\ \A j \in 1..Len(wire) : j \in 1..Len(wire') /\ wire'[j] = wire[j]
  BY DEF Sends
<1>3. i \in 1..Len(wire)
  BY <1>1, <1>2 DEF IsAnswer
<1>4. IsKind(i, "answer") /\ IsAnswer(i, "revisions") /\ wire[i].n < p[i] /\ wire'[i] = wire[i]
  BY <1>1, <1>2, <1>3 DEF IsAnswer, IsKind
<1>5. wire[i].to \in Callers /\ wire[i].request = request'[wire[i].to]
  BY <1>1, <1>3, <1>4, FitsAwaited DEF Fits
<1>6. CASE UNCHANGED <<timer, step, request>>
  <2>1. Excused(i)
    BY <1>3, <1>4, <1>5, <1>6 DEF StaleAnswers, Fits, IsKind
  <2>2. Again => Again'
    BY <1>6 DEF Again, Asked
  <2>3. \A k \in 1..Len(wire') : k <= i => k \in 1..Len(wire) /\ wire'[k] = wire[k]
    BY <1>2, <1>3
  <2>4. CASE \E j \in 1..Len(wire) :
               /\ j < i /\ IsKind(j, "resubscribe")
               /\ \A k \in 1..Len(wire) : j <= k /\ k <= i => ~IsKind(k, "authenticated")
    <3>1. PICK j \in 1..Len(wire) :
               /\ j < i /\ IsKind(j, "resubscribe")
               /\ \A k \in 1..Len(wire) : j <= k /\ k <= i => ~IsKind(k, "authenticated")
      BY <2>4
    <3>2. j \in 1..Len(wire') /\ IsKind(j, "resubscribe")'
      BY <1>2, <3>1 DEF IsKind
    <3>3. \A k \in 1..Len(wire') : j <= k /\ k <= i => ~IsKind(k, "authenticated")'
      BY <2>3, <3>1 DEF IsKind
    <3> QED BY <3>1, <3>2, <3>3 DEF Excused
  <2>5. CASE /\ ~authenticated /\ Again
             /\ \A k \in 1..Len(wire) : k <= i => ~IsKind(k, "authenticated")
    BY <2>2, <2>3, <2>5 DEF Excused, IsKind
  <2> QED BY <2>1, <2>4, <2>5 DEF Excused
<1>7. ASSUME NEW c \in Callers, Answer(c) PROVE Excused(i)'
  <2>1. /\ wire'[Len(wire) + 1] =
             [kind |-> "answer", to |-> c, request |-> request'[c],
              n |-> IF request[c].for = "access" THEN list ELSE posts]
        /\ \A d \in Callers : d # c => request'[d] = request[d]
    BY <1>7, AnswerSends
  <2>2. /\ wire'[Len(wire) + 1].kind = "answer" /\ wire'[Len(wire) + 1].to = c
        /\ wire'[Len(wire) + 1].request = request'[c]
    BY <2>1
  <2>3. wire[i].to # c
    <3>1. PICK l \in 1..Len(wire') : l = Len(wire) + 1 /\ l # i
      BY <1>2, <1>3
    <3>2. Fits(l)' /\ wire'[l].to = c
      BY <2>2, <3>1 DEF Fits
    <3> QED BY <1>1, <1>4, <3>1, <3>2 DEF Links, FitOnce
  <2>4. Fits(i)
    BY <1>4, <1>5, <2>1, <2>3 DEF Fits, IsKind
  <2>5. Excused(i) /\ authenticated
    BY <1>3, <1>4, <1>7, <2>4 DEF StaleAnswers, Answer
  <2>6. \A k \in 1..Len(wire') : k <= i => k \in 1..Len(wire) /\ wire'[k] = wire[k]
    BY <1>2, <1>3
  <2> QED BY <1>2, <2>5, <2>6 DEF Excused, IsKind
<1> QED BY <1>6, <1>7

LEMMA ArrivalStale ==
    ASSUME Types, Links, Arrival, NEW p, NEW q, StaleAnswers(p),
           \A i \in 1..Len(wire') : q[i] = p[i + 1]
    PROVE  StaleAnswers(q)'
<1>1. /\ 1 \in 1..Len(wire) /\ Head(wire) = wire[1]
      /\ \A i \in 1..Len(wire') : i + 1 \in 1..Len(wire) /\ wire'[i] = wire[i + 1]
      /\ \A i \in 2..Len(wire) : i - 1 \in 1..Len(wire') /\ wire[i] = wire'[i - 1]
  BY ArrivalTakes
<1>2. SUFFICES ASSUME NEW i \in 1..Len(wire'), IsAnswer(i, "revisions")', Fits(i)',
                      wire'[i].n < q[i]
               PROVE  Excused(i)'
  BY DEF StaleAnswers
<1>3. PICK l \in 1..Len(wire) : l = i + 1 /\ wire'[i] = wire[l] /\ q[i] = p[l]
  BY <1>1
<1>4. IsKind(l, "answer") /\ IsAnswer(l, "revisions") /\ wire[l].n < p[l]
  BY <1>2, <1>3 DEF IsAnswer, IsKind
<1>5. /\ wire[l].to \in Callers /\ wire[l].request.state = "answered"
      /\ wire[l].request = request'[wire[l].to]
  BY <1>2, <1>3, <1>4, FitsAwaited DEF Fits
<1>6. Fits(l)
  <2>1. request'[wire[l].to] = request[wire[l].to]
    BY <1>5, ArrivalRequests
  <2> QED BY <1>4, <1>5, <2>1 DEF Fits, IsKind
<1>7. Excused(l) /\ Live
  BY <1>4, <1>6, FitsAwaited DEF StaleAnswers
<1>8. \A k \in 1..Len(wire') : k <= i => k + 1 <= l
  BY <1>3
<1>9. CASE \E j \in 1..Len(wire) :
             /\ j < l /\ IsKind(j, "resubscribe")
             /\ \A k \in 1..Len(wire) : j <= k /\ k <= l => ~IsKind(k, "authenticated")
  <2>1. PICK j \in 1..Len(wire) :
             /\ j < l /\ IsKind(j, "resubscribe")
             /\ \A k \in 1..Len(wire) : j <= k /\ k <= l => ~IsKind(k, "authenticated")
    BY <1>9
  <2>2. CASE j = 1
    <3>1. authenticated' = FALSE /\ timer' = TRUE
      BY <1>1, <1>7, <2>1, <2>2
      DEF Arrival, HandleAuthenticated, HandleResubscribe, HandleAnswer, IgnoreEvent, ApplyEvent,
          FailEvent, ParkEvent, Arrives, IsEvent, IsKind, Schedule, Live
    <3>2. \A k \in 1..Len(wire') : 1 <= k + 1
      OBVIOUS
    <3>3. \A k \in 1..Len(wire') : k <= i => ~IsKind(k, "authenticated")'
      BY <1>1, <1>8, <2>1, <2>2, <3>2 DEF IsKind
    <3> QED BY <3>1, <3>3 DEF Excused, Again
  <2>3. CASE j # 1
    <3>1. j \in 2..Len(wire) /\ j - 1 < i
      BY <1>3, <2>1, <2>3
    <3>2. j - 1 \in 1..Len(wire') /\ wire'[j - 1] = wire[j]
      BY <1>1, <3>1
    <3>3. \A k \in 1..Len(wire') : j - 1 <= k => j <= k + 1
      OBVIOUS
    <3>4. \A k \in 1..Len(wire') : j - 1 <= k /\ k <= i => ~IsKind(k, "authenticated")'
      BY <1>1, <1>8, <2>1, <3>3 DEF IsKind
    <3> QED BY <2>1, <3>1, <3>2, <3>4 DEF Excused, IsKind
  <2> QED BY <2>2, <2>3
<1>10. CASE /\ ~authenticated /\ Again
            /\ \A k \in 1..Len(wire) : k <= l => ~IsKind(k, "authenticated")
  <2>1. \A k \in 1..Len(wire') : k <= i => ~IsKind(k, "authenticated")'
    BY <1>1, <1>8, <1>10 DEF IsKind
  <2>2. 1 <= l
    OBVIOUS
  <2>3. ~authenticated'
    BY <1>1, <1>10, <2>2
    DEF Arrival, HandleAuthenticated, HandleResubscribe, HandleAnswer, IgnoreEvent, ApplyEvent,
        FailEvent, ParkEvent, Arrives, IsKind, bindingVars
  <2>4. Again'
    BY <1>7, <1>10, ArrivalAhead
  <2> QED BY <2>1, <2>3, <2>4 DEF Excused
<1> QED BY <1>7, <1>9, <1>10 DEF Excused

\* A change that nobody is told of, since who is told has still to join.
LEMMA UntoldStale ==
    ASSUME Types, Links, Rejoins, Unjoined, list > 0, channels \in {NoBinding, 0},
           UNCHANGED <<wire, authenticated, timer, step, request>>, NEW q
    PROVE  StaleAnswers(q)'
<1>1. SUFFICES ASSUME NEW i \in 1..Len(wire), IsAnswer(i, "revisions"), Fits(i) PROVE Excused(i)
  <2>1. \A i : Fits(i)' <=> Fits(i)
    BY DEF Fits
  <2>2. \A i : Excused(i) => Excused(i)'
    BY DEF Excused, IsKind, Again, Asked
  <2> QED BY <2>1, <2>2 DEF StaleAnswers, IsAnswer
<1>2. Live /\ ~Unanswered
  BY <1>1, FitsAwaited DEF Unanswered, IsAnswer, IsKind
<1>3. channels = 0
  <2>1. CASE channels = NoBinding
    <3>1. wire = <<>>
      BY <2>1 DEF Links, NotBound
    <3>2. \A k \in 1..Len(wire) : FALSE
      BY <3>1
    <3> QED BY <3>2
  <2> QED BY <2>1
<1>4. CASE ToRejoin
  BY <1>1, <1>4 DEF ToRejoin, Rejoins, Excused
<1>5. CASE Rejoining
  BY <1>2, <1>5 DEF Rejoining, Excused, Live
<1> QED BY <1>3, <1>4, <1>5 DEF Unjoined

-----------------------------------------------------------------------------
(***************************************************************************)
(* The numberings of the next state.                                       *)
(***************************************************************************)
LEMMA ArrivalJoin ==
    ASSUME Types, Arrival, NEW h, JoinAhead(h), NEW g, \A i \in 0..Len(wire') : g[i] = h[i + 1]
    PROVE  JoinAhead(g)'
<1>1. /\ list' = list /\ Len(wire) \in Nat /\ Len(wire') = Len(wire) - 1
      /\ \A i \in 2..Len(wire) : i - 1 \in 1..Len(wire') /\ wire[i] = wire'[i - 1]
  BY ArrivalTakes
<1>2. SUFFICES ASSUME list > 0, NEW i \in 0..Len(wire'), g[i] = 0
               PROVE  \E j \in 1..Len(wire') : i < j /\ IsKind(j, "resubscribe")'
  BY <1>1 DEF JoinAhead
<1>3. i + 1 \in 0..Len(wire) /\ h[i + 1] = 0
  BY <1>1, <1>2
<1>4. PICK j \in 1..Len(wire) : i + 1 < j /\ IsKind(j, "resubscribe")
  BY <1>2, <1>3 DEF JoinAhead
<1>5. j \in 2..Len(wire) /\ i < j - 1
  BY <1>4
<1>6. j - 1 \in 1..Len(wire') /\ wire'[j - 1] = wire[j]
  BY <1>1, <1>5
<1> QED BY <1>4, <1>5, <1>6 DEF IsKind

LEMMA SentJoin ==
    ASSUME Sends(1), list' \in Nat, list' > 0 => list > 0, NEW h, JoinAhead(h), NEW g,
           \A i \in 0..Len(wire) : g[i] = h[i], g[Len(wire) + 1] = list'
    PROVE  JoinAhead(g)'
<1>1. /\ Len(wire) \in Nat /\ Len(wire') = Len(wire) + 1
      /\ \A j \in 1..Len(wire) : j \in 1..Len(wire') /\ wire'[j] = wire[j]
  BY DEF Sends
<1>2. SUFFICES ASSUME list' > 0, NEW i \in 0..Len(wire'), g[i] = 0
               PROVE  \E j \in 1..Len(wire') : i < j /\ IsKind(j, "resubscribe")'
  BY DEF JoinAhead
<1>3. i \in 0..Len(wire)
  BY <1>1, <1>2
<1>4. PICK j \in 1..Len(wire) : i < j /\ IsKind(j, "resubscribe")
  BY <1>2, <1>3 DEF JoinAhead
<1> QED BY <1>1, <1>4 DEF IsKind

\* With nothing under way the numberings are what the server has.
LEMMA NothingNumbered ==
    ASSUME Types', wire' = <<>>, NEW g, NEW q, g = [i \in 0..0 |-> list'],
           q = [i \in 0..0 |-> posts']
    PROVE  Numbered(g, q)' /\ JoinAhead(g)' /\ StaleAnswers(q)'
<1>1. /\ Len(wire') = 0 /\ 0..Len(wire') = 0..0 /\ 0 \in 0..0 /\ \A i \in 1..Len(wire') : FALSE
      /\ \A i \in 0..0 : i = 0
  OBVIOUS
<1>2. list' \in 0..list' /\ posts' \in 0..posts' /\ list' \in Nat
  BY DEF Types
<1>3. g[0] = list' /\ q[0] = posts'
  BY <1>1
<1>4. g \in [0..Len(wire') -> 0..list'] /\ q \in [0..Len(wire') -> 0..posts']
  BY <1>1, <1>2
<1> QED BY <1>1, <1>2, <1>3, <1>4 DEF Numbered, JoinAhead, StaleAnswers

LEMMA NumberedHolds ==
    ASSUME Admits = {}, Sound, Types', Parking', [Next]_vars, NEW h, NEW p, Holds(h, p),
           NEW g, NEW q, (Numbered(g, q) /\ JoinAhead(g) /\ StaleAnswers(q))',
           Arrival => g[0] = h[1] /\ q[0] = p[1],
           ~Arrival /\ ~Disconnect /\ ~(ChangeList /\ channels = NoBinding) => g[0] = h[0],
           ~Arrival /\ ~Disconnect /\ ~(ChangePost /\ ~(channels > 0)) => q[0] = p[0]
    PROVE  Holds(g, q)'
<1>1. LastParked(g)'
  BY LastParkedNext DEF Sound, Holds
<1>2. ListCurrent(g)'
  BY ListCurrentNext DEF Sound, Holds
<1>3. PostsCurrent(q)'
  BY PostsCurrentNext DEF Sound, Holds
<1> QED BY <1>1, <1>2, <1>3 DEF Holds

LEMMA QuietHolds ==
    ASSUME Admits = {}, Sound, Types', Parking', [Next]_vars, Quiet, NEW h, NEW p, Holds(h, p)
    PROVE  Holds(h, p)'
<1>1. UNCHANGED <<list, posts, channels, wire>>
  BY QuietKeeps
<1>2. Numbered(h, p)' /\ JoinAhead(h)'
  BY <1>1 DEF Holds, Numbered, JoinAhead, IsKind, IsAnswer
<1>3. StaleAnswers(p)'
  BY QuietStale DEF Sound, Holds
<1>4. ~Arrival
  <2>1. Arrival => Len(wire') = Len(wire) - 1 /\ Len(wire) \in Nat
    BY ArrivalTakes DEF Sound
  <2> QED BY <1>1, <2>1
<1>5. ~ChangeList /\ ~ChangePost
  BY <1>1 DEF ChangeList, ChangePost, Sound, Types
<1> QED BY <1>2, <1>3, <1>4, <1>5, NumberedHolds

LEMMA ArrivalHolds ==
    ASSUME Admits = {}, Sound, Types', Parking', [Next]_vars, Arrival, NEW h, NEW p, Holds(h, p)
    PROVE  \E g, q : Holds(g, q)'
<1>1. PICK g : g = [i \in 0..(Len(wire) - 1) |-> h[i + 1]]
  OBVIOUS
<1>2. PICK q : q = [i \in 0..(Len(wire) - 1) |-> p[i + 1]]
  OBVIOUS
<1>3. Len(wire) \in Nat \ {0} /\ Len(wire') = Len(wire) - 1
  BY ArrivalTakes DEF Sound
<1>4. \A i \in 0..Len(wire') : g[i] = h[i + 1] /\ q[i] = p[i + 1]
  BY <1>1, <1>2, <1>3
<1>5. Numbered(g, q)'
  BY <1>1, <1>2, NumbersTaken DEF Sound, Holds
<1>6. JoinAhead(g)'
  BY <1>4, ArrivalJoin DEF Sound, Holds
<1>7. StaleAnswers(q)'
  <2>1. \A i \in 1..Len(wire') : q[i] = p[i + 1]
    BY <1>3, <1>4
  <2> QED BY <2>1, ArrivalStale DEF Sound, Holds
<1>8. g[0] = h[1] /\ q[0] = p[1]
  BY <1>3, <1>4
<1>9. Holds(g, q)'
  BY <1>5, <1>6, <1>7, <1>8, NumberedHolds
<1> QED BY <1>9

LEMMA SentHolds ==
    ASSUME Admits = {}, Sound, Types', Links', Parking', [Next]_vars, Sends(1), NEW h, NEW p,
           Holds(h, p), NEW f, f = wire'[Len(wire) + 1],
           list' = list + (IF f.kind = "list" THEN 1 ELSE 0),
           posts' = posts + (IF f.kind = "post" THEN 1 ELSE 0),
           f.kind = "list" \/ (f.kind = "answer" /\ f.request.for = "access") => f.n = list',
           f.kind = "post" => f.n = posts' /\ channels' > 0,
           f.kind = "answer" /\ f.request.for = "revisions" => f.n = posts',
           \A i \in 1..Len(wire) : IsKind(i, "post") => channels' > 0,
           list' > 0 => list > 0, authenticated' = authenticated,
           UNCHANGED <<timer, step, request>> \/ \E c \in Callers : Answer(c),
           ~(ChangeList /\ channels = NoBinding), ~(ChangePost /\ ~(channels > 0))
    PROVE  \E g, q : Holds(g, q)'
<1>1. PICK g : g = [i \in 0..(Len(wire) + 1) |-> IF i <= Len(wire) THEN h[i] ELSE list']
  OBVIOUS
<1>2. PICK q : q = [i \in 0..(Len(wire) + 1) |-> IF i <= Len(wire) THEN p[i] ELSE posts']
  OBVIOUS
<1>3. Len(wire) \in Nat /\ Len(wire') = Len(wire) + 1 /\ list' \in Nat /\ posts' \in Nat
  BY DEF Sends, Types
<1>4. \A i \in 0..Len(wire) : g[i] = h[i] /\ q[i] = p[i]
  BY <1>1, <1>2, <1>3
<1>5. g[Len(wire) + 1] = list' /\ q[Len(wire) + 1] = posts'
  BY <1>1, <1>2, <1>3
<1>6. f.kind = "answer" /\ f.request.for = "revisions" => f.n <= posts' /\ ~(f.n < posts')
  BY <1>3
<1>7. Numbered(g, q)'
  BY <1>1, <1>2, <1>6, NumbersSent DEF Sound, Holds
<1>8. JoinAhead(g)'
  BY <1>3, <1>4, <1>5, SentJoin DEF Holds
<1>9. StaleAnswers(q)'
  <2>1. \A i \in 1..Len(wire) : q[i] = p[i]
    BY <1>3, <1>4
  <2>2. PICK m : m = q[Len(wire) + 1] /\ m = posts'
    BY <1>5
  <2> QED BY <1>6, <2>1, <2>2, SentStale DEF Sound, Holds
<1>10. ~Arrival /\ g[0] = h[0] /\ q[0] = p[0]
  <2>1. Arrival => Len(wire') = Len(wire) - 1
    BY ArrivalTakes DEF Sound
  <2> QED BY <1>3, <1>4, <2>1
<1>11. Holds(g, q)'
  BY <1>7, <1>8, <1>9, <1>10, NumberedHolds
<1> QED BY <1>11

\* Who is sent a post has joined.
LEMMA PostSent ==
    ASSUME Types, Bounded, NEW h, NEW p, Numbered(h, p), NEW i \in 1..Len(wire), IsKind(i, "post")
    PROVE  channels > 0 /\ list > 0
<1>1. p[i] = p[i - 1] + 1 /\ channels > 0
  BY DEF Numbered
<1>2. i \in 0..Len(wire) /\ i - 1 \in 0..Len(wire)
  OBVIOUS
<1>3. p[i] \in 0..posts /\ p[i - 1] \in 0..posts
  BY <1>2 DEF Numbered
<1>4. posts > 0
  BY <1>1, <1>3 DEF Types
<1> QED BY <1>1, <1>4 DEF Bounded, Types

LEMMA ServeHolds ==
    ASSUME Admits = {}, Sound, Types', Links', Parking', [Next]_vars, Serve, NEW h, NEW p,
           Holds(h, p)
    PROVE  \E g, q : Holds(g, q)'
<1>1. PICK f : f = wire'[Len(wire) + 1]
  OBVIOUS
<1>2. list' = list /\ posts' = posts /\ list \in Nat /\ posts \in Nat /\ ~ChangeList /\ ~ChangePost
  <2>1. list' = list /\ posts' = posts
    BY DEF Serve, Authenticate, Answer, serverVars
  <2> QED BY <2>1 DEF ChangeList, ChangePost, Sound, Types
<1>3. CASE Authenticate
  <2>1. Sends(1) /\ f = [kind |-> "authenticated", n |-> 0]
    BY <1>1, <1>3, AuthenticateSends DEF Sound
  <2>2. channels' = list /\ authenticated' = authenticated /\ UNCHANGED <<timer, step, request>>
    BY <1>3 DEF Authenticate, coordVars, runVars
  <2>3. \A i \in 1..Len(wire) : IsKind(i, "post") => channels' > 0
    BY <2>2, PostSent DEF Sound, Holds
  <2>4. f.kind = "authenticated"
    BY <2>1
  <2>5. list' = list + (IF f.kind = "list" THEN 1 ELSE 0) /\ posts' = posts + (IF f.kind = "post" THEN 1 ELSE 0)
    BY <1>2, <2>4
  <2> QED BY <1>1, <1>2, <2>1, <2>2, <2>3, <2>4, <2>5, SentHolds
<1>4. ASSUME NEW c \in Callers, Answer(c) PROVE \E g, q : Holds(g, q)'
  <2>1. /\ Sends(1)
        /\ wire'[Len(wire) + 1] =
             [kind |-> "answer", to |-> c, request |-> request'[c],
              n |-> IF request[c].for = "access" THEN list ELSE posts]
        /\ request'[c].for = request[c].for
    BY <1>4, AnswerSends DEF Sound
  <2>2. /\ f.kind = "answer" /\ f.request.for = request[c].for
        /\ f.n = (IF request[c].for = "access" THEN list ELSE posts)
    BY <1>1, <2>1
  <2>3. channels' = channels /\ authenticated' = authenticated
    BY <1>4 DEF Answer, serverVars, bindingVars
  <2>4. \A i \in 1..Len(wire) : IsKind(i, "post") => channels' > 0
    BY <2>3, PostSent DEF Sound, Holds
  <2>5. list' = list + (IF f.kind = "list" THEN 1 ELSE 0) /\ posts' = posts + (IF f.kind = "post" THEN 1 ELSE 0)
    BY <1>2, <2>2
  <2>6. /\ f.kind = "answer" /\ f.request.for = "access" => f.n = list'
        /\ f.kind = "answer" /\ f.request.for = "revisions" => f.n = posts'
    BY <1>2, <2>2
  <2> QED BY <1>1, <1>2, <1>4, <2>1, <2>2, <2>3, <2>4, <2>5, <2>6, SentHolds
<1> QED BY <1>3, <1>4 DEF Serve

LEMMA ChangePostHolds ==
    ASSUME Admits = {}, Sound, Types', Links', Parking', [Next]_vars, ChangePost, NEW h, NEW p,
           Holds(h, p)
    PROVE  \E g, q : Holds(g, q)'
<1>1. PICK f : f = wire'[Len(wire) + 1]
  OBVIOUS
<1>2. /\ list' = list /\ posts' = posts + 1 /\ list > 0 /\ list \in Nat /\ posts \in Nat
      /\ UNCHANGED <<channels, authenticated, timer, step, request, connected>>
  BY DEF ChangePost, Sound, Types, bindingVars, coordVars, runVars
<1>3. ~ChangeList
  BY <1>2 DEF ChangeList
<1>4. CASE channels > 0
  <2>1. Sends(1) /\ f = [kind |-> "post", n |-> posts + 1]
    BY <1>1, <1>4, PostSends DEF Sound
  <2>2. f.kind = "post" /\ f.n = posts'
    BY <1>2, <2>1
  <2>3. list' = list + (IF f.kind = "list" THEN 1 ELSE 0) /\ posts' = posts + (IF f.kind = "post" THEN 1 ELSE 0)
    BY <1>2, <2>2
  <2>4. channels' > 0
    BY <1>2, <1>4
  <2> QED BY <1>1, <1>2, <1>3, <1>4, <2>1, <2>2, <2>3, <2>4, SentHolds
<1>5. CASE ~(channels > 0)
  <2>1. channels \in {NoBinding, 0}
    BY <1>5 DEF Sound, Types
  <2>2. wire' = wire
    BY <2>1, PostSends DEF Sound
  <2>3. PICK q : q = [i \in 0..Len(wire) |-> posts + 1]
    OBVIOUS
  <2>4. \A i \in 1..Len(wire) : ~IsKind(i, "post")
    BY <1>5, PostSent DEF Sound, Holds
  <2>5. /\ Len(wire) \in Nat /\ Len(wire) \in 0..Len(wire)
        /\ \A i \in 1..Len(wire) : i \in 0..Len(wire) /\ i - 1 \in 0..Len(wire)
    BY DEF Sound, Types
  <2>6. Numbered(h, q)'
    <3>1. q \in [0..Len(wire) -> 0..posts']
      BY <1>2, <2>3
    <3>2. ASSUME NEW i \in 1..Len(wire)
          PROVE  /\ q[i] = q[i - 1] + (IF IsKind(i, "post") THEN 1 ELSE 0)
                 /\ IsAnswer(i, "revisions") => wire[i].n <= q[i]
      <4>1. q[i] = posts + 1 /\ q[i - 1] = posts + 1
        BY <2>3, <2>5
      <4>2. p[i] \in 0..posts
        BY <2>5 DEF Holds, Numbered
      <4>3. wire[i].n \in Nat
        BY FrameKinds DEF Sound
      <4>4. IsAnswer(i, "revisions") => wire[i].n <= p[i]
        BY DEF Holds, Numbered
      <4> QED BY <1>2, <2>4, <4>1, <4>2, <4>3, <4>4
    <3>3. q[Len(wire)] = posts'
      BY <1>2, <2>3, <2>5
    <3>4. /\ h \in [0..Len(wire) -> 0..list] /\ h[Len(wire)] = list
          /\ \A i \in 1..Len(wire) :
                /\ h[i] = h[i - 1] + (IF IsKind(i, "list") THEN 1 ELSE 0)
                /\ IsKind(i, "list") \/ IsAnswer(i, "access") => wire[i].n = h[i]
      BY DEF Holds, Numbered
    <3> QED BY <1>2, <2>2, <2>4, <3>1, <3>2, <3>3, <3>4 DEF Numbered, IsKind, IsAnswer
  <2>7. JoinAhead(h)'
    BY <1>2, <2>2 DEF Holds, JoinAhead, IsKind
  <2>8. StaleAnswers(q)'
    BY <1>2, <2>1, <2>2, UntoldStale DEF Sound
  <2>9. ~Arrival
    <3>1. Arrival => Len(wire') = Len(wire) - 1
      BY ArrivalTakes DEF Sound
    <3> QED BY <2>2, <2>5, <3>1
  <2>10. Holds(h, q)'
    BY <1>3, <1>5, <2>6, <2>7, <2>8, <2>9, NumberedHolds
  <2> QED BY <2>10
<1> QED BY <1>4, <1>5

LEMMA JoinHolds ==
    ASSUME Admits = {}, Sound, Types', Links', Parking', [Next]_vars, ChangeList,
           channels # NoBinding, list = 0, NEW h, NEW p, Holds(h, p)
    PROVE  \E g, q : Holds(g, q)'
<1>1. /\ list' = 1 /\ posts = 0 /\ posts' = 0
      /\ UNCHANGED <<channels, authenticated, timer, step, request>>
  BY DEF ChangeList, Sound, Bounded, bindingVars, coordVars, runVars
<1>2. /\ Sends(2) /\ wire'[Len(wire) + 1] = [kind |-> "list", n |-> list + 1]
      /\ wire'[Len(wire) + 2] = [kind |-> "resubscribe", n |-> 0]
  BY ListSends DEF Sound
<1>3. /\ Len(wire) \in Nat /\ Len(wire') = Len(wire) + 2
      /\ \A i \in 1..Len(wire) : wire'[i] = wire[i]
      /\ wire'[Len(wire) + 1].kind = "list" /\ wire'[Len(wire) + 1].n = 1
      /\ wire'[Len(wire) + 2].kind = "resubscribe"
  BY <1>2 DEF Sends
<1>4. PICK g : g = [i \in 0..(Len(wire) + 2) |-> IF i <= Len(wire) THEN 0 ELSE 1]
  OBVIOUS
<1>5. PICK q : q = [i \in 0..(Len(wire) + 2) |-> 0]
  OBVIOUS
<1>6. ASSUME NEW i \in 1..Len(wire)
      PROVE  /\ ~IsKind(i, "list") /\ ~IsKind(i, "post")
             /\ IsAnswer(i, "access") => wire[i].n = 0
             /\ IsAnswer(i, "revisions") => wire[i].n <= 0
  <2>1. i \in 0..Len(wire) /\ i - 1 \in 0..Len(wire)
    BY <1>3
  <2>2. h[i] \in 0..0 /\ h[i - 1] \in 0..0 /\ p[i] \in 0..0 /\ p[i - 1] \in 0..0
    BY <1>1, <2>1 DEF Holds, Numbered
  <2>3. h[i] = 0 /\ h[i - 1] = 0 /\ p[i] = 0 /\ p[i - 1] = 0
    BY <2>2
  <2> QED BY <2>3 DEF Holds, Numbered
<1>7. Numbered(g, q)'
  <2>1. g \in [0..Len(wire') -> 0..list'] /\ q \in [0..Len(wire') -> 0..posts']
    BY <1>1, <1>3, <1>4, <1>5
  <2>2. g[Len(wire')] = list' /\ q[Len(wire')] = posts'
    BY <1>1, <1>3, <1>4, <1>5
  <2>3. ASSUME NEW i \in 1..Len(wire')
        PROVE  (/\ g[i] = g[i - 1] + (IF IsKind(i, "list") THEN 1 ELSE 0)
                /\ q[i] = q[i - 1] + (IF IsKind(i, "post") THEN 1 ELSE 0)
                /\ IsKind(i, "list") \/ IsAnswer(i, "access") => wire[i].n = g[i]
                /\ IsKind(i, "post") => wire[i].n = q[i] /\ channels > 0
                /\ IsAnswer(i, "revisions") => wire[i].n <= q[i])'
    <3>1. /\ g[i] = (IF i <= Len(wire) THEN 0 ELSE 1) /\ q[i] = 0
          /\ g[i - 1] = (IF i - 1 <= Len(wire) THEN 0 ELSE 1) /\ q[i - 1] = 0
      BY <1>3, <1>4, <1>5
    <3>2. CASE i \in 1..Len(wire)
      <4>1. wire'[i] = wire[i] /\ g[i] = 0 /\ g[i - 1] = 0
        BY <1>3, <3>1, <3>2
      <4> QED BY <1>6, <3>1, <3>2, <4>1 DEF IsKind, IsAnswer
    <3>3. CASE i = Len(wire) + 1
      <4>1. g[i] = 1 /\ g[i - 1] = 0 /\ wire'[i].kind = "list" /\ wire'[i].n = 1
        BY <1>3, <3>1, <3>3
      <4> QED BY <3>1, <4>1 DEF IsKind, IsAnswer
    <3>4. CASE i = Len(wire) + 2
      <4>1. g[i] = 1 /\ g[i - 1] = 1 /\ wire'[i].kind = "resubscribe"
        BY <1>3, <3>1, <3>4
      <4> QED BY <3>1, <4>1 DEF IsKind, IsAnswer
    <3> QED BY <1>3, <3>2, <3>3, <3>4
  <2> QED BY <2>1, <2>2, <2>3 DEF Numbered
<1>8. JoinAhead(g)'
  <2>1. \A i \in 0..Len(wire') : g[i] = 0 => i < Len(wire) + 2
    BY <1>3, <1>4
  <2>2. PICK j \in 1..Len(wire') : j = Len(wire) + 2
    BY <1>3
  <2> QED BY <1>3, <2>1, <2>2 DEF JoinAhead, IsKind
<1>9. StaleAnswers(q)'
  <2>1. \A i \in 1..Len(wire') : q[i] = 0
    BY <1>3, <1>5
  <2>2. \A i \in 1..Len(wire') : wire'[i] \in Frames
    BY DEF Types
  <2>3. \A i \in 1..Len(wire') : wire'[i].n \in Nat
    BY <2>2 DEF Frames
  <2>4. \A i \in 1..Len(wire') : ~(wire'[i].n < q[i])
    BY <2>1, <2>3
  <2> QED BY <2>4 DEF StaleAnswers
<1>10. ~Arrival /\ ~ChangePost
  <2>1. Arrival => Len(wire') = Len(wire) - 1
    BY ArrivalTakes DEF Sound
  <2> QED BY <1>1, <1>3, <2>1 DEF ChangePost
<1>11. g[0] = h[0] /\ q[0] = p[0]
  <2>1. 0 \in 0..Len(wire) /\ 0 \in 0..(Len(wire) + 2)
    BY <1>3
  <2>2. h[0] \in 0..0 /\ p[0] \in 0..0
    BY <1>1, <2>1 DEF Holds, Numbered
  <2> QED BY <1>4, <1>5, <2>1, <2>2
<1>12. Holds(g, q)'
  BY <1>7, <1>8, <1>9, <1>10, <1>11, NumberedHolds
<1> QED BY <1>12

LEMMA ChangeListHolds ==
    ASSUME Admits = {}, Sound, Types', Links', Parking', [Next]_vars, ChangeList, NEW h, NEW p,
           Holds(h, p)
    PROVE  \E g, q : Holds(g, q)'
<1>1. /\ list' = list + 1 /\ posts' = posts /\ list \in Nat /\ posts \in Nat
      /\ UNCHANGED <<channels, authenticated, timer, step, request>>
  BY DEF ChangeList, Sound, Types, bindingVars, coordVars, runVars
<1>2. ~ChangePost
  BY <1>1 DEF ChangePost
<1>3. CASE channels = NoBinding
  <2>1. wire' = <<>> /\ wire = <<>>
    BY <1>3, ListSends DEF Sound, Links, NotBound
  <2>2. PICK g : g = [i \in 0..0 |-> list']
    OBVIOUS
  <2>3. PICK q : q = [i \in 0..0 |-> posts']
    OBVIOUS
  <2>4. Numbered(g, q)' /\ JoinAhead(g)' /\ StaleAnswers(q)'
    BY <2>1, <2>2, <2>3, NothingNumbered
  <2>5. q[0] = p[0]
    <3>1. p[Len(wire)] = posts /\ Len(wire) = 0
      BY <2>1 DEF Holds, Numbered
    <3> QED BY <1>1, <2>3, <3>1
  <2>6. ~Arrival
    BY <2>1, ArrivalTakes DEF Sound
  <2>7. Holds(g, q)'
    BY <1>2, <1>3, <2>4, <2>5, <2>6, NumberedHolds
  <2> QED BY <2>7
<1>4. CASE channels # NoBinding /\ list > 0
  <2>1. PICK f : f = wire'[Len(wire) + 1]
    OBVIOUS
  <2>2. Sends(1) /\ f = [kind |-> "list", n |-> list + 1]
    BY <1>4, <2>1, ListSends DEF Sound
  <2>3. f.kind = "list" /\ f.n = list'
    BY <1>1, <2>2
  <2>4. list' = list + (IF f.kind = "list" THEN 1 ELSE 0) /\ posts' = posts + (IF f.kind = "post" THEN 1 ELSE 0)
    BY <1>1, <2>3
  <2>5. \A i \in 1..Len(wire) : IsKind(i, "post") => channels' > 0
    BY <1>1, PostSent DEF Sound, Holds
  <2> QED BY <1>1, <1>2, <1>4, <2>1, <2>2, <2>3, <2>4, <2>5, SentHolds
<1>5. CASE channels # NoBinding /\ list = 0
  BY <1>5, JoinHolds
<1> QED BY <1>1, <1>3, <1>4, <1>5

LEMMA DisconnectHolds ==
    ASSUME Admits = {}, Sound, Types', Parking', [Next]_vars, Disconnect, NEW h, NEW p, Holds(h, p)
    PROVE  \E g, q : Holds(g, q)'
<1>1. wire' = <<>> /\ ~connected'
  BY DEF Disconnect
<1>2. PICK g : g = [i \in 0..0 |-> list']
  OBVIOUS
<1>3. PICK q : q = [i \in 0..0 |-> posts']
  OBVIOUS
<1>4. Numbered(g, q)' /\ JoinAhead(g)' /\ StaleAnswers(q)'
  BY <1>1, <1>2, <1>3, NothingNumbered
<1>5. LastParked(g)' /\ ListCurrent(g)' /\ PostsCurrent(q)'
  BY <1>1 DEF LastParked, ListCurrent, PostsCurrent, Live
<1>6. Holds(g, q)'
  BY <1>4, <1>5 DEF Holds
<1> QED BY <1>6

-----------------------------------------------------------------------------
(***************************************************************************)
(* The invariant and what it says of a settled client.                     *)
(***************************************************************************)
LEMMA RecoveryStarts == Init => RecoveryInv
<1> SUFFICES ASSUME Init PROVE RecoveryInv
  OBVIOUS
<1>1. /\ wire = <<>> /\ queue = <<>> /\ batch = <<>>
      /\ \A i \in 1..Len(wire) : FALSE
      /\ \A i \in 1..Len(queue) : FALSE
      /\ \A i \in 1..Len(batch) : FALSE
  BY DEF Init
<1>2. ~connected /\ list = 0 /\ posts = 0 /\ channels = NoBinding /\ ~authenticated
      /\ \A c \in Callers : request[c] = NoRequest
  BY DEF Init
<1>3. Types
  <2>1. request \in [Callers -> Requests]
    BY DEF Init, NoRequest, Requests
  <2>2. queue \in Seq(Events) /\ batch \in Seq(Events) /\ wire \in Seq(Frames)
    BY <1>1, NothingParked
  <2> QED BY <2>1, <2>2 DEF Init, Types, Steps
<1>4. \A c \in Callers : ~OpenRequest(c) /\ ~UnderWay(c, "revisions")
  BY <1>2 DEF OpenRequest, UnderWay, NoRequest
<1>5. Links
  <2>1. Unanswered
    BY <1>2 DEF Unanswered, NoRequest
  <2>2. LinkDown /\ SignedOut /\ NotBound
    BY <1>1, <1>4, <2>1 DEF Init, LinkDown, SignedOut, NotBound
  <2>3. OwnRequests
    BY <1>4 DEF OwnRequests, Callers
  <2>4. AnswersFit /\ FitOnce
    BY <1>1 DEF AnswersFit, FitOnce
  <2> QED BY <2>2, <2>3, <2>4 DEF Links
<1>6. Parking
  BY <1>1, <1>2 DEF Init, Parking, ParkedIsTransient, QueueOwn, BatchOwn, NoneParked
<1>7. Bounded
  BY <1>1, <1>2 DEF Init, Bounded
<1>8. Rejoins
  BY <1>1, <1>4 DEF Rejoins
<1>9. ListKnown /\ Unbound /\ Unjoined
  BY <1>2 DEF ListKnown, Unbound, Unjoined, Live
<1>10. Sound
  BY <1>3, <1>5, <1>6, <1>7, <1>8, <1>9 DEF Sound
<1>11. PICK h : h = [i \in 0..0 |-> 0]
  OBVIOUS
<1>12. Holds(h, h)
  <2>1. Numbered(h, h)
    <3>1. Len(wire) = 0 /\ 0..Len(wire) = 0..0 /\ 0 \in 0..0
      BY <1>1
    <3>2. h \in [0..Len(wire) -> 0..list] /\ h \in [0..Len(wire) -> 0..posts] /\ h[0] = 0
      BY <1>2, <1>11, <3>1
    <3> QED BY <1>1, <1>2, <3>1, <3>2 DEF Numbered
  <2>2. JoinAhead(h) /\ LastParked(h) /\ StaleAnswers(h)
    BY <1>1, <1>2 DEF JoinAhead, LastParked, StaleAnswers
  <2>3. ListCurrent(h) /\ PostsCurrent(h)
    BY <1>2 DEF ListCurrent, PostsCurrent, Live
  <2> QED BY <2>1, <2>2, <2>3 DEF Holds
<1> QED BY <1>10, <1>12 DEF RecoveryInv

LEMMA RecoveryStep == ASSUME Admits = {}, RecoveryInv, [Next]_vars PROVE RecoveryInv'
<1>1. PICK h, p : Holds(h, p)
  BY DEF RecoveryInv
<1>2. Sound
  BY DEF RecoveryInv
<1>3. Types'
  BY <1>2, TypesNext DEF Sound
<1>4. Links'
  BY <1>2, LinksNext DEF Sound
<1>5. Parking'
  BY <1>2, ParkingNext DEF Sound
<1>6. Bounded'
  BY <1>1, <1>2, <1>3, BoundedNext DEF Sound, Holds
<1>7. Rejoins'
  BY <1>2, <1>3, <1>6, RejoinsNext DEF Sound
<1>8. ListKnown'
  BY <1>1, <1>2, <1>3, ListKnownNext DEF Sound, Holds
<1>9. Unbound'
  BY <1>2, UnboundNext DEF Sound
<1>10. Unjoined'
  BY <1>2, <1>3, UnjoinedNext DEF Sound
<1>11. Sound'
  BY <1>3, <1>4, <1>5, <1>6, <1>7, <1>8, <1>9, <1>10 DEF Sound
<1>12. \E g, q : Holds(g, q)'
  <2>1. CASE Quiet
    BY <1>1, <1>2, <1>3, <1>5, <2>1, QuietHolds
  <2>2. CASE Arrival
    BY <1>1, <1>2, <1>3, <1>5, <2>2, ArrivalHolds
  <2>3. CASE Serve
    BY <1>1, <1>2, <1>3, <1>4, <1>5, <2>3, ServeHolds
  <2>4. CASE ChangeList
    BY <1>1, <1>2, <1>3, <1>4, <1>5, <2>4, ChangeListHolds
  <2>5. CASE ChangePost
    BY <1>1, <1>2, <1>3, <1>4, <1>5, <2>5, ChangePostHolds
  <2>6. CASE Disconnect
    BY <1>1, <1>2, <1>3, <1>5, <2>6, DisconnectHolds
  <2> QED BY <2>1, <2>2, <2>3, <2>4, <2>5, <2>6 DEF Next, Handle, Arrival, Quiet
<1> QED BY <1>11, <1>12 DEF RecoveryInv

LEMMA RecoverySettles == RecoveryInv => SettledIsCurrent
<1> SUFFICES ASSUME RecoveryInv, Settled PROVE Current
  BY DEF SettledIsCurrent
<1>1. PICK h, p : Holds(h, p)
  BY DEF RecoveryInv
<1>2. Types /\ Links /\ Parking /\ Bounded
  BY DEF RecoveryInv, Sound
<1>3. Live /\ authenticated /\ wire = <<>> /\ ~timer /\ step = "none" /\ request["refresh"] = NoRequest
  BY DEF Settled, Live
<1>4. h[0] = list /\ p[0] = posts /\ \A i \in 1..Len(wire) : FALSE
  BY <1>1, <1>3 DEF Holds, Numbered
<1>5. queue = <<>> /\ batch = <<>>
  BY <1>2, <1>3 DEF Parking, ParkedIsTransient, BatchOwn
<1>6. (\A i \in 1..Len(queue) : FALSE) /\ (\A i \in 1..Len(batch) : FALSE)
  BY <1>5
<1>7. ~OpenRequest("run") /\ ~OpenRequest("refresh")
  BY <1>2, <1>3, RunIsOpen DEF Links, OpenRequest, NoRequest
<1>8. ~ListAhead /\ ~PostsAhead /\ ~ListParked /\ \A n : ~Parked("post", n)
  BY <1>3, <1>4, <1>6, <1>7
  DEF ListAhead, PostsAhead, UnderWay, Resubscribes, ListParked, NoListAfter, Parked, ParkedIn
<1>9. myList = list /\ 1..posts \subseteq myPosts
  BY <1>1, <1>3, <1>4, <1>8 DEF Holds, ListCurrent, PostsCurrent
<1> QED BY <1>2, <1>9 DEF Current, Bounded

\* A settled client is current, for every bound on changes, troubles and
\* sessions: a recovery that is to come or under way, a frame that asks for a
\* new subscription or a parked event stands behind everything it still lacks.
\* It takes a server that sends what it publishes in the order of its changes,
\* and a timer that does not fire during a recovery, the two behaviours of
\* Admits that the model-checked findings are about.
THEOREM SettledClientIsCurrent == ASSUME Admits = {} PROVE Spec => []SettledIsCurrent
<1>1. Init => RecoveryInv
  BY RecoveryStarts
<1>2. RecoveryInv /\ [Next]_vars => RecoveryInv'
  BY RecoveryStep
<1>3. RecoveryInv => SettledIsCurrent
  BY RecoverySettles
<1> QED BY <1>1, <1>2, <1>3, PTL DEF Spec
=============================================================================
