-------------------------- MODULE RemoteLinkProofs --------------------------
(***************************************************************************)
(* The link for any number of calls, sockets and events: what one end      *)
(* believes of the other is true.  Everything that is awaited has a frame  *)
(* or a job behind it; the proofs follow it from the way up through the    *)
(* job to the way down.                                                    *)
(***************************************************************************)
EXTENDS RemoteLinkProps, FiniteSetTheorems, SequenceTheorems, TLAPS

UpFrames == [kind : {"authenticate"}, token : Nat] \cup [kind : {"request"}, call : Calls]

DownFrames == [kind : {"authenticated"}, token : Nat, ok : BOOLEAN]
              \cup [kind : {"response"}, call : Calls, ok : BOOLEAN]
              \cup [kind : {"resubscribe"}]

AuthJobs == [kind : {"auth"}, socket : Sockets, token : Nat, read : BOOLEAN,
             ok : BOOLEAN, channels : SUBSET Groups]
ActionJobs == [kind : {"action"}, socket : Sockets, token : Nat, call : Calls,
               read : BOOLEAN, ok : BOOLEAN]

ProtocolSessions == [open : BOOLEAN, token : Nat \cup {None}, channels : SUBSET Groups]

Bindings == [token : Nat, authenticated : BOOLEAN]

Ats == {"idle", "attempt", "gate", "pending", "resolved", "rejected", "over"}

Typed ==
  /\ link \in [kind : {"stopped", "connecting", "connected", "cooldown", "offline"}, socket : Nat]
  /\ link.socket <= MaxSockets
  /\ binding \in Bindings \cup {None}
  /\ epochs \in Nat
  /\ calls \in [Calls -> [at : Ats, epoch : Nat]]
  /\ up \in [Sockets -> Seq(UpFrames)]
  /\ down \in [Sockets -> Seq(DownFrames)]
  /\ sessions \in [Sockets -> ProtocolSessions]
  /\ jobs \in Seq(AuthJobs \cup ActionJobs)
  /\ member \subseteq Groups
  /\ notices \in Nat /\ changes \in Nat

\* The frames on the current socket, and the jobs, whatever their order.
Above == ToSet(up[link.socket])
Below == ToSet(down[link.socket])
Work == ToSet(jobs)

Linked == link.kind \in {"connecting", "connected"} => link.socket \in Sockets

\* The server hears of a closed socket only after the client has left it.
Heard == Connected => sessions[link.socket].open

Firm == binding # None /\ binding.authenticated => Connected

\* A call is pending only on a connection and under the credential of the moment.
PendingLinked == \A c \in Calls :
  calls[c].at = "pending" => Connected /\ binding # None /\ calls[c].epoch = binding.token

\* An authentication is under way.
Authenticating == \/ \E f \in Above : f.kind = "authenticate"
                  \/ \E j \in Work : j.kind = "auth" /\ j.socket = link.socket
                  \/ \E f \in Below : f.kind = "authenticated"

GateOk == Connected /\ binding # None /\ ~binding.authenticated => Authenticating

\* An action is under way.
Acting(c) == \/ Request(c) \in Above
             \/ \E j \in Work : j.kind = "action" /\ j.call = c /\ j.socket = link.socket
             \/ \E ok \in BOOLEAN : Response(c, ok) \in Below

CallsOk == \A c \in Calls : /\ calls[c].at = "pending" => Acting(c)
                            /\ calls[c].at = "attempt" => link.kind = "connecting"

Fresh == epochs = 0 => binding = None

\* What an authentication has read is still so when it is bound.
ReadsCurrent == \A j \in Work : j.kind = "auth" /\ j.read => j.channels = member

\* Something is under way after which the channels will be bound anew, or the user is not.
Moving == \/ notices > 0
          \/ Resubscribe \in Below
          \/ \E f \in Above : f.kind = "authenticate"
          \/ \E j \in Work : j.kind = "auth" /\ j.socket = link.socket
          \/ \E f \in Below : f.kind = "authenticated" /\ ~f.ok

Subscribed ==
  (/\ Connected /\ binding # None
   /\ sessions[link.socket].token # None
   /\ sessions[link.socket].channels # member) => Moving

\* No membership changes between the read of an authentication and its end.
NoOverlap == "overlap" \notin Admits

ChannelsOk == NoOverlap => ReadsCurrent /\ Subscribed

IInv == ChannelsOk /\ Typed /\ Linked /\ Heard /\ Firm /\ Fresh /\ PendingLinked /\ GateOk /\ CallsOk
-----------------------------------------------------------------------------
(* Sequences as sets. *)

LEMMA AppendSet ==
  ASSUME NEW S, NEW s \in Seq(S), NEW e \in S
  PROVE  Append(s, e) \in Seq(S) /\ ToSet(Append(s, e)) = ToSet(s) \cup {e}
<1> DEFINE r == Append(s, e)
<1>1. /\ r \in Seq(S) /\ Len(s) \in Nat /\ DOMAIN s = 1 .. Len(s)
      /\ DOMAIN r = 1 .. Len(s) + 1
      /\ r[Len(s) + 1] = e /\ \A p \in 1 .. Len(s) : r[p] = s[p]
  OBVIOUS
<1> HIDE DEF r
<1>2. ToSet(r) \subseteq ToSet(s) \cup {e}
  <2> SUFFICES ASSUME NEW p \in 1 .. Len(s) + 1 PROVE r[p] \in ToSet(s) \cup {e}
    BY <1>1 DEF ToSet
  <2>1. p \in 1 .. Len(s) \/ p = Len(s) + 1
    BY <1>1
  <2> QED
    BY <1>1, <2>1 DEF ToSet
<1>3. ToSet(s) \cup {e} \subseteq ToSet(r)
  <2>1. \A p \in 1 .. Len(s) : p \in 1 .. Len(s) + 1
    BY <1>1
  <2>2. Len(s) + 1 \in 1 .. Len(s) + 1
    BY <1>1
  <2> QED
    BY <1>1, <2>1, <2>2 DEF ToSet
<1> QED
  BY <1>1, <1>2, <1>3 DEF r

LEMMA TailSet ==
  ASSUME NEW S, NEW s \in Seq(S), s # <<>>
  PROVE  /\ Tail(s) \in Seq(S) /\ Head(s) \in S
         /\ ToSet(s) = ToSet(Tail(s)) \cup {Head(s)}
<1> DEFINE r == Tail(s)
<1>1. /\ r \in Seq(S) /\ Len(s) \in Nat /\ Len(s) > 0 /\ DOMAIN s = 1 .. Len(s)
      /\ DOMAIN r = 1 .. Len(s) - 1
      /\ Head(s) = s[1] /\ s[1] \in S /\ \A p \in 1 .. Len(s) - 1 : r[p] = s[p + 1]
  OBVIOUS
<1> HIDE DEF r
<1>2. ToSet(s) \subseteq ToSet(r) \cup {Head(s)}
  <2> SUFFICES ASSUME NEW p \in 1 .. Len(s) PROVE s[p] \in ToSet(r) \cup {Head(s)}
    BY <1>1 DEF ToSet
  <2>1. p = 1 \/ (p - 1 \in 1 .. Len(s) - 1 /\ r[p - 1] = s[p])
    BY <1>1
  <2> QED
    BY <1>1, <2>1 DEF ToSet
<1>3. \A p \in 1 .. Len(s) - 1 : r[p] \in ToSet(s)
  <2> TAKE p \in 1 .. Len(s) - 1
  <2>1. p + 1 \in 1 .. Len(s)
    BY <1>1
  <2> QED
    BY <1>1, <2>1 DEF ToSet
<1>4. Head(s) \in ToSet(s)
  <2>1. 1 \in 1 .. Len(s)
    BY <1>1
  <2> QED
    BY <1>1, <2>1 DEF ToSet
<1>5. ToSet(r) \subseteq ToSet(s)
  BY <1>1, <1>3 DEF ToSet
<1> QED
  BY <1>1, <1>2, <1>4, <1>5 DEF r

LEMMA ConcatSet ==
  ASSUME NEW S, NEW s \in Seq(S), NEW t \in Seq(S)
  PROVE  s \o t \in Seq(S) /\ ToSet(s \o t) = ToSet(s) \cup ToSet(t)
<1> DEFINE r == s \o t
<1>1. /\ r \in Seq(S) /\ Len(s) \in Nat /\ Len(t) \in Nat
      /\ DOMAIN s = 1 .. Len(s) /\ DOMAIN t = 1 .. Len(t)
      /\ DOMAIN r = 1 .. Len(s) + Len(t)
      /\ \A p \in 1 .. Len(s) + Len(t) : r[p] = IF p <= Len(s) THEN s[p] ELSE t[p - Len(s)]
  OBVIOUS
<1> HIDE DEF r
<1>2. ToSet(r) \subseteq ToSet(s) \cup ToSet(t)
  <2> SUFFICES ASSUME NEW p \in 1 .. Len(s) + Len(t) PROVE r[p] \in ToSet(s) \cup ToSet(t)
    BY <1>1 DEF ToSet
  <2>1. CASE p <= Len(s)
    <3>1. p \in 1 .. Len(s) /\ r[p] = s[p]
      BY <1>1, <2>1
    <3> QED
      BY <1>1, <3>1 DEF ToSet
  <2>2. CASE ~(p <= Len(s))
    <3>1. p - Len(s) \in 1 .. Len(t) /\ r[p] = t[p - Len(s)]
      BY <1>1, <2>2
    <3> QED
      BY <1>1, <3>1 DEF ToSet
  <2> QED
    BY <2>1, <2>2
<1>3. ToSet(s) \subseteq ToSet(r)
  <2> SUFFICES ASSUME NEW p \in 1 .. Len(s) PROVE s[p] \in ToSet(r)
    BY <1>1 DEF ToSet
  <2>1. p \in 1 .. Len(s) + Len(t) /\ r[p] = s[p]
    BY <1>1
  <2> QED
    BY <1>1, <2>1 DEF ToSet
<1>4. ToSet(t) \subseteq ToSet(r)
  <2> SUFFICES ASSUME NEW p \in 1 .. Len(t) PROVE t[p] \in ToSet(r)
    BY <1>1 DEF ToSet
  <2>1. p + Len(s) \in 1 .. Len(s) + Len(t) /\ r[p + Len(s)] = t[p]
    BY <1>1
  <2> QED
    BY <1>1, <2>1 DEF ToSet
<1> QED
  BY <1>1, <1>2, <1>3, <1>4 DEF r

\* A job that ends leaves the others.
LEMMA WithoutSet ==
  ASSUME NEW S, NEW s \in Seq(S), NEW n \in DOMAIN s
  PROVE  /\ RemoveAt(s, n) \in Seq(S) /\ s[n] \in S
         /\ ToSet(s) = ToSet(RemoveAt(s, n)) \cup {s[n]}
<1> DEFINE a == SubSeq(s, 1, n - 1)
           b == SubSeq(s, n + 1, Len(s))
<1>1. /\ Len(s) \in Nat /\ DOMAIN s = 1 .. Len(s) /\ n \in 1 .. Len(s) /\ s[n] \in S
      /\ RemoveAt(s, n) = a \o b
  BY DEF RemoveAt
<1>2. /\ a \in Seq(S) /\ DOMAIN a = 1 .. n - 1 /\ \A p \in 1 .. n - 1 : a[p] = s[p]
  BY <1>1
<1>3. /\ b \in Seq(S) /\ DOMAIN b = 1 .. Len(s) - n /\ \A p \in 1 .. Len(s) - n : b[p] = s[p + n]
  <2>1. n \in Nat /\ n + 1 \in Int /\ Len(s) \in Int /\ \A p \in n + 1 .. Len(s) : s[p] \in S
    BY <1>1
  <2>2. /\ b \in Seq(S) /\ Len(b) = IF n + 1 <= Len(s) THEN Len(s) - (n + 1) + 1 ELSE 0
        /\ \A p \in 1 .. Len(s) - (n + 1) + 1 : b[p] = s[(n + 1) + p - 1]
    BY <2>1, SubSeqProperties
  <2> HIDE DEF b
  <2>3. Len(b) = Len(s) - n /\ DOMAIN b = 1 .. Len(b)
    BY <1>1, <2>1, <2>2
  <2>4. \A p \in 1 .. Len(s) - n : b[p] = s[p + n]
    <3> TAKE p \in 1 .. Len(s) - n
    <3>1. Len(s) - (n + 1) + 1 = Len(s) - n /\ (n + 1) + p - 1 = p + n
      <4>1. p \in Nat /\ n \in Nat /\ Len(s) \in Nat
        BY <1>1, <2>1
      <4> QED
        BY <4>1
    <3> QED
      BY <2>2, <3>1
  <2> QED
    BY <2>2, <2>3, <2>4
<1> HIDE DEF a, b
<1>4. a \o b \in Seq(S) /\ ToSet(a \o b) = ToSet(a) \cup ToSet(b)
  BY <1>2, <1>3, ConcatSet
<1>5. ToSet(s) \subseteq ToSet(a) \cup ToSet(b) \cup {s[n]}
  <2> SUFFICES ASSUME NEW p \in 1 .. Len(s) PROVE s[p] \in ToSet(a) \cup ToSet(b) \cup {s[n]}
    BY <1>1 DEF ToSet
  <2>1. CASE p < n
    <3>1. p \in 1 .. n - 1 /\ a[p] = s[p]
      BY <1>1, <1>2, <2>1
    <3> QED
      BY <1>2, <3>1 DEF ToSet
  <2>2. CASE p > n
    <3> DEFINE q == p - n
    <3>1. q \in 1 .. Len(s) - n /\ q + n = p
      BY <1>1, <2>2
    <3> HIDE DEF q
    <3>2. b[q] = s[p]
      BY <1>3, <3>1
    <3> QED
      BY <1>3, <3>1, <3>2 DEF ToSet
  <2>3. p < n \/ p > n \/ p = n
    BY <1>1
  <2> QED
    BY <2>1, <2>2, <2>3
<1>6. ToSet(a) \subseteq ToSet(s)
  <2> SUFFICES ASSUME NEW p \in 1 .. n - 1 PROVE a[p] \in ToSet(s)
    BY <1>2 DEF ToSet
  <2>1. p \in 1 .. Len(s) /\ a[p] = s[p]
    BY <1>1, <1>2
  <2> QED
    BY <1>1, <2>1 DEF ToSet
<1>7. ToSet(b) \subseteq ToSet(s)
  <2> SUFFICES ASSUME NEW p \in 1 .. Len(s) - n PROVE b[p] \in ToSet(s)
    BY <1>3 DEF ToSet
  <2>1. p + n \in 1 .. Len(s) /\ b[p] = s[p + n]
    BY <1>1, <1>3
  <2> QED
    BY <1>1, <2>1 DEF ToSet
<1>8. s[n] \in ToSet(s)
  BY <1>1 DEF ToSet
<1> QED
  BY <1>1, <1>4, <1>5, <1>6, <1>7, <1>8

\* A job that goes on.
LEMMA ReplacedSet ==
  ASSUME NEW S, NEW s \in Seq(S), NEW n \in DOMAIN s, NEW e \in S
  PROVE  /\ [s EXCEPT ![n] = e] \in Seq(S)
         /\ ToSet([s EXCEPT ![n] = e]) \subseteq ToSet(s) \cup {e}
         /\ ToSet(s) \subseteq ToSet([s EXCEPT ![n] = e]) \cup {s[n]}
         /\ e \in ToSet([s EXCEPT ![n] = e])
         /\ s[n] \in S /\ s[n] \in ToSet(s)
<1> DEFINE r == [s EXCEPT ![n] = e]
<1>1. /\ r \in Seq(S) /\ DOMAIN r = DOMAIN s /\ r[n] = e
      /\ \A p \in DOMAIN s : p # n => r[p] = s[p]
      /\ s[n] \in S
  OBVIOUS
<1> HIDE DEF r
<1> QED
  BY <1>1 DEF r, ToSet

LEMMA EmptySet == \A S : <<>> \in Seq(S) /\ ToSet(<<>>) = {}
  BY DEF ToSet

\* One frame as a sequence.
LEMMA OneSet == ASSUME NEW S, NEW e \in S PROVE <<e>> \in Seq(S) /\ ToSet(<<e>>) = {e}
  BY DEF ToSet

\* SetToSeq lists all of a finite set.
LEMMA AllListed ==
  ASSUME NEW S, IsFiniteSet(S)
  PROVE  SetToSeq(S) \in Seq(S) /\ ToSet(SetToSeq(S)) = S
<1> DEFINE I == 1 .. Cardinality(S)
           f == SetToSeq(S)
<1>1. Cardinality(S) \in Nat /\ ExistsBijection(I, S)
  BY FS_CardinalityType
<1>2. \E g \in [I -> S] : IsInjective(g)
  BY <1>1 DEF ExistsBijection, Bijection, Injection
<1>3. f \in [I -> S] /\ IsInjective(f)
  BY <1>2 DEF SetToSeq
<1>4. IsFiniteSet(I) /\ Cardinality(I) = Cardinality(S)
  BY <1>1, FS_Interval
<1>5. f \in Injection(I, S)
  BY <1>3 DEF Injection
<1>6. f \in Surjection(I, S)
  BY <1>4, <1>5, FS_Injection
<1> HIDE DEF f
<1>7. f \in Seq(S) /\ DOMAIN f = I
  BY <1>1, <1>3
<1> QED
  BY <1>6, <1>7 DEF ToSet, Surjection, f

-----------------------------------------------------------------------------
(* Frames and jobs. *)

LEMMA FramesTyped ==
  /\ \A t \in Nat : Authenticate(t) \in UpFrames
  /\ \A c \in Calls : Request(c) \in UpFrames
  /\ \A t \in Nat, ok \in BOOLEAN : Authenticated(t, ok) \in DownFrames
  /\ \A c \in Calls, ok \in BOOLEAN : Response(c, ok) \in DownFrames
  /\ Resubscribe \in DownFrames
  BY DEF UpFrames, DownFrames, Authenticate, Request, Authenticated, Response, Resubscribe

LEMMA NoBindingIsNone == None \notin Nat /\ None \notin Bindings
  BY LinkAssumption DEF Bindings

LEMMA SentFrames ==
  ASSUME Typed, Linked, NEW fs \in Seq(UpFrames), Send(fs)
  PROVE  /\ up' \in [Sockets -> Seq(UpFrames)]
         /\ Connected => ToSet(up'[link.socket]) = Above \cup ToSet(fs)
<1>1. up \in [Sockets -> Seq(UpFrames)] /\ (Connected => link.socket \in Sockets)
  BY DEF Typed, Linked, Connected
<1>2. CASE Connected
  <2>1. up' = [up EXCEPT ![link.socket] = up[link.socket] \o fs]
    BY <1>2 DEF Send
  <2>2. up[link.socket] \in Seq(UpFrames)
    BY <1>1, <1>2
  <2>3. /\ up[link.socket] \o fs \in Seq(UpFrames)
        /\ ToSet(up[link.socket] \o fs) = ToSet(up[link.socket]) \cup ToSet(fs)
    BY <2>2, ConcatSet
  <2> QED
    BY <1>1, <1>2, <2>1, <2>3 DEF Above
<1>3. CASE ~Connected
  BY <1>1, <1>3 DEF Send
<1> QED
  BY <1>2, <1>3

LEMMA Arrived ==
  ASSUME Typed, Linked, NEW f, Arrives(f)
  PROVE  /\ Connected /\ link.socket \in Sockets /\ f \in DownFrames
         /\ down' \in [Sockets -> Seq(DownFrames)]
         /\ Below = ToSet(down'[link.socket]) \cup {f}
<1>1. Connected /\ link.socket \in Sockets
  BY DEF Linked, Connected, Arrives
<1>2. down[link.socket] \in Seq(DownFrames) /\ down[link.socket] # <<>>
  BY <1>1 DEF Typed, Arrives
<1>3. /\ Tail(down[link.socket]) \in Seq(DownFrames) /\ Head(down[link.socket]) \in DownFrames
      /\ ToSet(down[link.socket]) = ToSet(Tail(down[link.socket])) \cup {Head(down[link.socket])}
  BY <1>2, TailSet
<1>4. f = Head(down[link.socket]) /\ down' = [down EXCEPT ![link.socket] = Tail(down[link.socket])]
  BY DEF Arrives
<1> QED
  BY <1>1, <1>3, <1>4 DEF Below, Typed

LEMMA Replied ==
  ASSUME Typed, NEW s \in Sockets, NEW f \in DownFrames, Reply(s, f)
  PROVE  /\ down' \in [Sockets -> Seq(DownFrames)]
         /\ link.socket \in Sockets => Below \subseteq ToSet(down'[link.socket])
         /\ Connected /\ link.socket = s /\ sessions[s].open => f \in ToSet(down'[link.socket])
<1>1. CASE sessions[s].open /\ link.socket = s /\ Connected
  <2>1. down' = [down EXCEPT ![s] = Append(down[s], f)] /\ down \in [Sockets -> Seq(DownFrames)]
    BY <1>1 DEF Reply, Typed
  <2>2. /\ Append(down[s], f) \in Seq(DownFrames)
        /\ ToSet(Append(down[s], f)) = ToSet(down[s]) \cup {f}
    BY <2>1, AppendSet
  <2> QED
    BY <1>1, <2>1, <2>2 DEF Below
<1>2. CASE ~(sessions[s].open /\ link.socket = s /\ Connected)
  <2>1. down' = down
    BY <1>2 DEF Reply
  <2> QED
    BY <1>2, <2>1 DEF Below, Typed
<1> QED
  BY <1>1, <1>2

\* What the server does leaves the client as it was: it need only keep what is under way.
LEMMA ServerKeeps ==
  ASSUME IInv, Typed', Heard', ChannelsOk', UNCHANGED client,
         Connected /\ Authenticating => Authenticating',
         \A c \in Calls : Connected /\ Acting(c) => Acting(c)'
  PROVE  IInv'
<1>1. /\ link' = link /\ binding' = binding /\ epochs' = epochs /\ calls' = calls
      /\ Connected' = Connected
  BY DEF client, Connected
<1>2. Linked' /\ Firm' /\ Fresh' /\ PendingLinked'
  BY <1>1 DEF IInv, Linked, Firm, Fresh, PendingLinked
<1>3. GateOk'
  BY <1>1 DEF IInv, GateOk
<1>4. CallsOk'
  BY <1>1 DEF IInv, CallsOk, PendingLinked
<1> QED
  BY <1>2, <1>3, <1>4 DEF IInv

\* A step of which the channels do not hear, while what is under way stays so.
LEMMA ChannelsKept ==
  ASSUME IInv, link' = link, member' = member, binding = None => binding' = None,
         \A j \in Work' : j.kind = "auth" /\ j.read => j \in Work \/ j.channels = member,
         Connected => \/ sessions'[link.socket].token = None
                      \/ /\ sessions'[link.socket].token = sessions[link.socket].token
                         /\ sessions'[link.socket].channels = sessions[link.socket].channels,
         Connected /\ sessions[link.socket].token # None /\ Moving => Moving'
  PROVE  ChannelsOk'
  BY DEF IInv, ChannelsOk, NoOverlap, ReadsCurrent, Subscribed, Connected

\* A step after which there is no binding on a socket, or it is about to be made again.
LEMMA ChannelsAnew ==
  ASSUME IInv, member' = member, Work' \subseteq Work,
         Connected' /\ binding' # None => Moving'
  PROVE  ChannelsOk'
  BY DEF IInv, ChannelsOk, NoOverlap, ReadsCurrent, Subscribed

\* One session changes.
LEMMA OneSession ==
  ASSUME Typed, NEW s \in Sockets, NEW e \in ProtocolSessions,
         sessions' = [sessions EXCEPT ![s] = e]
  PROVE  /\ sessions' \in [Sockets -> ProtocolSessions] /\ sessions'[s] = e
         /\ \A r \in Sockets \ {s} : sessions'[r] = sessions[r]
  BY DEF Typed

LEMMA JobKinds ==
  ASSUME Typed, NEW n \in DOMAIN jobs
  PROVE  /\ jobs[n] \in AuthJobs \cup ActionJobs /\ jobs[n] \in Work
         /\ jobs[n].socket \in Sockets /\ jobs[n].token \in Nat
         /\ jobs[n].read \in BOOLEAN /\ jobs[n].ok \in BOOLEAN
         /\ jobs[n].kind = "auth" => jobs[n] \in AuthJobs
         /\ jobs[n].kind = "action" => jobs[n] \in ActionJobs
<1>1. jobs[n] \in AuthJobs \cup ActionJobs
  BY DEF Typed
<1>2. jobs[n] \in Work
  BY DEF Work, ToSet
<1> QED
  BY <1>1, <1>2 DEF AuthJobs, ActionJobs

LEMMA ServeInv == ASSUME IInv, NEW s \in Sockets, ServeFrame(s) PROVE IInv'
<1> DEFINE f == Head(up[s])
<1>1. Typed /\ Linked /\ Heard
  BY DEF IInv
<1>2. up[s] \in Seq(UpFrames) /\ up[s] # <<>> /\ sessions[s].open
  BY <1>1 DEF ServeFrame, Typed
<1>3. /\ Tail(up[s]) \in Seq(UpFrames) /\ f \in UpFrames
      /\ ToSet(up[s]) = ToSet(Tail(up[s])) \cup {f}
  BY <1>2, TailSet
<1> HIDE DEF f
<1>4. /\ up' = [up EXCEPT ![s] = Tail(up[s])]
      /\ UNCHANGED client /\ UNCHANGED <<sessions, valid, member, notices, changes>>
      /\ \/ /\ f.kind = "authenticate"
            /\ jobs' = Append(jobs, AuthJob(s, f.token))
            /\ UNCHANGED down
         \/ /\ f.kind = "request" /\ sessions[s].token # None
            /\ jobs' = Append(jobs, ActionJob(s, sessions[s].token, f.call))
            /\ UNCHANGED down
         \/ /\ f.kind = "request" /\ sessions[s].token = None
            /\ Reply(s, Response(f.call, FALSE))
            /\ UNCHANGED jobs
  BY DEF ServeFrame, f
<1>5. link' = link /\ Connected' = Connected
  BY <1>4 DEF client, Connected
<1>6. /\ up' \in [Sockets -> Seq(UpFrames)]
      /\ link.socket \in Sockets => /\ Above = Above' \/ (link.socket = s /\ Above = Above' \cup {f})
  BY <1>1, <1>3, <1>4, <1>5 DEF Typed, Above
<1>7. CASE f.kind = "authenticate"
  <2>1. f.token \in Nat
    BY <1>3, <1>7 DEF UpFrames
  <2>2. AuthJob(s, f.token) \in AuthJobs
    BY <2>1 DEF AuthJob, AuthJobs
  <2>3. jobs' = Append(jobs, AuthJob(s, f.token)) /\ down' = down
    BY <1>4, <1>7
  <2>4. jobs' \in Seq(AuthJobs \cup ActionJobs) /\ Work' = Work \cup {AuthJob(s, f.token)}
    <3>1. AuthJob(s, f.token) \in AuthJobs \cup ActionJobs /\ jobs \in Seq(AuthJobs \cup ActionJobs)
      BY <1>1, <2>2 DEF Typed
    <3> QED
      BY <2>3, <3>1, AppendSet DEF Work
  <2>5. Typed' /\ Heard'
    BY <1>1, <1>4, <1>5, <1>6, <2>3, <2>4 DEF Typed, Heard, client
  <2>6. Below' = Below
    BY <1>5, <2>3 DEF Below
  <2>7. AuthJob(s, f.token).kind = "auth" /\ AuthJob(s, f.token).socket = s
    BY DEF AuthJob
  <2>8. Connected /\ Authenticating => Authenticating'
    BY <1>1, <1>5, <1>6, <2>4, <2>6, <2>7 DEF Authenticating, Linked, Connected
  <2>9. \A c \in Calls : Request(c) # f
    BY <1>7 DEF Request
  <2>10. \A c \in Calls : Connected /\ Acting(c) => Acting(c)'
    BY <1>1, <1>5, <1>6, <2>4, <2>6, <2>9 DEF Acting, Linked, Connected
  <2>11. Connected /\ Moving => Moving'
    BY <1>1, <1>4, <1>5, <1>6, <2>4, <2>6, <2>7 DEF Moving, Linked, Connected
  <2>12. ChannelsOk'
    <3>1. ~AuthJob(s, f.token).read
      BY DEF AuthJob
    <3> QED
      BY <1>4, <1>5, <2>4, <2>11, <3>1, ChannelsKept DEF client
  <2> QED
    BY <1>4, <2>5, <2>8, <2>10, <2>12, ServerKeeps
<1>8. CASE f.kind = "request"
  <2>1. f.call \in Calls /\ f = Request(f.call)
    BY <1>3, <1>8 DEF UpFrames, Request
  <2>2. CASE sessions[s].token # None
    <3> DEFINE j == ActionJob(s, sessions[s].token, f.call)
    <3>1. sessions[s].token \in Nat
      BY <1>1, <2>2 DEF Typed, ProtocolSessions
    <3>2. j \in ActionJobs /\ j.kind = "action" /\ j.socket = s /\ j.call = f.call
      BY <2>1, <3>1 DEF ActionJob, ActionJobs
    <3>3. jobs' = Append(jobs, j) /\ down' = down
      BY <1>4, <1>8, <2>2
    <3> HIDE DEF j
    <3>4. jobs' \in Seq(AuthJobs \cup ActionJobs) /\ Work' = Work \cup {j}
      <4>1. j \in AuthJobs \cup ActionJobs /\ jobs \in Seq(AuthJobs \cup ActionJobs)
        BY <1>1, <3>2 DEF Typed
      <4> QED
        BY <3>3, <4>1, AppendSet DEF Work
    <3>5. Typed' /\ Heard'
      BY <1>1, <1>4, <1>5, <1>6, <3>3, <3>4 DEF Typed, Heard, client
    <3>6. Below' = Below
      BY <1>5, <3>3 DEF Below
    <3>7. Connected /\ Authenticating => Authenticating'
      BY <1>1, <1>5, <1>6, <1>8, <3>4, <3>6 DEF Authenticating, Linked, Connected
    <3>8. \A c \in Calls : Request(c) = f => c = f.call
      BY DEF Request
    <3>9. \A c \in Calls : Connected /\ Acting(c) => Acting(c)'
      BY <1>1, <1>5, <1>6, <3>2, <3>4, <3>6, <3>8 DEF Acting, Linked, Connected
    <3>10. Connected /\ Moving => Moving'
      BY <1>1, <1>4, <1>5, <1>6, <1>8, <3>4, <3>6 DEF Moving, Linked, Connected
    <3>11. ChannelsOk'
      BY <1>4, <1>5, <3>2, <3>4, <3>10, ChannelsKept DEF client
    <3> QED
      BY <1>4, <3>5, <3>7, <3>9, <3>11, ServerKeeps
  <2>3. CASE sessions[s].token = None
    <3>1. Reply(s, Response(f.call, FALSE)) /\ jobs' = jobs
      BY <1>4, <1>8, <2>3
    <3>2. Response(f.call, FALSE) \in DownFrames
      BY <2>1, FramesTyped
    <3>3. /\ down' \in [Sockets -> Seq(DownFrames)]
          /\ link.socket \in Sockets => Below \subseteq Below'
          /\ Connected /\ link.socket = s => Response(f.call, FALSE) \in Below'
      BY <1>1, <1>2, <1>5, <3>1, <3>2, Replied DEF Below
    <3>4. Typed' /\ Heard'
      BY <1>1, <1>4, <1>5, <1>6, <3>1, <3>3 DEF Typed, Heard, client
    <3>5. Work' = Work
      BY <3>1 DEF Work
    <3>6. Connected /\ Authenticating => Authenticating'
      BY <1>1, <1>5, <1>6, <1>8, <3>3, <3>5 DEF Authenticating, Linked, Connected
    <3>7. \A c \in Calls : Request(c) = f => c = f.call
      BY DEF Request
    <3>8. \A c \in Calls : Connected /\ Acting(c) => Acting(c)'
      BY <1>1, <1>5, <1>6, <3>3, <3>5, <3>7 DEF Acting, Linked, Connected
    <3>9. Connected /\ Moving => Moving'
      BY <1>1, <1>4, <1>5, <1>6, <1>8, <3>3, <3>5 DEF Moving, Linked, Connected
    <3>10. ChannelsOk'
      BY <1>4, <1>5, <3>5, <3>9, ChannelsKept DEF client
    <3> QED
      BY <1>4, <3>4, <3>6, <3>8, <3>10, ServerKeeps
  <2> QED
    BY <2>2, <2>3
<1> QED
  BY <1>4, <1>7, <1>8

\* A job that has read the database goes on with what it has read.
LEMMA JobReads ==
  ASSUME IInv, NEW n \in DOMAIN jobs, NEW j \in AuthJobs \cup ActionJobs,
         jobs' = [jobs EXCEPT ![n] = j],
         j.kind = jobs[n].kind, j.socket = jobs[n].socket,
         j.kind = "action" => j.call = jobs[n].call,
         j.kind = "auth" => j.channels = member,
         UNCHANGED <<client, sessions, member, notices, changes, up, down>>
  PROVE  IInv'
<1>1. /\ jobs' \in Seq(AuthJobs \cup ActionJobs) /\ Work \subseteq Work' \cup {jobs[n]}
      /\ j \in Work'
  BY ReplacedSet DEF IInv, Typed, Work
<1>2. Typed' /\ Heard'
  BY <1>1 DEF IInv, Typed, Heard, Connected, client
<1>3. Above' = Above /\ Below' = Below /\ link' = link
  BY DEF Above, Below, client
<1>4. Authenticating => Authenticating'
  BY <1>1, <1>3 DEF Authenticating
<1>5. \A c \in Calls : Acting(c) => Acting(c)'
  BY <1>1, <1>3 DEF Acting
<1>6. Moving => Moving'
  BY <1>1, <1>3 DEF Moving
<1>7. ChannelsOk'
  <2>1. Work' \subseteq Work \cup {j}
    BY ReplacedSet DEF IInv, Typed, Work
  <2> QED
    BY <1>6, <2>1, ChannelsKept DEF client
<1> QED
  BY <1>2, <1>4, <1>5, <1>7, ServerKeeps

LEMMA ReadInv == ASSUME IInv, NEW n \in DOMAIN jobs, ReadAuthentication(n) PROVE IInv'
<1> DEFINE known == jobs[n].token \in valid
           j == [jobs[n] EXCEPT !.read = TRUE, !.ok = known, !.channels = member]
<1>1. jobs[n] \in AuthJobs /\ member \subseteq Groups
  BY JobKinds DEF IInv, ReadAuthentication, Typed
<1>2. j \in AuthJobs /\ j.kind = "auth" /\ j.socket = jobs[n].socket /\ j.channels = member
  <2>1. known \in BOOLEAN
    OBVIOUS
  <2> HIDE DEF known
  <2> QED
    BY <1>1, <2>1 DEF AuthJobs
<1>3. jobs' = [jobs EXCEPT ![n] = j]
  BY DEF ReadAuthentication
<1>4. UNCHANGED <<client, sessions, member, notices, changes, up, down>> /\ jobs[n].kind = "auth"
  BY DEF ReadAuthentication
<1> HIDE DEF j
<1> QED
  BY <1>2, <1>3, <1>4, JobReads

LEMMA RunInv == ASSUME IInv, NEW n \in DOMAIN jobs, RunAction(n) PROVE IInv'
<1>1. jobs[n] \in ActionJobs /\ jobs[n].kind = "action"
  BY JobKinds DEF IInv, RunAction
<1>2. PICK ok \in BOOLEAN : jobs' = [jobs EXCEPT ![n].read = TRUE, ![n].ok = ok]
  BY DEF RunAction
<1> DEFINE j == [jobs[n] EXCEPT !.read = TRUE, !.ok = ok]
<1>3. jobs' = [jobs EXCEPT ![n] = j]
  BY <1>2
<1>4. /\ j \in ActionJobs /\ j.kind = jobs[n].kind /\ j.socket = jobs[n].socket
      /\ j.call = jobs[n].call
  BY <1>1 DEF ActionJobs
<1>5. UNCHANGED <<client, sessions, member, notices, changes, up, down>>
  BY DEF RunAction
<1> HIDE DEF j
<1> QED
  BY <1>1, <1>3, <1>4, <1>5, JobReads

LEMMA EndAuthInv == ASSUME IInv, NEW n \in DOMAIN jobs, EndAuthentication(n) PROVE IInv'
<1> DEFINE j == jobs[n]
           f == Authenticated(j.token, j.ok)
<1>1. Typed /\ Linked /\ Heard
  BY DEF IInv
<1>2. j.kind = "auth" /\ jobs' = RemoveAt(jobs, n) /\ Reply(j.socket, f) /\ up' = up
      /\ UNCHANGED client /\ UNCHANGED <<valid, member, notices, changes>>
      /\ sessions' = IF j.ok THEN [sessions EXCEPT ![j.socket] = Bound(j.socket, j)] ELSE sessions
  BY DEF EndAuthentication, Without
<1>3. j \in AuthJobs /\ j \in Work /\ j.socket \in Sockets /\ j.token \in Nat /\ j.ok \in BOOLEAN
      /\ j.channels \subseteq Groups
  BY <1>1, <1>2, JobKinds DEF AuthJobs
<1>4. jobs' \in Seq(AuthJobs \cup ActionJobs) /\ Work = Work' \cup {j}
  BY <1>1, <1>2, WithoutSet DEF Work, Typed
<1> HIDE DEF j
<1>5. f \in DownFrames /\ f.kind = "authenticated"
  BY <1>3, FramesTyped DEF Authenticated
<1> HIDE DEF f
<1>6. link' = link /\ Connected' = Connected
  BY <1>2 DEF client, Connected
<1>7. /\ down' \in [Sockets -> Seq(DownFrames)]
      /\ link.socket \in Sockets => Below \subseteq Below'
      /\ Connected /\ link.socket = j.socket => f \in Below'
  BY <1>1, <1>2, <1>3, <1>5, <1>6, Replied DEF Below, Heard
<1>8. /\ sessions' \in [Sockets -> ProtocolSessions]
      /\ \A s \in Sockets : /\ sessions'[s].open = sessions[s].open
                             /\ \/ sessions'[s] = sessions[s]
                                \/ j.ok /\ s = j.socket /\ sessions'[s].channels = j.channels
  <2> DEFINE b == Bound(j.socket, j)
  <2>1. sessions[j.socket] \in ProtocolSessions
    BY <1>1, <1>3 DEF Typed
  <2>2. b \in ProtocolSessions /\ b.open = sessions[j.socket].open /\ b.channels = j.channels
    BY <1>3, <2>1 DEF Bound, ProtocolSessions
  <2>3. sessions' = IF j.ok THEN [sessions EXCEPT ![j.socket] = b] ELSE sessions
    BY <1>2
  <2> HIDE DEF b
  <2>4. CASE j.ok
    BY <1>1, <1>3, <2>2, <2>3, <2>4, OneSession
  <2>5. CASE ~j.ok
    BY <1>1, <2>3, <2>5 DEF Typed
  <2> QED
    BY <2>4, <2>5
<1>9. Typed' /\ Heard'
  <2>1. Typed'
    BY <1>1, <1>2, <1>4, <1>6, <1>7, <1>8 DEF Typed, client
  <2>2. Heard'
    BY <1>1, <1>6, <1>8 DEF Heard, Linked, Connected
  <2> QED
    BY <2>1, <2>2
<1>10. Above' = Above
  BY <1>2, <1>6 DEF Above
<1>11. Connected /\ Authenticating => Authenticating'
  BY <1>1, <1>4, <1>5, <1>6, <1>7, <1>10 DEF Authenticating, Linked, Connected
<1>12. \A c \in Calls : Connected /\ Acting(c) => Acting(c)'
  BY <1>1, <1>2, <1>4, <1>6, <1>7, <1>10 DEF Acting, Linked, Connected
<1>13. ChannelsOk'
  <2> SUFFICES ASSUME NoOverlap, ReadsCurrent, Subscribed PROVE ReadsCurrent' /\ Subscribed'
    BY DEF IInv, ChannelsOk, NoOverlap
  <2>1. ReadsCurrent'
    BY <1>2, <1>4 DEF ReadsCurrent
  <2>2. j.channels = member
    BY <1>2, <1>3 DEF ReadsCurrent, EndAuthentication, j
  <2>3. Subscribed'
    <3>1. SUFFICES ASSUME Connected, binding # None,
                          sessions'[link.socket].token # None,
                          sessions'[link.socket].channels # member
                   PROVE  Moving'
      BY <1>2, <1>6 DEF Subscribed, client
    <3>2. link.socket \in Sockets
      BY <1>1, <3>1 DEF Linked, Connected
    <3>3. sessions'[link.socket] = sessions[link.socket]
      BY <1>8, <2>2, <3>1, <3>2
    <3>4. Moving
      BY <3>1, <3>3 DEF Subscribed
    <3>5. CASE j.socket = link.socket /\ ~j.ok
      <4>1. f \in Below' /\ ~f.ok
        BY <1>7, <3>1, <3>5 DEF f, Authenticated
      <4> QED
        BY <1>5, <4>1 DEF Moving
    <3>6. CASE j.socket = link.socket /\ j.ok
      <4>1. sessions'[link.socket].channels = j.channels
        BY <1>2, <1>1, <3>2, <3>6 DEF Typed, Bound
      <4> QED
        BY <2>2, <3>1, <4>1
    <3>7. CASE j.socket # link.socket
      BY <1>2, <1>4, <1>6, <1>7, <1>10, <3>2, <3>4, <3>7 DEF Moving
    <3> QED
      BY <3>5, <3>6, <3>7
  <2> QED
    BY <2>1, <2>3
<1> QED
  BY <1>2, <1>9, <1>11, <1>12, <1>13, ServerKeeps

LEMMA EndActionInv == ASSUME IInv, NEW n \in DOMAIN jobs, EndAction(n) PROVE IInv'
<1> DEFINE j == jobs[n]
           f == Response(j.call, j.ok)
<1>1. Typed /\ Linked /\ Heard
  BY DEF IInv
<1>2. j.kind = "action" /\ jobs' = RemoveAt(jobs, n) /\ Reply(j.socket, f) /\ up' = up
      /\ UNCHANGED client /\ UNCHANGED <<valid, member, notices, changes>>
      /\ sessions' = IF j.ok /\ j.call = LogoutCall
                     THEN [sessions EXCEPT ![j.socket].token = None, ![j.socket].channels = {}]
                     ELSE sessions
  BY DEF EndAction, Without
<1>3. j \in ActionJobs /\ j \in Work /\ j.socket \in Sockets /\ j.call \in Calls /\ j.ok \in BOOLEAN
  BY <1>1, <1>2, JobKinds DEF ActionJobs
<1>4. jobs' \in Seq(AuthJobs \cup ActionJobs) /\ Work = Work' \cup {j}
  BY <1>1, <1>2, WithoutSet DEF Work, Typed
<1> HIDE DEF j
<1>5. f \in DownFrames
  BY <1>3, FramesTyped
<1>6. link' = link /\ Connected' = Connected
  BY <1>2 DEF client, Connected
<1>7. /\ down' \in [Sockets -> Seq(DownFrames)]
      /\ link.socket \in Sockets => Below \subseteq Below'
      /\ Connected /\ link.socket = j.socket => f \in Below'
  BY <1>1, <1>2, <1>3, <1>5, <1>6, Replied DEF Below, Heard
<1>8. /\ sessions' \in [Sockets -> ProtocolSessions]
      /\ \A s \in Sockets : /\ sessions'[s].open = sessions[s].open
                             /\ (sessions'[s] = sessions[s] \/ sessions'[s].token = None)
  <2> DEFINE unbound == [sessions[j.socket] EXCEPT !.token = None, !.channels = {}]
  <2>1. sessions[j.socket] \in ProtocolSessions
    BY <1>1, <1>3 DEF Typed
  <2>2. unbound \in ProtocolSessions /\ unbound.open = sessions[j.socket].open /\ unbound.token = None
    BY <2>1 DEF ProtocolSessions
  <2>3. sessions' = [sessions EXCEPT ![j.socket] = unbound] \/ sessions' = sessions
    BY <1>1, <1>2, <1>3 DEF Typed
  <2> HIDE DEF unbound
  <2>4. CASE sessions' = [sessions EXCEPT ![j.socket] = unbound]
    BY <1>1, <1>3, <2>2, <2>4, OneSession
  <2>5. CASE sessions' = sessions
    BY <1>1, <2>5 DEF Typed
  <2> QED
    BY <2>3, <2>4, <2>5
<1>9. Typed' /\ Heard'
  <2>1. Typed'
    BY <1>1, <1>2, <1>4, <1>6, <1>7, <1>8 DEF Typed, client
  <2>2. Heard'
    BY <1>1, <1>6, <1>8 DEF Heard, Linked, Connected
  <2> QED
    BY <2>1, <2>2
<1>10. Above' = Above
  BY <1>2, <1>6 DEF Above
<1>11. Connected /\ Authenticating => Authenticating'
  BY <1>1, <1>2, <1>4, <1>6, <1>7, <1>10 DEF Authenticating, Linked, Connected
<1>12. \A c \in Calls : Connected /\ Acting(c) => Acting(c)'
  <2> SUFFICES ASSUME NEW c \in Calls, Connected, Acting(c) PROVE Acting(c)'
    OBVIOUS
  <2>1. CASE c = j.call /\ j.socket = link.socket
    BY <1>3, <1>6, <1>7, <2>1 DEF Acting
  <2>2. CASE ~(c = j.call /\ j.socket = link.socket)
    BY <1>1, <1>4, <1>6, <1>7, <1>10, <2>2 DEF Acting, Linked, Connected
  <2> QED
    BY <2>1, <2>2
<1>13. Connected /\ Moving => Moving'
  BY <1>1, <1>2, <1>4, <1>6, <1>7, <1>10 DEF Moving, Linked, Connected
<1>14. ChannelsOk'
  <2>1. Connected => \/ sessions'[link.socket].token = None
                     \/ sessions'[link.socket] = sessions[link.socket]
    BY <1>1, <1>8 DEF Linked, Connected
  <2> QED
    BY <1>2, <1>4, <1>6, <1>13, <2>1, ChannelsKept DEF client
<1> QED
  BY <1>2, <1>9, <1>11, <1>12, <1>14, ServerKeeps

LEMMA CloseInv == ASSUME IInv, NEW s \in Sockets, CloseSession(s) PROVE IInv'
<1>1. Typed /\ Linked /\ Heard
  BY DEF IInv
<1>2. /\ ~(Connected /\ link.socket = s)
      /\ sessions' = [sessions EXCEPT ![s] = [open |-> FALSE, token |-> None, channels |-> {}]]
      /\ up' = [up EXCEPT ![s] = <<>>]
      /\ UNCHANGED client /\ UNCHANGED <<jobs, valid, member, notices, changes, down>>
  BY DEF CloseSession
<1>3. link' = link /\ Connected' = Connected /\ Below' = Below /\ Work' = Work
  BY <1>2 DEF client, Connected, Below, Work
<1>4. up' \in [Sockets -> Seq(UpFrames)]
  BY <1>1, <1>2, EmptySet DEF Typed
<1>5. Typed' /\ Heard'
  <2>1. [open |-> FALSE, token |-> None, channels |-> {}] \in ProtocolSessions
    BY DEF ProtocolSessions
  <2>2. sessions' \in [Sockets -> ProtocolSessions] /\ \A r \in Sockets \ {s} : sessions'[r] = sessions[r]
    BY <1>1, <1>2, <2>1, OneSession
  <2> QED
    BY <1>1, <1>2, <1>3, <1>4, <2>2 DEF Typed, Heard, Linked, Connected, client
<1>6. Connected => Above' = Above
  BY <1>1, <1>2, <1>3 DEF Above, Linked, Connected, Typed
<1>7. Connected /\ Authenticating => Authenticating'
  BY <1>3, <1>6 DEF Authenticating
<1>8. \A c \in Calls : Connected /\ Acting(c) => Acting(c)'
  BY <1>3, <1>6 DEF Acting
<1>9. Connected /\ Moving => Moving'
  BY <1>2, <1>3, <1>6 DEF Moving
<1>10. ChannelsOk'
  <2>1. Connected => sessions'[link.socket] = sessions[link.socket]
    BY <1>1, <1>2 DEF Typed, Linked, Connected
  <2> QED
    BY <1>2, <1>3, <1>9, <2>1, ChannelsKept DEF client
<1> QED
  BY <1>2, <1>5, <1>7, <1>8, <1>10, ServerKeeps

LEMMA ChangeInv == ASSUME IInv, NEW g \in Groups, ChangeMembership(g) PROVE IInv'
<1>1. /\ UNCHANGED client /\ UNCHANGED <<sessions, jobs, valid, up, down>>
      /\ member' = (member \ {g}) \cup ({g} \ member)
      /\ notices' = notices + 1 /\ changes' = changes + 1
  BY DEF ChangeMembership
<1>2. Typed' /\ Heard'
  BY <1>1 DEF IInv, Typed, Heard, Connected, client
<1>3. Above' = Above /\ Below' = Below /\ Work' = Work /\ link' = link
  BY <1>1 DEF Above, Below, Work, client
<1>4. ChannelsOk'
  <2> SUFFICES ASSUME NoOverlap PROVE ReadsCurrent' /\ Subscribed'
    BY DEF ChannelsOk, NoOverlap
  <2>1. \A n \in DOMAIN jobs : ~(jobs[n].kind = "auth" /\ jobs[n].read)
    BY DEF ChangeMembership, Outstanding, NoOverlap
  <2>2. \A j \in Work' : ~(j.kind = "auth" /\ j.read)
    BY <1>3, <2>1 DEF Work, ToSet
  <2>3. notices' > 0
    BY <1>1 DEF IInv, Typed
  <2> QED
    BY <2>2, <2>3 DEF ReadsCurrent, Subscribed, Moving
<1> QED
  BY <1>1, <1>2, <1>3, <1>4, ServerKeeps DEF Authenticating, Acting

LEMMA PublishInv == ASSUME IInv, PublishResubscribe PROVE IInv'
<1> DEFINE gets(s) == sessions[s].open /\ sessions[s].token # None
                        /\ Connected /\ link.socket = s
<1>1. Typed /\ Linked /\ Heard
  BY DEF IInv
<1>2. /\ notices > 0 /\ notices' = notices - 1
      /\ down' = [s \in Sockets |-> IF gets(s) THEN Append(down[s], Resubscribe) ELSE down[s]]
      /\ UNCHANGED client /\ UNCHANGED <<sessions, jobs, valid, member, changes, up>>
  BY DEF PublishResubscribe
<1> HIDE DEF gets
<1>3. \A s \in Sockets : /\ down'[s] \in Seq(DownFrames)
                         /\ ToSet(down[s]) \subseteq ToSet(down'[s])
  <2> TAKE s \in Sockets
  <2>1. down[s] \in Seq(DownFrames) /\ Resubscribe \in DownFrames
    BY <1>1, FramesTyped DEF Typed
  <2>2. /\ Append(down[s], Resubscribe) \in Seq(DownFrames)
        /\ ToSet(Append(down[s], Resubscribe)) = ToSet(down[s]) \cup {Resubscribe}
    BY <2>1, AppendSet
  <2> QED
    BY <1>2, <2>1, <2>2
<1>4. down' \in [Sockets -> Seq(DownFrames)]
  BY <1>2, <1>3
<1>5. link' = link /\ Connected' = Connected /\ Above' = Above /\ Work' = Work
  BY <1>2 DEF client, Connected, Above, Work
<1>6. Typed' /\ Heard'
  BY <1>1, <1>2, <1>4, <1>5 DEF Typed, Heard, client
<1>7. Connected => Below \subseteq Below'
  BY <1>1, <1>3, <1>5 DEF Below, Linked, Connected
<1>8. Connected /\ Authenticating => Authenticating'
  BY <1>5, <1>7 DEF Authenticating
<1>9. \A c \in Calls : Connected /\ Acting(c) => Acting(c)'
  BY <1>5, <1>7 DEF Acting
<1>10. Connected /\ sessions[link.socket].token # None => Resubscribe \in Below'
  <2> SUFFICES ASSUME Connected, sessions[link.socket].token # None PROVE Resubscribe \in Below'
    OBVIOUS
  <2>1. link.socket \in Sockets /\ gets(link.socket)
    BY <1>1 DEF Linked, Connected, Heard, gets
  <2>2. down'[link.socket] = Append(down[link.socket], Resubscribe)
    BY <1>2, <2>1
  <2>3. down[link.socket] \in Seq(DownFrames) /\ Resubscribe \in DownFrames
    BY <1>1, <2>1, FramesTyped DEF Typed
  <2>4. ToSet(Append(down[link.socket], Resubscribe)) = ToSet(down[link.socket]) \cup {Resubscribe}
    BY <2>3, AppendSet
  <2> QED
    BY <1>5, <2>2, <2>4 DEF Below
<1>11. ChannelsOk'
  BY <1>2, <1>5, <1>10, ChannelsKept DEF client, Moving
<1> QED
  BY <1>2, <1>6, <1>8, <1>9, <1>11, ServerKeeps

-----------------------------------------------------------------------------
(* The client. *)

\* The client has no socket: nothing waits for one.
LEMMA UnlinkedInv ==
  ASSUME IInv, NEW kind \in {"cooldown", "offline"}, Unlinked(kind),
         down' \in [Sockets -> Seq(DownFrames)], UNCHANGED <<epochs, server, up>>
  PROVE  IInv'
<1>1. /\ link' = [kind |-> kind, socket |-> link.socket] /\ ~Connected'
      /\ binding' = IF binding = None THEN None ELSE [binding EXCEPT !.authenticated = FALSE]
      /\ calls' = [c \in Calls |-> AfterLoss(calls[c])]
  BY DEF Unlinked, Connected
<1>2. \A c \in Calls : /\ calls'[c] \in [at : Ats, epoch : Nat]
                       /\ calls'[c].at \notin {"attempt", "pending"}
  BY <1>1 DEF IInv, Typed, AfterLoss, Ats
<1>3. /\ binding' \in Bindings \cup {None} /\ ~(binding' # None /\ binding'.authenticated)
      /\ binding = None => binding' = None
  BY <1>1 DEF IInv, Typed, Bindings
<1>4. Typed'
  BY <1>1, <1>2, <1>3 DEF IInv, Typed, server
<1>5. Linked' /\ Heard' /\ Firm' /\ Fresh' /\ PendingLinked' /\ GateOk' /\ CallsOk'
  BY <1>1, <1>2, <1>3
  DEF IInv, Linked, Heard, Firm, Fresh, PendingLinked, GateOk, CallsOk
<1>6. ChannelsOk'
  BY <1>1, ChannelsAnew DEF server, Work
<1> QED
  BY <1>4, <1>5, <1>6 DEF IInv

LEMMA LoseInv == ASSUME IInv, Lose PROVE IInv'
<1>1. down' \in [Sockets -> Seq(DownFrames)]
  BY EmptySet DEF Lose, IInv, Typed
<1> QED
  BY <1>1, UnlinkedInv DEF Lose

LEMMA ForceOfflineInv == ASSUME IInv, ForceOffline PROVE IInv'
<1>1. down' \in [Sockets -> Seq(DownFrames)]
  BY EmptySet DEF ForceOffline
<1> QED
  BY <1>1, UnlinkedInv DEF ForceOffline

\* A new attempt begins where there was no socket.
LEMMA AttemptInv ==
  ASSUME IInv, link.kind \in {"stopped", "cooldown", "offline"}, link.socket < MaxSockets,
         link' = [kind |-> "connecting", socket |-> link.socket + 1],
         UNCHANGED <<binding, epochs, calls, server, up, down>>
  PROVE  IInv'
<1>1. ~Connected /\ ~Connected' /\ MaxSockets \in Nat /\ link'.kind = "connecting"
  BY LinkAssumption DEF Connected
<1>2. link' \in [kind : {"stopped", "connecting", "connected", "cooldown", "offline"}, socket : Nat]
      /\ link'.socket <= MaxSockets /\ link'.socket \in Sockets
  BY <1>1 DEF IInv, Typed, Sockets
<1>3. Typed'
  BY <1>2 DEF IInv, Typed, server
<1>4. Linked' /\ Heard' /\ Firm' /\ Fresh' /\ PendingLinked' /\ GateOk' /\ CallsOk'
  BY <1>1, <1>2 DEF IInv, Linked, Heard, Firm, Fresh, PendingLinked, GateOk, CallsOk
<1>5. ChannelsOk'
  BY <1>1, ChannelsAnew DEF server, Work
<1> QED
  BY <1>3, <1>4, <1>5 DEF IInv

LEMMA GreetingSet ==
  ASSUME Typed
  PROVE  /\ Greeting \in Seq(UpFrames)
         /\ binding # None => \E f \in ToSet(Greeting) : f.kind = "authenticate"
<1>1. CASE binding = None
  BY <1>1, EmptySet DEF Greeting
<1>2. CASE binding # None
  <2> DEFINE f == Authenticate(binding.token)
  <2>1. f \in UpFrames /\ f.kind = "authenticate"
    BY <1>2, FramesTyped DEF Typed, Bindings, Authenticate
  <2>2. Greeting = <<f>>
    BY <1>2 DEF Greeting
  <2> HIDE DEF f
  <2> QED
    BY <2>1, <2>2, OneSet
<1> QED
  BY <1>1, <1>2

LEMMA ConnectInv == ASSUME IInv, Connect PROVE IInv'
<1>1. Typed /\ Linked /\ Firm /\ Fresh /\ PendingLinked /\ CallsOk
  BY DEF IInv
<1>2. /\ link.kind = "connecting" /\ link' = [link EXCEPT !.kind = "connected"]
      /\ calls' = [c \in Calls |-> PastAttempt(calls[c])]
      /\ up' = [up EXCEPT ![link.socket] = Greeting]
      /\ sessions' = [sessions EXCEPT ![link.socket].open = TRUE]
      /\ UNCHANGED <<binding, epochs, jobs, valid, member, notices, changes, down>>
  BY DEF Connect
<1>3. ~Connected /\ Connected' /\ link.socket \in Sockets /\ link'.socket = link.socket
  BY <1>1, <1>2 DEF Connected, Linked, Typed
<1>4. /\ up' \in [Sockets -> Seq(UpFrames)]
      /\ binding # None => \E f \in Above' : f.kind = "authenticate"
  BY <1>1, <1>2, <1>3, GreetingSet DEF Typed, Above
<1>5. \A c \in Calls : /\ calls'[c] \in [at : Ats, epoch : Nat]
                       /\ calls'[c].at \notin {"attempt", "pending"}
  <2> TAKE c \in Calls
  <2>1. calls[c] \in [at : Ats, epoch : Nat] /\ calls[c].at # "pending"
    BY <1>1, <1>3 DEF Typed, PendingLinked
  <2>2. calls'[c] = PastAttempt(calls[c])
    BY <1>2
  <2> QED
    BY <2>1, <2>2 DEF PastAttempt, Ats
<1>6. /\ sessions' \in [Sockets -> ProtocolSessions]
      /\ sessions'[link.socket].open
  <2> DEFINE e == [sessions[link.socket] EXCEPT !.open = TRUE]
  <2>1. sessions[link.socket] \in ProtocolSessions
    BY <1>1, <1>3 DEF Typed
  <2>2. e \in ProtocolSessions /\ e.open
    BY <2>1 DEF ProtocolSessions
  <2>3. sessions' = [sessions EXCEPT ![link.socket] = e]
    BY <1>2
  <2> HIDE DEF e
  <2> QED
    BY <1>1, <1>3, <2>2, <2>3, OneSession
<1>7. Typed'
  BY <1>1, <1>2, <1>4, <1>5, <1>6 DEF Typed
<1>8. Linked' /\ Heard' /\ Firm' /\ Fresh' /\ PendingLinked'
  BY <1>1, <1>2, <1>3, <1>5, <1>6 DEF Linked, Heard, Firm, Fresh, PendingLinked
<1>9. GateOk'
  BY <1>2, <1>4 DEF GateOk, Authenticating
<1>10. CallsOk'
  BY <1>5 DEF CallsOk
<1>11. ChannelsOk'
  BY <1>2, <1>4, ChannelsAnew DEF Moving, Work
<1> QED
  BY <1>7, <1>8, <1>9, <1>10, <1>11 DEF IInv

\* A binding that has just been made, whose authentication leaves with it.
LEMMA BoundInv ==
  ASSUME IInv, NEW t \in Nat, t > 0,
         binding' = [token |-> t, authenticated |-> FALSE], epochs' = t,
         Send(<<Authenticate(t)>>),
         \A c \in Calls : /\ calls'[c] = calls[c] \/ calls'[c] = [calls[c] EXCEPT !.at = "rejected"]
                          /\ calls'[c].at # "pending",
         calls' \in [Calls -> [at : Ats, epoch : Nat]],
         UNCHANGED <<link, down, sessions, jobs, member, notices, changes>>
  PROVE  IInv'
<1> DEFINE f == Authenticate(t)
<1>1. Typed /\ Linked /\ Heard /\ CallsOk
  BY DEF IInv
<1>2. f \in UpFrames /\ f.kind = "authenticate" /\ Send(<<f>>)
  BY FramesTyped DEF Authenticate
<1> HIDE DEF f
<1>3. <<f>> \in Seq(UpFrames) /\ ToSet(<<f>>) = {f}
  BY <1>2, OneSet
<1>4. /\ up' \in [Sockets -> Seq(UpFrames)]
      /\ Connected => f \in Above'
  BY <1>1, <1>2, <1>3, SentFrames DEF Above
<1>5. binding' \in Bindings /\ ~binding'.authenticated
  BY DEF Bindings
<1>6. Typed'
  BY <1>1, <1>4, <1>5 DEF Typed
<1>7. Connected' = Connected
  BY DEF Connected
<1>8. GateOk'
  BY <1>2, <1>4, <1>7 DEF GateOk, Authenticating
<1>9. CallsOk'
  <2> SUFFICES ASSUME NEW c \in Calls, calls'[c].at = "attempt" PROVE link.kind = "connecting"
    BY DEF CallsOk
  <2>1. calls[c].at = "attempt"
    BY <1>1 DEF Typed
  <2> QED
    BY <1>1, <2>1 DEF CallsOk
<1>10. Linked' /\ Heard' /\ Firm' /\ Fresh' /\ PendingLinked'
  BY <1>1, <1>5, <1>7 DEF Linked, Heard, Firm, Fresh, PendingLinked
<1>11. ChannelsOk'
  BY <1>2, <1>4, <1>7, ChannelsAnew DEF Moving, Work
<1> QED
  BY <1>6, <1>8, <1>9, <1>10, <1>11 DEF IInv

\* What is pending is invalidated with the credential it was sent under.
LEMMA InvalidatedCalls ==
  ASSUME IInv, binding # None, NEW c \in Calls
  PROVE  LET d == Invalidated(calls[c], binding.token)
         IN  /\ d \in [at : Ats, epoch : Nat] /\ d.at # "pending"
             /\ d = calls[c] \/ d = [calls[c] EXCEPT !.at = "rejected"]
<1>1. calls[c] \in [at : Ats, epoch : Nat]
      /\ (calls[c].at = "pending" => calls[c].epoch = binding.token)
  BY DEF IInv, Typed, PendingLinked
<1> QED
  BY <1>1 DEF Invalidated, Ats

LEMMA SignInInv == ASSUME IInv, SignIn PROVE IInv'
<1>1. epochs \in Nat /\ epochs + 1 \in Nat /\ epochs + 1 > 0
  BY DEF IInv, Typed
<1>2. /\ \A c \in Calls : /\ calls'[c] = calls[c] \/ calls'[c] = [calls[c] EXCEPT !.at = "rejected"]
                          /\ calls'[c].at # "pending"
      /\ calls' \in [Calls -> [at : Ats, epoch : Nat]]
  <2>1. CASE binding = None
    BY <2>1 DEF SignIn, IInv, Typed, PendingLinked
  <2>2. CASE binding # None
    <3>1. calls' = [c \in Calls |-> Invalidated(calls[c], binding.token)]
      BY <2>2 DEF SignIn, InvalidateCalls
    <3> QED
      BY <2>2, <3>1, InvalidatedCalls
  <2> QED
    BY <2>1, <2>2
<1>3. /\ binding' = [token |-> epochs + 1, authenticated |-> FALSE] /\ epochs' = epochs + 1
      /\ Send(<<Authenticate(epochs + 1)>>)
      /\ UNCHANGED <<link, down, sessions, jobs, member, notices, changes>>
  BY DEF SignIn
<1> QED
  BY <1>1, <1>2, <1>3, BoundInv

LEMMA RestoreInv == ASSUME IInv, Restore PROVE IInv'
<1>1. calls' = calls /\ binding = None
  BY DEF Restore, IInv, Fresh
<1>2. /\ \A c \in Calls : calls'[c] = calls[c] /\ calls'[c].at # "pending"
      /\ calls' \in [Calls -> [at : Ats, epoch : Nat]]
  BY <1>1 DEF IInv, Typed, PendingLinked
<1>3. /\ binding' = [token |-> 1, authenticated |-> FALSE] /\ epochs' = 1
      /\ Send(<<Authenticate(1)>>)
      /\ UNCHANGED <<link, down, sessions, jobs, member, notices, changes>>
  BY DEF Restore
<1>4. 1 \in Nat /\ 1 > 0
  OBVIOUS
<1> QED
  BY <1>2, <1>3, <1>4, BoundInv

\* The binding falls: nothing that was sent under it is pending any more.
LEMMA UnboundInv ==
  ASSUME IInv, binding' = None, calls' \in [Calls -> [at : Ats, epoch : Nat]],
         \A c \in Calls : calls'[c].at # "pending"
                          /\ (calls'[c].at = "attempt" => calls[c].at = "attempt"),
         down' \in [Sockets -> Seq(DownFrames)],
         UNCHANGED <<link, epochs, sessions, jobs, member, notices, changes, up>>
  PROVE  IInv'
<1>1. Typed' /\ Connected' = Connected
  BY DEF IInv, Typed, Connected
<1>2. Linked' /\ Heard' /\ Firm' /\ Fresh' /\ PendingLinked' /\ GateOk'
  BY <1>1 DEF IInv, Linked, Heard, Firm, Fresh, PendingLinked, GateOk
<1>3. CallsOk'
  BY DEF IInv, CallsOk
<1>4. ChannelsOk'
  BY ChannelsAnew DEF Work
<1> QED
  BY <1>1, <1>2, <1>3, <1>4 DEF IInv

LEMMA ClearActiveInv == ASSUME IInv, ClearActive PROVE IInv'
<1>1. /\ binding # None /\ binding' = None
      /\ calls' = [c \in Calls |-> IF c = LogoutCall THEN [calls[c] EXCEPT !.at = "over"]
                                   ELSE Invalidated(calls[c], binding.token)]
      /\ UNCHANGED <<link, epochs, server, up, down>>
  BY DEF ClearActive
<1>2. \A c \in Calls : /\ calls'[c] \in [at : Ats, epoch : Nat] /\ calls'[c].at # "pending"
                       /\ (calls'[c].at = "attempt" => calls[c].at = "attempt")
  <2> TAKE c \in Calls
  <2>1. calls[c] \in [at : Ats, epoch : Nat]
    BY DEF IInv, Typed
  <2>2. CASE c = LogoutCall
    BY <1>1, <2>1, <2>2 DEF Ats
  <2>3. CASE c # LogoutCall
    <3>1. calls'[c] = Invalidated(calls[c], binding.token)
      BY <1>1, <2>3
    <3>2. calls'[c] \in [at : Ats, epoch : Nat] /\ calls'[c].at # "pending"
          /\ (calls'[c] = calls[c] \/ calls'[c] = [calls[c] EXCEPT !.at = "rejected"])
      BY <1>1, <3>1, InvalidatedCalls
    <3> QED
      BY <2>1, <3>2
  <2> QED
    BY <2>2, <2>3
<1>3. calls' \in [Calls -> [at : Ats, epoch : Nat]] /\ down' \in [Sockets -> Seq(DownFrames)]
  BY <1>1, <1>2 DEF IInv, Typed
<1> QED
  BY <1>1, <1>2, <1>3, UnboundInv DEF server

LEMMA ExpireInv == ASSUME IInv, NEW t \in Tokens, Expire(t) PROVE IInv'
<1>1. UNCHANGED <<client, sessions, jobs, member, notices, changes, up, down>>
  BY DEF Expire
<1>2. Typed' /\ Heard'
  BY <1>1 DEF IInv, Typed, Heard, Connected, client
<1>3. Above' = Above /\ Below' = Below /\ Work' = Work /\ link' = link
  BY <1>1 DEF Above, Below, Work, client
<1>4. ChannelsOk'
  BY <1>1, <1>3, ChannelsKept DEF client, Moving
<1> QED
  BY <1>1, <1>2, <1>3, <1>4, ServerKeeps DEF Authenticating, Acting

LEMMA AskInv == ASSUME IInv, NEW c \in Calls, Ask(c) PROVE IInv'
<1>1. Typed /\ Linked /\ Heard /\ Firm /\ PendingLinked /\ GateOk /\ CallsOk /\ Fresh
  BY DEF IInv
<1>2. /\ calls[c].at = "idle" /\ binding # None /\ binding \in Bindings
      /\ UNCHANGED <<link, binding, epochs, down, server>>
      /\ link' = link /\ binding' = binding /\ down' = down /\ jobs' = jobs
  BY <1>1 DEF Ask, Typed, server
<1>3. Connected' = Connected /\ Below' = Below /\ Work' = Work
  BY <1>2 DEF Connected, Below, Work
<1>4. CASE binding.authenticated
  <2> DEFINE f == Request(c)
  <2>1. calls' = [calls EXCEPT ![c] = [at |-> "pending", epoch |-> binding.token]] /\ Send(<<f>>)
    BY <1>4 DEF Ask, Sent
  <2>2. f \in UpFrames
    BY FramesTyped
  <2>3. Connected
    BY <1>1, <1>2, <1>4 DEF Firm
  <2> HIDE DEF f
  <2>4. up' \in [Sockets -> Seq(UpFrames)] /\ Above' = Above \cup {f}
    BY <1>1, <1>2, <2>1, <2>2, <2>3, OneSet, SentFrames DEF Above
  <2>5. [at |-> "pending", epoch |-> binding.token] \in [at : Ats, epoch : Nat]
    BY <1>2 DEF Bindings, Ats
  <2>6. /\ calls' \in [Calls -> [at : Ats, epoch : Nat]]
        /\ calls'[c].at = "pending" /\ calls'[c].epoch = binding.token
        /\ \A d \in Calls \ {c} : calls'[d] = calls[d]
    BY <1>1, <2>1, <2>5 DEF Typed
  <2>7. Typed'
    BY <1>1, <1>2, <2>4, <2>6 DEF Typed, server
  <2>8. Linked' /\ Heard' /\ Firm' /\ Fresh' /\ PendingLinked' /\ GateOk'
    BY <1>1, <1>2, <1>3, <1>4, <2>3, <2>6
    DEF Linked, Heard, Firm, Fresh, PendingLinked, GateOk, server
  <2>9. CallsOk'
    <3> SUFFICES ASSUME NEW d \in Calls
                 PROVE  /\ calls'[d].at = "pending" => Acting(d)'
                        /\ calls'[d].at = "attempt" => link'.kind = "connecting"
      BY DEF CallsOk
    <3>1. CASE d = c
      BY <2>4, <2>6, <3>1 DEF Acting, f
    <3>2. CASE d # c
      <4>1. calls'[d] = calls[d]
        BY <2>6, <3>2
      <4>2. Acting(d) => Acting(d)'
        BY <1>2, <1>3, <2>4 DEF Acting
      <4> QED
        BY <1>1, <1>2, <4>1, <4>2 DEF CallsOk
    <3> QED
      BY <3>1, <3>2
  <2>10. ChannelsOk'
    <3>1. sessions' = sessions /\ member' = member /\ (Moving => Moving')
      BY <1>2, <1>3, <2>4 DEF Moving, server
    <3> QED
      BY <1>2, <1>3, <3>1, ChannelsKept
  <2> QED
    BY <2>7, <2>8, <2>9, <2>10 DEF IInv
<1>5. CASE ~binding.authenticated
  <2> DEFINE a == IF Connected THEN "gate" ELSE IF link.kind = "connecting" THEN "attempt"
                  ELSE "rejected"
  <2>1. calls' = [calls EXCEPT ![c].at = a] /\ up' = up
    BY <1>5 DEF Ask
  <2>2. a \in {"gate", "attempt", "rejected"} /\ (a = "attempt" => link.kind = "connecting")
    OBVIOUS
  <2> HIDE DEF a
  <2>3. /\ calls' \in [Calls -> [at : Ats, epoch : Nat]]
        /\ calls'[c].at = a /\ \A d \in Calls \ {c} : calls'[d] = calls[d]
    BY <1>1, <2>1, <2>2 DEF Typed, Ats
  <2>4. Typed'
    BY <1>1, <1>2, <2>1, <2>3 DEF Typed, server
  <2>5. Above' = Above
    BY <1>2, <2>1 DEF Above
  <2>6. Linked' /\ Heard' /\ Firm' /\ Fresh' /\ PendingLinked' /\ GateOk'
    BY <1>1, <1>2, <1>3, <2>2, <2>3, <2>5
    DEF Linked, Heard, Firm, Fresh, PendingLinked, GateOk, Authenticating, server
  <2>7. CallsOk'
    BY <1>1, <1>2, <1>3, <2>2, <2>3, <2>5 DEF CallsOk, Acting
  <2>8. ChannelsOk'
    <3>1. sessions' = sessions /\ member' = member /\ (Moving => Moving')
      BY <1>2, <1>3, <2>5 DEF Moving, server
    <3> QED
      BY <1>2, <1>3, <3>1, ChannelsKept
  <2> QED
    BY <2>4, <2>6, <2>7, <2>8 DEF IInv
<1> QED
  BY <1>2, <1>4, <1>5 DEF Bindings

LEMMA GateTimeoutInv == ASSUME IInv, NEW c \in Calls, GateTimeout(c) PROVE IInv'
<1>1. /\ calls' = [calls EXCEPT ![c].at = "rejected"]
      /\ UNCHANGED <<link, binding, epochs, server, up, down>>
  BY DEF GateTimeout
<1>2. /\ calls' \in [Calls -> [at : Ats, epoch : Nat]]
      /\ calls'[c].at = "rejected" /\ \A d \in Calls \ {c} : calls'[d] = calls[d]
  BY <1>1 DEF IInv, Typed, Ats
<1>3. Typed'
  BY <1>1, <1>2 DEF IInv, Typed, server
<1>4. /\ Connected' = Connected /\ Above' = Above /\ Below' = Below /\ Work' = Work /\ link' = link
      /\ binding' = binding /\ sessions' = sessions /\ epochs' = epochs
  BY <1>1 DEF Connected, Above, Below, Work, server
<1>5. Linked' /\ Heard' /\ Firm' /\ Fresh' /\ PendingLinked' /\ GateOk' /\ CallsOk'
  BY <1>2, <1>4 DEF IInv, Linked, Heard, Firm, Fresh, PendingLinked, GateOk, CallsOk, Authenticating, Acting
<1>6. ChannelsOk'
  <2>1. member' = member /\ (Moving => Moving')
    BY <1>1, <1>4 DEF Moving, server
  <2> QED
    BY <1>4, <2>1, ChannelsKept
<1> QED
  BY <1>3, <1>5, <1>6 DEF IInv

\* The requests that waited at the gate leave, each of them once.
LEMMA WaitingSet ==
  /\ Waiting \in Seq(Calls)
  /\ LET fs == [k \in 1 .. Len(Waiting) |-> Request(Waiting[k])]
     IN  /\ fs \in Seq(UpFrames)
         /\ \A c \in Calls : calls[c].at = "gate" => Request(c) \in ToSet(fs)
         /\ \A f \in ToSet(fs) : f.kind = "request"
<1> DEFINE W == {c \in Calls : calls[c].at = "gate"}
           w == Waiting
           fs == [k \in 1 .. Len(w) |-> Request(w[k])]
<1>1. IsFiniteSet(W)
  BY LinkAssumption, FS_Subset
<1>2. w \in Seq(W) /\ ToSet(w) = W
  BY <1>1, AllListed DEF Waiting
<1>3. W \subseteq Calls
  OBVIOUS
<1>4. \A c \in Calls : calls[c].at = "gate" => c \in W
  OBVIOUS
<1> HIDE DEF W, w
<1>5. w \in Seq(Calls) /\ Len(w) \in Nat /\ DOMAIN w = 1 .. Len(w)
      /\ \A k \in 1 .. Len(w) : w[k] \in Calls
  BY <1>2, <1>3
<1>6. fs \in Seq(UpFrames) /\ DOMAIN fs = 1 .. Len(w)
  BY <1>5, FramesTyped
<1>7. \A c \in Calls : calls[c].at = "gate" => Request(c) \in ToSet(fs)
  <2> SUFFICES ASSUME NEW c \in Calls, calls[c].at = "gate" PROVE Request(c) \in ToSet(fs)
    OBVIOUS
  <2>1. PICK k \in 1 .. Len(w) : w[k] = c
    BY <1>2, <1>4, <1>5 DEF ToSet
  <2>2. fs[k] = Request(c)
    BY <2>1
  <2> QED
    BY <1>6, <2>1, <2>2 DEF ToSet
<1>8. \A f \in ToSet(fs) : f.kind = "request"
  BY <1>6 DEF ToSet, Request
<1> QED
  BY <1>5, <1>6, <1>7, <1>8 DEF w

LEMMA ReceiveAuthenticatedInv == ASSUME IInv, ReceiveAuthenticated PROVE IInv'
<1>1. Typed /\ Linked /\ Heard /\ Firm /\ PendingLinked /\ GateOk /\ CallsOk /\ Fresh
  BY DEF IInv
<1>2. PICK t \in Tokens : Arrives(Authenticated(t, TRUE))
  BY DEF ReceiveAuthenticated
<1> DEFINE g == Authenticated(t, TRUE)
<1>3. g.kind = "authenticated" /\ (\A c \in Calls, ok \in BOOLEAN : Response(c, ok) # g)
  BY DEF Authenticated, Response
<1>4. Arrives(g)
  BY <1>2
<1> HIDE DEF g
<1>5. /\ Connected /\ link.socket \in Sockets
      /\ down' \in [Sockets -> Seq(DownFrames)]
      /\ Below = ToSet(down'[link.socket]) \cup {g}
  BY <1>1, <1>4, Arrived
<1>6. /\ link' = link /\ epochs' = epochs /\ UNCHANGED server
      /\ sessions' = sessions /\ jobs' = jobs
  BY DEF ReceiveAuthenticated, server
<1>7. Connected' = Connected /\ Below = Below' \cup {g} /\ Work' = Work
  BY <1>5, <1>6 DEF Connected, Below, Work
<1>8. CASE binding = None
  <2>1. binding' = binding /\ calls' = calls /\ up' = up
    BY <1>8 DEF ReceiveAuthenticated
  <2>2. Typed'
    BY <1>1, <1>5, <1>6, <2>1 DEF Typed, server
  <2>3. Linked' /\ Heard' /\ Firm' /\ Fresh' /\ PendingLinked' /\ GateOk'
    BY <1>1, <1>6, <1>7, <1>8, <2>1 DEF Linked, Heard, Firm, Fresh, PendingLinked, GateOk
  <2>4. CallsOk'
    BY <1>1, <1>5, <1>6, <1>8, <2>1 DEF CallsOk, PendingLinked
  <2>5. ChannelsOk'
    BY <1>6, <1>7, <1>8, <2>1, ChannelsAnew DEF server
  <2> QED
    BY <2>2, <2>3, <2>4, <2>5 DEF IInv
<1>9. CASE binding # None
  <2> DEFINE fs == [k \in 1 .. Len(Waiting) |-> Request(Waiting[k])]
             p == [at |-> "pending", epoch |-> binding.token]
  <2>1. /\ binding' = [binding EXCEPT !.authenticated = TRUE]
        /\ calls' = [c \in Calls |-> IF calls[c].at = "gate" THEN p ELSE calls[c]]
        /\ Send(fs)
    BY <1>9 DEF ReceiveAuthenticated
  <2>2. /\ fs \in Seq(UpFrames)
        /\ \A c \in Calls : calls[c].at = "gate" => Request(c) \in ToSet(fs)
    BY WaitingSet
  <2>3. binding \in Bindings /\ p \in [at : Ats, epoch : Nat] /\ p.at = "pending"
        /\ p.epoch = binding.token
    BY <1>1, <1>9 DEF Typed, Bindings, Ats
  <2> HIDE DEF fs, p
  <2>4. up' \in [Sockets -> Seq(UpFrames)] /\ Above' = Above \cup ToSet(fs)
    BY <1>1, <1>5, <1>6, <2>1, <2>2, SentFrames DEF Above
  <2>5. /\ binding' \in Bindings /\ binding'.authenticated /\ binding'.token = binding.token
    BY <2>1, <2>3 DEF Bindings
  <2>6. binding' # None
    BY <2>5, NoBindingIsNone
  <2>7. \A c \in Calls : calls'[c] = IF calls[c].at = "gate" THEN p ELSE calls[c]
    BY <2>1
  <2>8. calls' \in [Calls -> [at : Ats, epoch : Nat]]
    BY <1>1, <2>1, <2>3 DEF Typed
  <2>9. Typed'
    BY <1>1, <1>5, <1>6, <2>4, <2>5, <2>8 DEF Typed, server
  <2>10. Linked' /\ Heard' /\ Firm' /\ Fresh' /\ GateOk'
    BY <1>1, <1>5, <1>6, <1>7, <1>9, <2>5, <2>6 DEF Linked, Heard, Firm, Fresh, GateOk
  <2>11. PendingLinked'
    BY <1>1, <1>5, <1>7, <2>3, <2>5, <2>6, <2>7 DEF PendingLinked
  <2>12. CallsOk'
    <3> SUFFICES ASSUME NEW c \in Calls
                 PROVE  /\ calls'[c].at = "pending" => Acting(c)'
                        /\ calls'[c].at = "attempt" => link'.kind = "connecting"
      BY DEF CallsOk
    <3>1. CASE calls[c].at = "gate"
      BY <2>2, <2>3, <2>4, <2>7, <3>1 DEF Acting
    <3>2. CASE calls[c].at # "gate"
      <4>1. calls'[c] = calls[c]
        BY <2>7, <3>2
      <4>2. Acting(c) => Acting(c)'
        BY <1>3, <1>6, <1>7, <2>4 DEF Acting
      <4> QED
        BY <1>1, <1>6, <4>1, <4>2 DEF CallsOk
    <3> QED
      BY <3>1, <3>2
  <2>13. ChannelsOk'
    <3>1. g # Resubscribe /\ g.ok
      BY DEF g, Authenticated, Resubscribe
    <3>2. member' = member /\ notices' = notices
      BY <1>6 DEF server
    <3>3. Moving => Moving'
      BY <1>3, <1>6, <1>7, <2>4, <3>1, <3>2 DEF Moving
    <3> QED
      BY <1>6, <1>7, <1>9, <3>2, <3>3, ChannelsKept
  <2> QED
    BY <2>9, <2>10, <2>11, <2>12, <2>13 DEF IInv
<1> QED
  BY <1>8, <1>9

LEMMA ReceiveRefusedInv == ASSUME IInv, ReceiveRefused PROVE IInv'
<1>1. Typed /\ Linked /\ PendingLinked
  BY DEF IInv
<1>2. PICK t \in Tokens : Arrives(Authenticated(t, FALSE))
  BY DEF ReceiveRefused
<1>3. down' \in [Sockets -> Seq(DownFrames)]
  BY <1>1, <1>2, Arrived
<1>4. /\ binding' = None /\ UNCHANGED <<link, epochs, server, up>>
      /\ calls' = IF binding = None THEN calls
                  ELSE [c \in Calls |-> Invalidated(calls[c], binding.token)]
  BY DEF ReceiveRefused, InvalidateCalls
<1>5. /\ calls' \in [Calls -> [at : Ats, epoch : Nat]]
      /\ \A c \in Calls : calls'[c].at # "pending"
                          /\ (calls'[c].at = "attempt" => calls[c].at = "attempt")
  <2>1. CASE binding = None
    BY <1>1, <1>4, <2>1 DEF Typed, PendingLinked
  <2>2. CASE binding # None
    <3>1. \A c \in Calls : calls'[c] = Invalidated(calls[c], binding.token)
      BY <1>4, <2>2
    <3>2. \A c \in Calls : /\ calls'[c] \in [at : Ats, epoch : Nat] /\ calls'[c].at # "pending"
                           /\ calls'[c] = calls[c] \/ calls'[c] = [calls[c] EXCEPT !.at = "rejected"]
      BY <2>2, <3>1, InvalidatedCalls
    <3>3. \A c \in Calls : calls'[c].at = "attempt" => calls[c].at = "attempt"
      BY <1>1, <3>2 DEF Typed
    <3> QED
      BY <1>4, <2>2, <3>2, <3>3
  <2> QED
    BY <2>1, <2>2
<1> QED
  BY <1>3, <1>4, <1>5, UnboundInv DEF server

LEMMA ReceiveResponseInv == ASSUME IInv, NEW c \in Calls, ReceiveResponse(c) PROVE IInv'
<1>1. Typed /\ Linked /\ Heard /\ Firm /\ PendingLinked /\ GateOk /\ CallsOk /\ Fresh
  BY DEF IInv
<1>2. PICK ok \in BOOLEAN :
        /\ Arrives(Response(c, ok))
        /\ calls' = [calls EXCEPT ![c].at = IF @ # "pending" THEN @
                                            ELSE IF Accepted(c, ok) THEN "resolved" ELSE "rejected"]
        /\ UNCHANGED <<link, binding, epochs, server, up>>
  BY DEF ReceiveResponse
<1> DEFINE g == Response(c, ok)
           a == IF calls[c].at # "pending" THEN calls[c].at
                ELSE IF Accepted(c, ok) THEN "resolved" ELSE "rejected"
<1>3. g.kind # "authenticated" /\ (\A d \in Calls, o \in BOOLEAN : Response(d, o) = g => d = c)
  BY DEF Response
<1>4. Arrives(g)
  BY <1>2
<1> HIDE DEF g
<1>5. /\ Connected /\ link.socket \in Sockets
      /\ down' \in [Sockets -> Seq(DownFrames)]
      /\ Below = ToSet(down'[link.socket]) \cup {g}
  BY <1>1, <1>4, Arrived
<1>6. /\ link' = link /\ binding' = binding /\ epochs' = epochs /\ up' = up
      /\ sessions' = sessions /\ jobs' = jobs
  BY <1>2 DEF server
<1>7. Connected' = Connected /\ Below = Below' \cup {g} /\ Work' = Work /\ Above' = Above
  BY <1>5, <1>6 DEF Connected, Below, Work, Above
<1>8. a \in Ats /\ a # "pending" /\ (a = "attempt" => calls[c].at = "attempt")
  BY <1>1 DEF Typed, Ats
<1>9. calls' = [calls EXCEPT ![c].at = a]
  BY <1>1, <1>2 DEF Typed
<1> HIDE DEF a
<1>10. /\ calls' \in [Calls -> [at : Ats, epoch : Nat]]
       /\ calls'[c].at = a /\ \A d \in Calls \ {c} : calls'[d] = calls[d]
  BY <1>1, <1>8, <1>9 DEF Typed
<1>11. Typed'
  BY <1>1, <1>2, <1>5, <1>6, <1>10 DEF Typed, server
<1>12. Linked' /\ Heard' /\ Firm' /\ Fresh'
  BY <1>1, <1>6, <1>7 DEF Linked, Heard, Firm, Fresh
<1>13. PendingLinked'
  BY <1>1, <1>6, <1>7, <1>8, <1>10 DEF PendingLinked
<1>14. GateOk'
  <2>1. Authenticating => Authenticating'
    BY <1>3, <1>6, <1>7 DEF Authenticating
  <2> QED
    BY <1>1, <1>6, <1>7, <2>1 DEF GateOk
<1>15. CallsOk'
  <2> SUFFICES ASSUME NEW d \in Calls
               PROVE  /\ calls'[d].at = "pending" => Acting(d)'
                      /\ calls'[d].at = "attempt" => link'.kind = "connecting"
    BY DEF CallsOk
  <2>1. CASE d = c
    BY <1>1, <1>6, <1>8, <1>10, <2>1 DEF CallsOk
  <2>2. CASE d # c
    <3>1. calls'[d] = calls[d]
      BY <1>10, <2>2
    <3>2. Acting(d) => Acting(d)'
      BY <1>3, <1>6, <1>7, <2>2 DEF Acting
    <3> QED
      BY <1>1, <1>6, <3>1, <3>2 DEF CallsOk
  <2> QED
    BY <2>1, <2>2
<1>16. ChannelsOk'
  <2>1. g # Resubscribe
    BY DEF g, Response, Resubscribe
  <2>2. member' = member /\ notices' = notices
    BY <1>2 DEF server
  <2>3. Moving => Moving'
    BY <1>3, <1>6, <1>7, <2>1, <2>2 DEF Moving
  <2> QED
    BY <1>6, <1>7, <2>2, <2>3, ChannelsKept
<1> QED
  BY <1>11, <1>12, <1>13, <1>14, <1>15, <1>16 DEF IInv

LEMMA ReceiveResubscribeInv == ASSUME IInv, ReceiveResubscribe PROVE IInv'
<1>1. Typed /\ Linked /\ Heard /\ Firm /\ PendingLinked /\ GateOk /\ CallsOk /\ Fresh
  BY DEF IInv
<1>2. /\ Arrives(Resubscribe) /\ Reauthenticates
      /\ UNCHANGED <<link, epochs, calls, server>>
  BY DEF ReceiveResubscribe
<1>3. /\ Connected /\ link.socket \in Sockets
      /\ down' \in [Sockets -> Seq(DownFrames)]
      /\ Below = ToSet(down'[link.socket]) \cup {Resubscribe}
  BY <1>1, <1>2, Arrived
<1>4. link' = link /\ epochs' = epochs /\ calls' = calls /\ sessions' = sessions /\ jobs' = jobs
  BY <1>2 DEF server
<1>5. Connected' = Connected /\ Below = Below' \cup {Resubscribe} /\ Work' = Work
  BY <1>3, <1>4 DEF Connected, Below, Work
<1>6. \A c \in Calls, ok \in BOOLEAN : Response(c, ok) # Resubscribe
  BY DEF Response, Resubscribe
<1>7. CASE binding = None
  <2>1. binding' = binding /\ up' = up
    BY <1>2, <1>7 DEF Reauthenticates
  <2>2. Typed'
    BY <1>1, <1>2, <1>3, <1>4, <2>1 DEF Typed, server
  <2>3. Linked' /\ Heard' /\ Firm' /\ Fresh' /\ PendingLinked' /\ GateOk'
    BY <1>1, <1>4, <1>5, <1>7, <2>1 DEF Linked, Heard, Firm, Fresh, PendingLinked, GateOk
  <2>4. CallsOk'
    BY <1>1, <1>4, <1>7 DEF CallsOk, PendingLinked
  <2>5. ChannelsOk'
    BY <1>2, <1>5, <1>7, <2>1, ChannelsAnew DEF server
  <2> QED
    BY <2>2, <2>3, <2>4, <2>5 DEF IInv
<1>8. CASE binding # None
  <2> DEFINE f == Authenticate(binding.token)
  <2>1. binding' = [binding EXCEPT !.authenticated = FALSE] /\ Send(<<f>>)
    BY <1>2, <1>8 DEF Reauthenticates
  <2>2. binding \in Bindings
    BY <1>1, <1>8 DEF Typed
  <2>3. f \in UpFrames /\ f.kind = "authenticate"
    BY <2>2, FramesTyped DEF Bindings, Authenticate
  <2> HIDE DEF f
  <2>4. up' \in [Sockets -> Seq(UpFrames)] /\ Above' = Above \cup {f}
    BY <1>1, <1>3, <1>4, <2>1, <2>3, OneSet, SentFrames DEF Above
  <2>5. binding' \in Bindings /\ ~binding'.authenticated /\ binding'.token = binding.token
    BY <2>1, <2>2 DEF Bindings
  <2>6. binding' # None
    BY <2>5, NoBindingIsNone
  <2>7. Typed'
    BY <1>1, <1>2, <1>3, <1>4, <2>4, <2>5 DEF Typed, server
  <2>8. Linked' /\ Heard' /\ Firm' /\ Fresh' /\ PendingLinked'
    BY <1>1, <1>4, <1>5, <1>8, <2>5, <2>6 DEF Linked, Heard, Firm, Fresh, PendingLinked
  <2>9. GateOk'
    BY <2>3, <2>4 DEF GateOk, Authenticating
  <2>10. CallsOk'
    <3>1. \A c \in Calls : Acting(c) => Acting(c)'
      BY <1>4, <1>5, <1>6, <2>4 DEF Acting
    <3> QED
      BY <1>1, <1>4, <3>1 DEF CallsOk
  <2>11. ChannelsOk'
    <3>1. Moving'
      BY <2>3, <2>4 DEF Moving
    <3> QED
      BY <1>2, <1>5, <3>1, ChannelsAnew DEF server
  <2> QED
    BY <2>7, <2>8, <2>9, <2>10, <2>11 DEF IInv
<1> QED
  BY <1>7, <1>8

-----------------------------------------------------------------------------
LEMMA InitInv == Init => IInv
<1> SUFFICES ASSUME Init PROVE IInv
  OBVIOUS
<1>1. ~Connected /\ link.kind = "stopped" /\ binding = None
  BY DEF Init, Connected
<1>2. link \in [kind : {"stopped", "connecting", "connected", "cooldown", "offline"}, socket : Nat]
      /\ link.socket <= MaxSockets
  BY LinkAssumption DEF Init
<1>3. \A c \in Calls : calls[c] = [at |-> "idle", epoch |-> 0]
  BY DEF Init
<1>4. calls \in [Calls -> [at : Ats, epoch : Nat]]
  BY DEF Init, Ats
<1>5. /\ up \in [Sockets -> Seq(UpFrames)] /\ down \in [Sockets -> Seq(DownFrames)]
      /\ jobs \in Seq(AuthJobs \cup ActionJobs)
  BY EmptySet DEF Init
<1>6. sessions \in [Sockets -> ProtocolSessions]
  BY DEF Init, ProtocolSessions
<1>7. Typed
  BY <1>1, <1>2, <1>4, <1>5, <1>6 DEF Typed, Init
<1>8. Linked /\ Heard /\ Firm /\ Fresh /\ PendingLinked /\ GateOk /\ CallsOk
  BY <1>1, <1>3 DEF Linked, Heard, Firm, Fresh, PendingLinked, GateOk, CallsOk
<1>9. Work = {}
  BY EmptySet DEF Init, Work
<1>10. ChannelsOk
  BY <1>1, <1>9 DEF ChannelsOk, ReadsCurrent, Subscribed
<1> QED
  BY <1>7, <1>8, <1>10 DEF IInv

LEMMA ServerStepInv == ASSUME IInv, ServerStep PROVE IInv'
<1>1. CASE \E s \in Sockets : ServeFrame(s) \/ CloseSession(s)
  BY <1>1, ServeInv, CloseInv
<1>2. CASE \E n \in DOMAIN jobs : \/ ReadAuthentication(n) \/ EndAuthentication(n)
                                  \/ RunAction(n) \/ EndAction(n)
  BY <1>2, ReadInv, EndAuthInv, RunInv, EndActionInv
<1>3. CASE PublishResubscribe
  BY <1>3, PublishInv
<1> QED
  BY <1>1, <1>2, <1>3 DEF ServerStep

LEMMA ReceiveInv == ASSUME IInv, Receive PROVE IInv'
  BY ReceiveAuthenticatedInv, ReceiveRefusedInv, ReceiveResponseInv, ReceiveResubscribeInv DEF Receive

LEMMA UserInv == ASSUME IInv, User PROVE IInv'
<1>1. CASE SignIn \/ Restore \/ ClearActive \/ ForceOffline
  BY <1>1, SignInInv, RestoreInv, ClearActiveInv, ForceOfflineInv
<1>2. CASE LeaveOffline
  BY <1>2, AttemptInv DEF LeaveOffline
<1>3. CASE \E t \in Tokens : Expire(t)
  BY <1>3, ExpireInv
<1>4. CASE \E c \in Calls : Ask(c)
  BY <1>4, AskInv
<1>5. CASE \E g \in Groups : ChangeMembership(g)
  BY <1>5, ChangeInv
<1> QED
  BY <1>1, <1>2, <1>3, <1>4, <1>5 DEF User

LEMMA StepInv == IInv /\ [Next]_vars => IInv'
<1> SUFFICES ASSUME IInv, [Next]_vars PROVE IInv'
  OBVIOUS
<1>1. CASE Open
  BY <1>1, AttemptInv DEF Open
<1>2. CASE Connect \/ Lose
  BY <1>2, ConnectInv, LoseInv
<1>3. CASE \E c \in Calls : GateTimeout(c)
  BY <1>3, GateTimeoutInv
<1>4. CASE Receive
  BY <1>4, ReceiveInv
<1>5. CASE ServerStep
  BY <1>5, ServerStepInv
<1>6. CASE User
  BY <1>6, UserInv
<1>7. CASE UNCHANGED vars
  BY <1>7 DEF vars, client, server, IInv, Typed, Linked, Heard, Firm, Fresh, PendingLinked,
              GateOk, CallsOk, ChannelsOk, ReadsCurrent, Subscribed, Moving, Authenticating, Acting, Above, Below, Work, Connected
<1> QED
  BY <1>1, <1>2, <1>3, <1>4, <1>5, <1>6, <1>7 DEF Next

\* Whatever the calls, the sockets and the interleaving: all that the client awaits has a
\* frame or a job behind it, and what it believes of its socket is true.
THEOREM LinkInvariant == Spec => []IInv
<1> QED
  BY InitInv, StepInv, PTL DEF Spec

\* A connected client that is not authenticated has an authentication under way on its
\* socket: the gate of RemoteSession never waits for an answer nobody will send.
THEOREM GateNeverForgotten == Spec => []GateOpens
<1>1. IInv => GateOpens
  <2> SUFFICES ASSUME GateOk, Connected, binding # None, ~binding.authenticated PROVE Underway
    BY DEF IInv, GateOpens
  <2>1. Authenticating
    BY DEF GateOk
  <2> QED
    BY <2>1 DEF Authenticating, Underway, Above, Below, Work, ToSet
<1> QED
  BY <1>1, LinkInvariant, PTL

\* No call outlives the credential it was sent with.
THEOREM PendingHasItsCredential == Spec => []PendingBelongs
<1>1. IInv => PendingBelongs
  BY DEF IInv, PendingLinked, PendingBelongs
<1> QED
  BY <1>1, LinkInvariant, PTL

\* Behind every pending call there is its frame, its job or its answer.
THEOREM NothingAwaitedInVain == Spec => []CallsUnderway
<1>1. IInv => CallsUnderway
  <2> SUFFICES ASSUME CallsOk, NEW c \in Calls
               PROVE  /\ calls[c].at = "pending" =>
                           \/ Request(c) \in ToSet(up[link.socket])
                           \/ \E n \in DOMAIN jobs : /\ jobs[n].kind = "action"
                                                     /\ jobs[n].call = c /\ jobs[n].socket = link.socket
                           \/ \E ok \in BOOLEAN : Response(c, ok) \in ToSet(down[link.socket])
                      /\ calls[c].at = "attempt" => link.kind = "connecting"
    BY DEF IInv, CallsUnderway
  <2>1. calls[c].at = "pending" => Acting(c)
    BY DEF CallsOk
  <2>2. Acting(c) => \/ Request(c) \in ToSet(up[link.socket])
                     \/ \E n \in DOMAIN jobs : /\ jobs[n].kind = "action"
                                               /\ jobs[n].call = c /\ jobs[n].socket = link.socket
                     \/ \E ok \in BOOLEAN : Response(c, ok) \in ToSet(down[link.socket])
    <3>1. \A j \in Work : \E n \in DOMAIN jobs : jobs[n] = j
      BY DEF Work, ToSet
    <3> QED
      BY <3>1 DEF Acting, Above, Below
  <2> QED
    BY <2>1, <2>2 DEF CallsOk
<1> QED
  BY <1>1, LinkInvariant, PTL

\* Unless memberships change between the read of an authentication and its end: at rest the
\* client is subscribed to the groups it belongs to, no fewer and no more.
THEOREM ChannelsAtRest == NoOverlap => (Spec => []ChannelsCurrent)
<1> SUFFICES ASSUME NoOverlap PROVE Spec => []ChannelsCurrent
  OBVIOUS
<1>1. IInv => ChannelsCurrent
  <2> SUFFICES ASSUME IInv, Quiet, binding # None, sessions[link.socket].token # None,
                      sessions[link.socket].channels # member
               PROVE  FALSE
    BY DEF ChannelsCurrent
  <2>1. Above = {} /\ Below = {} /\ Work = {} /\ notices = 0
    BY EmptySet DEF Quiet, Above, Below, Work
  <2>2. Moving
    BY DEF IInv, ChannelsOk, Subscribed, Quiet
  <2> QED
    BY <2>1, <2>2 DEF Moving
<1> QED
  BY <1>1, LinkInvariant, PTL
=============================================================================
