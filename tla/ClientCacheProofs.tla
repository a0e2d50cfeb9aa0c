-------------------------- MODULE ClientCacheProofs --------------------------
(***************************************************************************)
(* Two caches that certify what they hold, each for every value of its     *)
(* constants: the server's media cache, where every blob has exactly one   *)
(* owner and what a ready row or a request names is on disk, and the       *)
(* client's post replica, where the coverage record tells what the rows    *)
(* are good for.  The two share no state; the first part is about          *)
(* MediaAssets, the second about PostReplica.                              *)
(***************************************************************************)
EXTENDS MediaAssetsProps, PostReplicaProps, FiniteSetTheorems, TLAPS

AssetRows == [state : {"absent", "downloading", "ready", "failed"}, blob : Nat \cup {None}]
CacheJobs == [track : Tracks, kind : Kinds, blob : Nat, pc : {"writing", "committed", "failing"}]
Sessions == [blob : Nat, sent : Nat, ended : BOOLEAN]
LedgerRows == [weight : Nat, pinned : BOOLEAN]
Sweeps == [on : BOOLEAN, list : SUBSET Tracks, track : Tracks \cup {None}, weight : Nat,
           todo : SUBSET Nat, stirred : BOOLEAN]

MediaTypes ==
    /\ asset \in [Tracks -> [Kinds -> AssetRows]]
    /\ ledger \in [Tracks -> LedgerRows \cup {None}]
    /\ objects \subseteq Nat
    /\ jobs \subseteq CacheJobs
    /\ session \in [Tracks -> Sessions \cup {None}]
    /\ DOMAIN request = Requests
    /\ sweep \in Sweeps
    /\ minted \in Nat

\* The ready row of track t and kind k names blob b.
Names(t, k, b) == Ready(t, k) /\ asset[t][k].blob = b

\* No blob is named before it is handed out.
Minted ==
    /\ \A b \in objects \cup sweep.todo : b <= minted
    /\ \A j \in jobs : j.blob <= minted
    /\ \A t \in Tracks, k \in Kinds : Ready(t, k) => asset[t][k].blob \in 0..minted

\* A blob belongs to one job, one ready row or the sweep.
Apart ==
    /\ \A i, j \in jobs : i.blob = j.blob => i = j
    /\ \A j \in jobs, t \in Tracks, k \in Kinds : ~Names(t, k, j.blob)
    /\ \A j \in jobs : j.blob \notin sweep.todo
    /\ \A b \in sweep.todo, t \in Tracks, k \in Kinds : ~Names(t, k, b)
    /\ \A t, u \in Tracks, k, l \in Kinds :
          Ready(t, k) /\ Names(u, l, asset[t][k].blob) => t = u /\ k = l

OnDisk ==
    /\ ReadyOnDisk
    /\ \A j \in jobs : j.pc = "committed" => j.blob \in objects

\* A job that may still publish, or whose file is there.
Live(j) == j.pc # "failing" \/ j.blob \in objects

\* A live job is the only one of its asset, and the asset is not ready.
OneJob ==
    /\ \A j \in jobs : Live(j) => ~Ready(j.track, j.kind)
    /\ \A j \in jobs : j.kind = "audio" /\ Live(j) =>
          session[j.track] # None /\ session[j.track].blob = j.blob
    /\ \A j \in jobs : j.kind = "audio" /\ j.blob \in objects => session[j.track].ended
    /\ \A i, j \in jobs : i.kind = "cover" /\ j.kind = "cover" /\ i.track = j.track => i = j

\* The candidates have ledger rows, and the one under eviction is not among them.
SweepSane ==
    /\ ~sweep.on => sweep.track = None
    /\ sweep.track = None => sweep.todo = {}
    /\ \A t \in sweep.list : ledger[t] # None /\ t # sweep.track

\* What a request is about to open is on disk, and nobody is going to remove it.
Lent(q) ==
    /\ q.blob \in objects /\ q.blob \notin sweep.todo
    /\ \A j \in jobs : j.blob # q.blob
    /\ \A t \in Tracks, k \in Kinds : Names(t, k, q.blob) => t = q.track

Leases == \A r \in Requests : request[r].at = "opening" => Lent(request[r])

Booked(t) == IF ledger[t] = None THEN 0 ELSE ledger[t].weight

Books == \A t \in Tracks \ excused :
    (t = sweep.track /\ Weight(t) = 0) \/ Weight(t) = Booked(t)

MediaInv == /\ MediaTypes /\ Minted /\ Apart /\ OnDisk /\ OneJob /\ SweepSane
        /\ ObjectsOwned /\ Leases /\ Books

-----------------------------------------------------------------------------
LEMMA KindsFinite == IsFiniteSet(Kinds) /\ \A S \in SUBSET Kinds : IsFiniteSet(S)
<1>1. IsFiniteSet({"audio"})
  BY FS_Singleton
<1>2. IsFiniteSet({"audio"} \cup {"cover"})
  BY <1>1, FS_AddElement
<1>3. Kinds = {"audio"} \cup {"cover"}
  BY DEF Kinds
<1> QED
  BY <1>2, <1>3, FS_Subset

\* The weight of a track counts its ready assets.
LEMMA WeightCounts ==
    ASSUME NEW t
    PROVE  Weight(t) \in Nat /\ (Weight(t) = 0 <=> \A k \in Kinds : ~Ready(t, k))
<1> DEFINE S == {k \in Kinds : Ready(t, k)}
<1>1. IsFiniteSet(S)
  BY KindsFinite
<1>2. S = {} <=> \A k \in Kinds : ~Ready(t, k)
  OBVIOUS
<1> HIDE DEF S
<1>3. Cardinality(S) \in Nat /\ (Cardinality(S) = 0 <=> S = {})
  BY <1>1, FS_CardinalityType, FS_EmptySet
<1> QED
  BY <1>2, <1>3 DEF Weight, S

\* The weight depends on nothing else.
LEMMA SameWeight ==
    ASSUME NEW t, \A k \in Kinds : Ready(t, k)' = Ready(t, k)
    PROVE  Weight(t)' = Weight(t)
<1>1. {k \in Kinds : Ready(t, k)}' = {k \in Kinds : Ready(t, k)}
  OBVIOUS
<1> QED
  BY <1>1 DEF Weight

\* A row of the database names the same blob after the step.
RowsKept == /\ \A t \in Tracks, k \in Kinds : Ready(t, k)' = Ready(t, k)
            /\ \A t \in Tracks, k \in Kinds : Ready(t, k) => asset'[t][k].blob = asset[t][k].blob

\* What a request has just read of a ready row.
Chosen(q) == q.track \in Tracks /\ \E k \in Kinds : Names(q.track, k, q.blob)

LEMMA ChosenIsLent == ASSUME MediaInv, NEW q, Chosen(q) PROVE Lent(q)
  BY DEF MediaInv, Chosen, Lent, Names, Apart, OnDisk, ReadyOnDisk

\* A step that moves neither rows nor files nor jobs.
LEMMA StillInv ==
    ASSUME MediaInv, MediaTypes', SweepSane',
           UNCHANGED <<asset, objects, jobs, session, minted, stranded, excused>>,
           sweep'.todo = sweep.todo, sweep'.track = sweep.track,
           \A t \in Tracks : Booked(t)' = Booked(t),
           \A r \in Requests : request'[r].at = "opening" =>
               request'[r] = request[r] \/ Chosen(request'[r])
    PROVE  MediaInv'
<1>1. /\ Minted' /\ Apart' /\ OnDisk' /\ OneJob' /\ ObjectsOwned'
  BY DEF MediaInv, Minted, Apart, OnDisk, OneJob, ObjectsOwned, ReadyOnDisk, Ready, Names, Live
<1>2. Books'
  <2>1. \A t \in Tracks : Weight(t)' = Weight(t)
    BY SameWeight DEF Ready
  <2> QED
    BY <2>1 DEF MediaInv, Books
<1>3. Leases'
  <2> SUFFICES ASSUME NEW r \in Requests, request'[r].at = "opening" PROVE Lent(request[r])'
    BY DEF Leases
  <2>1. Lent(request'[r])
    BY ChosenIsLent DEF MediaInv, Leases
  <2> QED
    BY <2>1 DEF Lent, Names, Ready
<1> QED
  BY <1>1, <1>2, <1>3 DEF MediaInv

\* A step of the client or of the timers that leaves requests alone.
LEMMA RestInv ==
    ASSUME MediaInv, MediaTypes', SweepSane',
           UNCHANGED <<asset, objects, jobs, session, minted, stranded, excused, request>>,
           sweep'.todo = sweep.todo, sweep'.track = sweep.track,
           \A t \in Tracks : Booked(t)' = Booked(t)
    PROVE  MediaInv'
  BY StillInv

LEMMA ListInv == ASSUME MediaInv, NEW t \in Tracks, AddToList(t) \/ RemoveFromList(t) PROVE MediaInv'
  BY RestInv DEF AddToList, RemoveFromList, MediaInv, MediaTypes, SweepSane, Booked

LEMMA PinExpiresInv == ASSUME MediaInv, NEW t \in Tracks, PinExpires(t) PROVE MediaInv'
<1> DEFINE e == [ledger[t] EXCEPT !.pinned = FALSE]
<1>1. ledger \in [Tracks -> LedgerRows \cup {None}] /\ ledger[t] \in LedgerRows
  BY DEF MediaInv, MediaTypes, PinExpires
<1>2. e \in LedgerRows /\ e.weight = ledger[t].weight
  BY <1>1 DEF LedgerRows
<1>3. ledger' = [ledger EXCEPT ![t] = e]
  BY DEF PinExpires
<1>4. e # None
  BY <1>2, MediaAssumption DEF LedgerRows
<1> HIDE DEF e
<1>5. ledger' \in [Tracks -> LedgerRows \cup {None}]
  BY <1>1, <1>2, <1>3
<1>6. \A u \in Tracks : ledger[u] # None => ledger'[u] # None
  BY <1>1, <1>3, <1>4
<1>7. sweep.list \subseteq Tracks
  BY DEF MediaInv, MediaTypes, Sweeps
<1>8. \A u \in Tracks : Booked(u)' = Booked(u)
  BY <1>1, <1>2, <1>3, <1>4 DEF Booked, PinExpires
<1> QED
  BY <1>5, <1>6, <1>7, <1>8, RestInv DEF PinExpires, MediaInv, MediaTypes, SweepSane

LEMMA CollectInv == ASSUME MediaInv, NEW b \in Blobs, Collect(b) PROVE MediaInv'
  BY RestInv DEF Collect, MediaInv, MediaTypes, SweepSane, Booked

LEMMA ListCandidatesInv == ASSUME MediaInv, ListCandidates PROVE MediaInv'
<1> DEFINE L == {t \in Tracks : ledger[t] # None /\ ~ledger[t].pinned /\ ledger[t].weight > 0}
<1>1. sweep' = [Calm EXCEPT !.on = TRUE, !.list = L] /\ ~sweep.on
  BY DEF ListCandidates
<1>2. L \in SUBSET Tracks
  OBVIOUS
<1> HIDE DEF L
<1>3. sweep' \in Sweeps /\ sweep'.on /\ sweep'.track = None /\ sweep'.todo = {} /\ sweep'.list = L
  BY <1>1, <1>2 DEF Calm, Sweeps
<1>4. \A t \in L : t \in Tracks /\ ledger[t] # None /\ t # None
  BY MediaAssumption DEF L
<1>5. sweep.track = None /\ sweep.todo = {}
  BY <1>1 DEF MediaInv, SweepSane
<1> QED
  BY <1>3, <1>4, <1>5, RestInv DEF ListCandidates, MediaInv, MediaTypes, SweepSane, Booked

LEMMA SweepEndsInv == ASSUME MediaInv, SweepEnds PROVE MediaInv'
<1>1. sweep' \in Sweeps /\ sweep'.track = None /\ sweep'.todo = {} /\ sweep'.list = {}
  BY DEF SweepEnds, Calm, Sweeps
<1>2. sweep.track = None /\ sweep.todo = {}
  BY DEF MediaInv, SweepSane, SweepEnds
<1> QED
  BY <1>1, <1>2, RestInv DEF SweepEnds, MediaInv, MediaTypes, SweepSane, Booked

\* A step of one request.
LEMMA OneRequestInv ==
    ASSUME MediaInv, NEW r \in Requests, NEW q, request' = [request EXCEPT ![r] = q],
           q.at = "opening" => Chosen(q),
           UNCHANGED <<asset, listed, ledger, staged, objects, jobs, session, sweep,
                       minted, stops, stranded, excused>>
    PROVE  MediaInv'
<1>1. DOMAIN request' = Requests /\ \A s \in Requests : request'[s] = IF s = r THEN q ELSE request[s]
  BY DEF MediaInv, MediaTypes
<1> QED
  BY <1>1, StillInv DEF MediaInv, MediaTypes, SweepSane, Booked

LEMMA GetReadyInv ==
    ASSUME MediaInv, NEW r \in Requests, NEW t \in Tracks, NEW k \in Kinds, GetReady(r, t, k)
    PROVE  MediaInv'
<1> DEFINE q == [at |-> "opening", track |-> t, blob |-> asset[t][k].blob]
<1>1. Chosen(q)
  BY DEF GetReady, Chosen, Names
<1>2. request' = [request EXCEPT ![r] = q]
  BY DEF GetReady
<1> HIDE DEF q
<1> QED
  BY <1>1, <1>2, OneRequestInv DEF GetReady

LEMMA GetSeekInv ==
    ASSUME MediaInv, NEW r \in Requests, NEW t \in Tracks, GetSeek(r, t) PROVE MediaInv'
<1> DEFINE q == [at |-> "waiting", track |-> t, kind |-> "audio"]
<1>1. q.at # "opening" /\ request' = [request EXCEPT ![r] = q]
  BY DEF GetSeek
<1> HIDE DEF q
<1> QED
  BY <1>1, OneRequestInv DEF GetSeek

LEMMA OpenInv == ASSUME MediaInv, NEW r \in Requests, Open(r) PROVE MediaInv'
<1> DEFINE q == IF request[r].blob \in objects
                THEN [at |-> "body", track |-> request[r].track] ELSE Idle
<1>1. q.at # "opening" /\ request' = [request EXCEPT ![r] = q]
  BY DEF Open, Idle
<1> HIDE DEF q
<1> QED
  BY <1>1, OneRequestInv DEF Open

LEMMA EndRequestInv == ASSUME MediaInv, NEW r \in Requests, EndRequest(r) PROVE MediaInv'
<1>1. Idle.at # "opening" /\ request' = [request EXCEPT ![r] = Idle]
  BY DEF EndRequest, Idle
<1> QED
  BY <1>1, OneRequestInv DEF EndRequest

-----------------------------------------------------------------------------
(* CacheJobs that go on, and sessions that end.                                 *)

\* The job j is now at F[j]; a failing job stays so.
GoesOn(F) == /\ jobs' = {F[j] : j \in jobs}
             /\ \A j \in jobs : /\ F[j] \in CacheJobs /\ F[j].track = j.track /\ F[j].kind = j.kind
                                /\ F[j].blob = j.blob /\ F[j].pc \in {j.pc, "failing"}

LEMMA GoesOnInv ==
    ASSUME MediaInv, NEW F, GoesOn(F),
           session' \in [Tracks -> Sessions \cup {None}],
           \A j \in jobs : j.kind = "audio" /\ Live(F[j]) =>
               session'[j.track] # None /\ session'[j.track].blob = j.blob,
           \A j \in jobs : j.kind = "audio" /\ j.blob \in objects => session'[j.track].ended,
           DOMAIN request' = Requests,
           \A r \in Requests : request'[r].at = "opening" => request'[r] = request[r],
           UNCHANGED <<asset, ledger, objects, sweep, minted, stranded, excused>>
    PROVE  MediaInv'
<1>1. \A i \in jobs' : \E j \in jobs : i = F[j]
  BY DEF GoesOn
<1>2. \A j \in jobs : /\ F[j] \in jobs' /\ F[j] \in CacheJobs /\ F[j].track = j.track
                      /\ F[j].kind = j.kind /\ F[j].blob = j.blob /\ F[j].pc \in {j.pc, "failing"}
  BY DEF GoesOn
<1>3. \A j \in jobs : Live(F[j]) => Live(j)
  BY <1>2 DEF Live
<1>4. \A t \in Tracks, k \in Kinds :
        Ready(t, k)' = Ready(t, k) /\ \A b : Names(t, k, b)' = Names(t, k, b)
  BY DEF Ready, Names
<1>5. MediaTypes'
  BY <1>1, <1>2 DEF MediaInv, MediaTypes
<1>6. Minted'
  BY <1>1, <1>2, <1>4 DEF MediaInv, Minted
<1>7. Apart'
  <2>1. \A i, j \in jobs' : i.blob = j.blob => i = j
    <3> SUFFICES ASSUME NEW i \in jobs', NEW j \in jobs', i.blob = j.blob PROVE i = j
      OBVIOUS
    <3>1. PICK i0 \in jobs : i = F[i0]
      BY <1>1
    <3>2. PICK j0 \in jobs : j = F[j0]
      BY <1>1
    <3>3. i0.blob = j0.blob
      BY <1>2, <3>1, <3>2
    <3> QED
      BY <3>1, <3>2, <3>3 DEF MediaInv, Apart
  <2> QED
    BY <1>1, <1>2, <1>4, <2>1 DEF MediaInv, Apart
<1>8. OnDisk'
  <2>1. ReadyOnDisk'
    BY <1>4 DEF MediaInv, OnDisk, ReadyOnDisk
  <2>2. \A j \in jobs' : j.pc = "committed" => j.blob \in objects
    BY <1>1, <1>2 DEF MediaInv, OnDisk
  <2> QED
    BY <2>1, <2>2 DEF OnDisk
<1>9. OneJob'
  <2>1. \A j \in jobs' : Live(j)' => ~Ready(j.track, j.kind)'
    <3> SUFFICES ASSUME NEW j \in jobs', Live(j)' PROVE ~Ready(j.track, j.kind)
      BY DEF Ready
    <3>1. PICK i \in jobs : j = F[i]
      BY <1>1
    <3>2. Live(i)
      BY <1>3, <3>1 DEF Live
    <3> QED
      BY <1>2, <3>1, <3>2 DEF MediaInv, OneJob
  <2>2. \A j \in jobs' : j.kind = "audio" /\ Live(j)' =>
            session'[j.track] # None /\ session'[j.track].blob = j.blob
    <3> SUFFICES ASSUME NEW j \in jobs', j.kind = "audio", Live(j)'
                 PROVE  session'[j.track] # None /\ session'[j.track].blob = j.blob
      OBVIOUS
    <3>1. PICK i \in jobs : j = F[i]
      BY <1>1
    <3>2. Live(F[i]) /\ i.kind = "audio"
      BY <1>2, <3>1 DEF Live
    <3> QED
      BY <1>2, <3>1, <3>2
  <2>3. \A j \in jobs' : j.kind = "audio" /\ j.blob \in objects => session'[j.track].ended
    BY <1>1, <1>2
  <2>4. \A i, j \in jobs' : i.kind = "cover" /\ j.kind = "cover" /\ i.track = j.track => i = j
    <3> SUFFICES ASSUME NEW i \in jobs', NEW j \in jobs', i.kind = "cover", j.kind = "cover",
                        i.track = j.track
                 PROVE  i = j
      OBVIOUS
    <3>1. PICK i0 \in jobs : i = F[i0]
      BY <1>1
    <3>2. PICK j0 \in jobs : j = F[j0]
      BY <1>1
    <3> QED
      BY <1>2, <3>1, <3>2 DEF MediaInv, OneJob
  <2> QED
    BY <2>1, <2>2, <2>3, <2>4 DEF OneJob, Live
<1>10. SweepSane'
  BY DEF MediaInv, SweepSane
<1>11. ObjectsOwned'
  BY <1>2, <1>4 DEF MediaInv, ObjectsOwned, Ready
<1>12. Leases'
  <2> SUFFICES ASSUME NEW r \in Requests, request'[r].at = "opening" PROVE Lent(request[r])'
    BY DEF Leases
  <2>1. Lent(request[r])
    BY DEF MediaInv, Leases
  <2> QED
    BY <1>1, <1>2, <1>4, <2>1 DEF Lent
<1>13. Books'
  <2>1. \A t \in Tracks : Weight(t)' = Weight(t) /\ Booked(t)' = Booked(t)
    BY <1>4, SameWeight DEF Booked
  <2> QED
    BY <2>1 DEF MediaInv, Books
<1> QED
  BY <1>5, <1>6, <1>7, <1>8, <1>9, <1>10, <1>11, <1>12, <1>13 DEF MediaInv

\* Only sessions change.
LEMMA SessionInv ==
    ASSUME MediaInv, NEW t \in Tracks, NEW s \in Sessions \cup {None},
           session' = [session EXCEPT ![t] = s], session[t] # None,
           \/ s # None /\ s.blob = session[t].blob /\ (session[t].ended => s.ended)
           \/ ~Unsettled(t),
           DOMAIN request' = Requests,
           \A r \in Requests : request'[r].at = "opening" => request'[r] = request[r],
           UNCHANGED <<asset, ledger, objects, jobs, sweep, minted, stranded, excused>>
    PROVE  MediaInv'
<1> DEFINE F == [j \in jobs |-> j]
<1>1. GoesOn(F)
  BY DEF GoesOn, MediaInv, MediaTypes
<1>2. session' \in [Tracks -> Sessions \cup {None}]
      /\ \A u \in Tracks : session'[u] = IF u = t THEN s ELSE session[u]
  BY DEF MediaInv, MediaTypes
<1>3. ASSUME NEW j \in jobs, j.kind = "audio", Live(j)
      PROVE  /\ session'[j.track] # None /\ session'[j.track].blob = j.blob
             /\ session[j.track].ended => session'[j.track].ended
  <2>1. j.track \in Tracks /\ session[j.track] # None /\ session[j.track].blob = j.blob
    BY <1>3 DEF MediaInv, OneJob, MediaTypes, CacheJobs
  <2>2. j.track = t => Unsettled(t)
    BY <1>3, <2>1 DEF Unsettled
  <2> QED
    BY <1>2, <2>1, <2>2
<1>4. \A j \in jobs : j.kind = "audio" /\ Live(F[j]) =>
          session'[j.track] # None /\ session'[j.track].blob = j.blob
  BY <1>3
<1>5. \A j \in jobs : j.kind = "audio" /\ j.blob \in objects => session'[j.track].ended
  BY <1>3 DEF MediaInv, OneJob, Live
<1> HIDE DEF F
<1> QED
  BY <1>1, <1>2, <1>4, <1>5, GoesOnInv

LEMMA ChunkInv == ASSUME MediaInv, NEW t \in Tracks, Chunk(t) PROVE MediaInv'
<1> DEFINE s == [session[t] EXCEPT !.sent = @ + 1]
<1>1. session[t] \in Sessions /\ session[t] # None
  BY DEF MediaInv, MediaTypes, Chunk
<1>2. s \in Sessions /\ s.blob = session[t].blob /\ s.ended = session[t].ended
  BY <1>1 DEF Sessions
<1>3. s # None
  BY <1>2, MediaAssumption DEF Sessions
<1>4. session' = [session EXCEPT ![t] = s]
  BY DEF Chunk
<1>5. DOMAIN request' = Requests /\ request' = request
  BY DEF MediaInv, MediaTypes, Chunk
<1> HIDE DEF s
<1> QED
  BY <1>1, <1>2, <1>3, <1>4, <1>5, SessionInv DEF Chunk

LEMMA SourceEndsInv == ASSUME MediaInv, NEW t \in Tracks, SourceEnds(t) PROVE MediaInv'
<1> DEFINE s == IF Unsettled(t) THEN [session[t] EXCEPT !.ended = TRUE] ELSE None
<1>1. session[t] \in Sessions /\ session[t] # None
  BY DEF MediaInv, MediaTypes, SourceEnds
<1>2. Unsettled(t) => s \in Sessions /\ s.blob = session[t].blob /\ s.ended
  BY <1>1 DEF Sessions
<1>3. s \in Sessions => s # None
  BY MediaAssumption DEF Sessions
<1>4. session' = [session EXCEPT ![t] = s] /\ s \in Sessions \cup {None}
  BY <1>2 DEF SourceEnds
<1>5. DOMAIN request' = Requests /\ request' = request
  BY DEF MediaInv, MediaTypes, SourceEnds
<1> HIDE DEF s
<1> QED
  BY <1>1, <1>2, <1>3, <1>4, <1>5, SessionInv DEF SourceEnds

LEMMA EndRelayInv == ASSUME MediaInv, NEW r \in Requests, EndRelay(r) PROVE MediaInv'
<1> DEFINE t == request[r].track
<1>1. /\ request' = [request EXCEPT ![r] = Idle]
      /\ session' = IF session[t] # None /\ ~Unsettled(t) /\ Relays(t) = {r}
                    THEN [session EXCEPT ![t] = None] ELSE session
      /\ UNCHANGED <<asset, listed, ledger, staged, objects, jobs, sweep, minted, stops,
                     stranded, excused>>
  BY DEF EndRelay
<1>2. /\ DOMAIN request' = Requests
      /\ \A s \in Requests : request'[s].at = "opening" => request'[s] = request[s]
  BY <1>1 DEF MediaInv, MediaTypes, Idle
<1> HIDE DEF t
<1>3. CASE session[t] # None /\ ~Unsettled(t) /\ Relays(t) = {r} /\ t \in Tracks
  <2>1. session' = [session EXCEPT ![t] = None]
    BY <1>1, <1>3
  <2> QED
    BY <1>1, <1>2, <1>3, <2>1, SessionInv
<1>4. CASE ~(session[t] # None /\ ~Unsettled(t) /\ Relays(t) = {r} /\ t \in Tracks)
  <2>1. session' = session
    BY <1>1, <1>4 DEF MediaInv, MediaTypes
  <2> DEFINE F == [j \in jobs |-> j]
  <2>2. GoesOn(F)
    BY <1>1 DEF GoesOn, MediaInv, MediaTypes
  <2>3. \A j \in jobs : F[j] = j
    OBVIOUS
  <2>4. \A j \in jobs : j.kind = "audio" /\ Live(F[j]) =>
            session'[j.track] # None /\ session'[j.track].blob = j.blob
    BY <2>1, <2>3 DEF MediaInv, OneJob
  <2>5. \A j \in jobs : j.kind = "audio" /\ j.blob \in objects => session'[j.track].ended
    BY <2>1 DEF MediaInv, OneJob
  <2>6. session' \in [Tracks -> Sessions \cup {None}]
    BY <2>1 DEF MediaInv, MediaTypes
  <2> HIDE DEF F
  <2> QED
    BY <1>1, <1>2, <2>2, <2>4, <2>5, <2>6, GoesOnInv
<1> QED
  BY <1>3, <1>4

LEMMA SourceFailsInv == ASSUME MediaInv, NEW t \in Tracks, SourceFails(t) PROVE MediaInv'
<1> DEFINE F == [j \in jobs |-> IF j.track = t /\ j.blob = session[t].blob
                                THEN [j EXCEPT !.pc = "failing"] ELSE j]
<1>1. session[t] # None /\ ~session[t].ended /\ session[t] \in Sessions
  BY DEF SourceFails, MediaInv, MediaTypes
<1>2. jobs' = {F[j] : j \in jobs}
  BY DEF SourceFails
<1>3. GoesOn(F)
  <2> SUFFICES ASSUME NEW j \in jobs
               PROVE  /\ F[j] \in CacheJobs /\ F[j].track = j.track /\ F[j].kind = j.kind
                      /\ F[j].blob = j.blob /\ F[j].pc \in {j.pc, "failing"}
    BY <1>2 DEF GoesOn
  <2>1. j \in CacheJobs
    BY DEF MediaInv, MediaTypes
  <2> QED
    BY <2>1 DEF CacheJobs
<1>4. /\ DOMAIN request' = Requests
      /\ \A r \in Requests : request'[r].at = "opening" => request'[r] = request[r]
  BY DEF SourceFails, Idle
<1>5. PICK s \in Sessions \cup {None} : session' = [session EXCEPT ![t] = s]
  <2>1. [session[t] EXCEPT !.ended = TRUE] \in Sessions
    BY <1>1 DEF Sessions
  <2> QED
    BY <2>1 DEF SourceFails
<1>6. session' \in [Tracks -> Sessions \cup {None}] /\ \A u \in Tracks \ {t} : session'[u] = session[u]
  BY <1>5 DEF MediaInv, MediaTypes
\* No audio job of the track is live afterwards: the source had not ended.
<1>7. ASSUME NEW j \in jobs, j.kind = "audio", j.track = t PROVE ~Live(F[j]) /\ j.blob \notin objects
  <2>1. j.blob \notin objects
    BY <1>1, <1>7 DEF MediaInv, OneJob
  <2>2. CASE j.blob = session[t].blob
    <3>1. F[j].pc = "failing" /\ F[j].blob = j.blob
      BY <1>3, <1>7, <2>2 DEF MediaInv, MediaTypes, CacheJobs
    <3> QED
      BY <2>1, <3>1 DEF Live
  <2>3. CASE j.blob # session[t].blob
    <3>1. ~Live(j) /\ F[j] = j
      BY <1>7, <2>3 DEF MediaInv, OneJob
    <3> QED
      BY <2>1, <3>1
  <2> QED
    BY <2>2, <2>3
<1>8. \A j \in jobs : /\ j.track \in Tracks
                      /\ j.track # t => F[j] = j
  BY DEF MediaInv, MediaTypes, CacheJobs
<1> HIDE DEF F
<1>9. \A j \in jobs : j.kind = "audio" /\ Live(F[j]) =>
          session'[j.track] # None /\ session'[j.track].blob = j.blob
  BY <1>6, <1>7, <1>8 DEF MediaInv, OneJob
<1>10. \A j \in jobs : j.kind = "audio" /\ j.blob \in objects => session'[j.track].ended
  BY <1>6, <1>7, <1>8 DEF MediaInv, OneJob
<1>11. UNCHANGED <<asset, ledger, objects, sweep, minted, stranded, excused>>
  BY DEF SourceFails
<1> QED
  BY <1>3, <1>4, <1>6, <1>9, <1>10, <1>11, GoesOnInv

LEMMA JobFailsInv == ASSUME MediaInv, NEW j \in jobs, JobFails(j) PROVE MediaInv'
<1> DEFINE e == [j EXCEPT !.pc = "failing"]
           F == [i \in jobs |-> IF i = j THEN e ELSE i]
<1>1. j \in CacheJobs /\ j.pc # "failing" /\ jobs' = (jobs \ {j}) \cup {e}
  BY DEF JobFails, MediaInv, MediaTypes
<1>2. e \in CacheJobs /\ e.track = j.track /\ e.kind = j.kind /\ e.blob = j.blob /\ e.pc = "failing"
  BY <1>1 DEF CacheJobs
<1> HIDE DEF e
<1>3. jobs' = {F[i] : i \in jobs}
  BY <1>1
<1>4. GoesOn(F)
  BY <1>2, <1>3 DEF GoesOn, MediaInv, MediaTypes
<1>5. \A i \in jobs : Live(F[i]) => Live(i)
  BY <1>1, <1>2 DEF Live
<1> HIDE DEF F
<1> QED
  BY <1>4, <1>5, GoesOnInv DEF JobFails, MediaInv, MediaTypes, OneJob

-----------------------------------------------------------------------------
(* CacheJobs that begin.                                                        *)

\* Blob ids: each new job has its own, beyond all that were handed out before.
LEMMA FreshIds ==
    ASSUME NEW new \in SUBSET Kinds, NEW m \in Nat
    PROVE  /\ Cardinality(new) \in Nat
           /\ \A k \in new : m + Cardinality({"audio", k} \cap new) \in m + 1 .. m + Cardinality(new)
           /\ \A k, l \in new : k # l => m + Cardinality({"audio", k} \cap new)
                                         # m + Cardinality({"audio", l} \cap new)
<1>1. Cardinality({"audio"}) = 1 /\ Cardinality({"cover"}) = 1 /\ Cardinality({}) = 0
  BY FS_Singleton, FS_EmptySet
<1>2. Cardinality({"audio", "cover"}) = 2
  <2>1. IsFiniteSet({"audio"}) /\ "cover" \notin {"audio"}
    BY FS_Singleton
  <2>2. Cardinality({"audio"} \cup {"cover"}) = Cardinality({"audio"}) + 1
    BY <2>1, FS_AddElement
  <2>3. {"audio"} \cup {"cover"} = {"audio", "cover"}
    OBVIOUS
  <2> QED
    BY <1>1, <2>2, <2>3
<1>3. new = {} \/ new = {"audio"} \/ new = {"cover"} \/ new = {"audio", "cover"}
  BY DEF Kinds
<1>4. CASE new = {}
  BY <1>1, <1>4
<1>5. CASE new = {"audio"}
  <2>1. {"audio", "audio"} \cap new = {"audio"}
    BY <1>5
  <2> QED
    BY <1>1, <1>5, <2>1
<1>6. CASE new = {"cover"}
  <2>1. \A k \in new : {"audio", k} \cap new = {"cover"}
    BY <1>6
  <2>2. Cardinality(new) = 1 /\ \A k \in new : Cardinality({"audio", k} \cap new) = 1
    BY <1>1, <1>6, <2>1
  <2>3. \A k, l \in new : k = l
    BY <1>6
  <2> QED
    BY <2>2, <2>3
<1>7. CASE new = {"audio", "cover"}
  <2>1. {"audio", "audio"} \cap new = {"audio"} /\ {"audio", "cover"} \cap new = {"audio", "cover"}
    BY <1>7
  <2>2. /\ Cardinality(new) = 2 /\ Cardinality({"audio", "audio"} \cap new) = 1
        /\ Cardinality({"audio", "cover"} \cap new) = 2
    BY <1>1, <1>2, <1>7, <2>1
  <2>3. \A k \in new : \/ /\ k = "audio"
                           /\ Cardinality({"audio", k} \cap new) = 1
                        \/ /\ k = "cover"
                           /\ Cardinality({"audio", k} \cap new) = 2
    BY <1>7, <2>2
  <2> QED
    BY <2>2, <2>3
<1> QED
  BY <1>3, <1>4, <1>5, <1>6, <1>7

\* What ensureMaterialized has started: the jobs of the kinds new, with the blobs id.
Begun(t, new, id) ==
    /\ \A k \in new : id[k] \in minted + 1 .. minted'
    /\ \A k, l \in new : k # l => id[k] # id[l]
    /\ \A k \in new : ~Ready(t, k) /\ ~Running(t, k)
    /\ jobs' = jobs \cup {[track |-> t, kind |-> k, blob |-> id[k], pc |-> "writing"] : k \in new}
    /\ RowsKept
    /\ session' = IF "audio" \in new
                  THEN [session EXCEPT ![t] = [blob |-> id["audio"], sent |-> 0, ended |-> FALSE]]
                  ELSE session

LEMMA StartBegins ==
    ASSUME MediaInv, NEW t \in Tracks, NEW ks \in SUBSET Kinds, Start(t, ks)
    PROVE  /\ minted' \in Nat /\ minted' >= minted
           /\ asset' \in [Tracks -> [Kinds -> AssetRows]]
           /\ \E new \in SUBSET Kinds : \E id \in [Kinds -> Nat] : Begun(t, new, id)
<1> DEFINE new == {k \in ks : ~Ready(t, k) /\ ~Running(t, k)}
           blob(k) == minted + Cardinality({"audio", k} \cap new)
           id == [k \in Kinds |-> blob(k)]
<1>1. /\ minted' = minted + Cardinality(new)
      /\ asset' = [asset EXCEPT ![t] = [k \in Kinds |->
             IF k \in new THEN Marked(asset[t][k], blob(k)) ELSE asset[t][k]]]
      /\ jobs' = jobs \cup
             {[track |-> t, kind |-> k, blob |-> blob(k), pc |-> "writing"] : k \in new}
      /\ session' = IF "audio" \in new
                    THEN [session EXCEPT ![t] =
                             [blob |-> blob("audio"), sent |-> 0, ended |-> FALSE]]
                    ELSE session
  BY DEF Start
<1>2. new \in SUBSET Kinds /\ \A k \in new : ~Ready(t, k) /\ ~Running(t, k)
  OBVIOUS
<1>3. minted \in Nat /\ asset \in [Tracks -> [Kinds -> AssetRows]]
  BY DEF MediaInv, MediaTypes
<1> HIDE DEF new
<1>4. /\ Cardinality(new) \in Nat
      /\ \A k \in new : blob(k) \in minted + 1 .. minted + Cardinality(new)
      /\ \A k, l \in new : k # l => blob(k) # blob(l)
  BY <1>2, <1>3, FreshIds
<1>5. \A k \in Kinds : blob(k) \in Nat
  <2> TAKE k \in Kinds
  <2>1. IsFiniteSet({"audio", k} \cap new)
    BY <1>2, KindsFinite, FS_Subset
  <2> QED
    BY <1>3, <2>1, FS_CardinalityType
<1> HIDE DEF blob
<1>6. id \in [Kinds -> Nat] /\ \A k \in Kinds : id[k] = blob(k)
  BY <1>5
<1>7. minted' \in Nat /\ minted' >= minted
  BY <1>1, <1>3, <1>4
<1>8. \A k \in Kinds : /\ Marked(asset[t][k], blob(k)) \in AssetRows
                       /\ Marked(asset[t][k], blob(k)).state = "ready" => Ready(t, k)
                       /\ Ready(t, k) => Marked(asset[t][k], blob(k)) = asset[t][k]
  BY <1>3, <1>5 DEF Marked, AssetRows, Ready
<1>9. /\ asset' \in [Tracks -> [Kinds -> AssetRows]]
      /\ \A u \in Tracks \ {t} : asset'[u] = asset[u]
      /\ \A k \in Kinds : asset'[t][k] = IF k \in new THEN Marked(asset[t][k], blob(k))
                                         ELSE asset[t][k]
  BY <1>1, <1>3, <1>8
<1>10. RowsKept
  <2> SUFFICES ASSUME NEW u \in Tracks, NEW k \in Kinds
               PROVE  /\ Ready(u, k)' = Ready(u, k)
                      /\ Ready(u, k) => asset'[u][k].blob = asset[u][k].blob
    BY DEF RowsKept
  <2>1. CASE u = t
    BY <1>8, <1>9, <2>1 DEF Ready
  <2>2. CASE u # t
    BY <1>9, <2>2 DEF Ready
  <2> QED
    BY <2>1, <2>2
<1>11. {[track |-> t, kind |-> k, blob |-> blob(k), pc |-> "writing"] : k \in new}
       = {[track |-> t, kind |-> k, blob |-> id[k], pc |-> "writing"] : k \in new}
  BY <1>2, <1>6
<1>12. "audio" \in Kinds
  BY DEF Kinds
<1> HIDE DEF id
<1>13. Begun(t, new, id)
  BY <1>1, <1>2, <1>4, <1>6, <1>10, <1>11, <1>12 DEF Begun
<1> QED
  BY <1>2, <1>6, <1>7, <1>9, <1>13

\* A step that begins jobs; the sweep learns of a touch at most.
LEMMA BegunInv ==
    ASSUME MediaInv, NEW t \in Tracks, NEW new \in SUBSET Kinds, NEW id \in [Kinds -> Nat],
           Begun(t, new, id), minted' \in Nat, minted' >= minted,
           asset' \in [Tracks -> [Kinds -> AssetRows]],
           sweep' \in Sweeps, sweep'.todo = sweep.todo, sweep'.track = sweep.track,
           sweep'.on = sweep.on, sweep'.list \subseteq sweep.list,
           DOMAIN request' = Requests,
           \A r \in Requests : request'[r].at = "opening" => request'[r] = request[r],
           UNCHANGED <<ledger, objects, stranded, excused>>
    PROVE  MediaInv'
<1> DEFINE J(k) == [track |-> t, kind |-> k, blob |-> id[k], pc |-> "writing"]
<1>1. /\ MediaTypes /\ Minted /\ Apart /\ OnDisk /\ OneJob /\ SweepSane
      /\ ObjectsOwned /\ Leases /\ Books
  BY DEF MediaInv
<1>2. /\ \A k \in new : id[k] \in minted + 1 .. minted'
      /\ \A k, l \in new : k # l => id[k] # id[l]
      /\ \A k \in new : ~Ready(t, k) /\ ~Running(t, k)
      /\ jobs' = jobs \cup {J(k) : k \in new}
      /\ session' = IF "audio" \in new
                    THEN [session EXCEPT ![t] = [blob |-> id["audio"], sent |-> 0, ended |-> FALSE]]
                    ELSE session
  BY DEF Begun
<1>3. /\ \A u \in Tracks, k \in Kinds : Ready(u, k)' = Ready(u, k)
      /\ \A u \in Tracks, k \in Kinds : Ready(u, k) => asset'[u][k].blob = asset[u][k].blob
  BY DEF Begun, RowsKept
<1>4. \A u \in Tracks, k \in Kinds : \A b : Names(u, k, b)' = Names(u, k, b)
  BY <1>3 DEF Names
<1>5. minted \in Nat /\ \A k \in new : id[k] \in Nat /\ id[k] > minted /\ id[k] <= minted'
  BY <1>1, <1>2 DEF MediaTypes
<1>6. \A k \in new : J(k) \in CacheJobs /\ J(k).track = t /\ J(k).kind = k /\ J(k).blob = id[k]
                     /\ J(k).pc = "writing" /\ J(k) \in jobs'
  BY <1>2 DEF CacheJobs
<1> HIDE DEF J
<1>7. \A j \in jobs' : j \in jobs \/ \E k \in new : j = J(k)
  BY <1>2
<1>8. \A k \in new : /\ id[k] \notin objects /\ id[k] \notin sweep.todo
                     /\ \A j \in jobs : j.blob # id[k]
                     /\ \A u \in Tracks, l \in Kinds : ~Names(u, l, id[k])
  <2> TAKE k \in new
  <2>1. id[k] \notin objects /\ id[k] \notin sweep.todo
    BY <1>1, <1>5 DEF Minted, MediaTypes
  <2>2. \A j \in jobs : j.blob # id[k]
    BY <1>1, <1>5 DEF Minted, MediaTypes, CacheJobs
  <2>3. \A u \in Tracks, l \in Kinds : ~Names(u, l, id[k])
    BY <1>1, <1>5 DEF Minted, Names
  <2> QED
    BY <2>1, <2>2, <2>3
<1>9. MediaTypes'
  <2>1. jobs' \subseteq CacheJobs
    BY <1>1, <1>6, <1>7 DEF MediaTypes
  <2>2. "audio" \in new => [blob |-> id["audio"], sent |-> 0, ended |-> FALSE] \in Sessions
    BY <1>5 DEF Sessions
  <2>3. session' \in [Tracks -> Sessions \cup {None}]
    BY <1>1, <1>2, <2>2 DEF MediaTypes
  <2> QED
    BY <1>1, <2>1, <2>3 DEF MediaTypes
<1>10. Minted'
  <2>1. \A b \in objects \cup sweep.todo : b <= minted'
    <3>1. \A b \in objects \cup sweep.todo : b \in Nat /\ b <= minted
      BY <1>1 DEF Minted, MediaTypes, Sweeps
    <3>2. minted <= minted' /\ objects' = objects /\ sweep'.todo = sweep.todo
      OBVIOUS
    <3> QED
      BY <1>5, <3>1, <3>2
  <2>2. \A j \in jobs' : j.blob <= minted'
    BY <1>1, <1>5, <1>6, <1>7 DEF Minted, MediaTypes, CacheJobs
  <2>3. \A u \in Tracks, k \in Kinds : Ready(u, k)' => asset'[u][k].blob \in 0..minted'
    <3>1. 0..minted \subseteq 0..minted'
      BY <1>5
    <3>2. \A u \in Tracks, k \in Kinds : Ready(u, k) => asset'[u][k].blob \in 0..minted
      BY <1>1, <1>3 DEF Minted
    <3> QED
      BY <1>3, <3>1, <3>2
  <2> QED
    BY <2>1, <2>2, <2>3 DEF Minted
<1>11. Apart'
  <2>1. \A i, j \in jobs' : i.blob = j.blob => i = j
    BY <1>1, <1>2, <1>6, <1>7, <1>8 DEF Apart
  <2>2. \A j \in jobs', u \in Tracks, k \in Kinds : ~Names(u, k, j.blob)
    BY <1>1, <1>6, <1>7, <1>8 DEF Apart
  <2>3. \A j \in jobs' : j.blob \notin sweep.todo
    BY <1>1, <1>6, <1>7, <1>8 DEF Apart
  <2>4. \A u, v \in Tracks, k, l \in Kinds :
            Ready(u, k)' /\ Names(v, l, asset'[u][k].blob) => u = v /\ k = l
    BY <1>1, <1>3 DEF Apart
  <2> QED
    BY <1>1, <1>4, <2>1, <2>2, <2>3, <2>4 DEF Apart
<1>12. OnDisk'
  <2>1. ReadyOnDisk'
    BY <1>1, <1>3 DEF OnDisk, ReadyOnDisk
  <2>2. \A j \in jobs' : j.pc = "committed" => j.blob \in objects
    BY <1>1, <1>6, <1>7 DEF OnDisk
  <2> QED
    BY <2>1, <2>2 DEF OnDisk
<1>13. \A j \in jobs : j.kind = "audio" /\ j.track = t /\ Live(j) => "audio" \notin new
  BY <1>1, <1>2 DEF OneJob, Running
<1>14. \A j \in jobs : j.track \in Tracks /\ j.kind \in Kinds
  BY <1>1 DEF MediaTypes, CacheJobs
<1>15. \A j \in jobs : j.kind = "audio" /\ Live(j) => session'[j.track] = session[j.track]
  BY <1>1, <1>2, <1>13, <1>14 DEF MediaTypes
<1>16. OneJob'
  <2>1. \A j \in jobs' : Live(j)' => ~Ready(j.track, j.kind)'
    BY <1>1, <1>2, <1>3, <1>6, <1>7, <1>14 DEF OneJob, Live
  <2>2. \A j \in jobs' : j.kind = "audio" /\ Live(j)' =>
            session'[j.track] # None /\ session'[j.track].blob = j.blob
    <3> SUFFICES ASSUME NEW j \in jobs', j.kind = "audio", Live(j)'
                 PROVE  session'[j.track] # None /\ session'[j.track].blob = j.blob
      OBVIOUS
    <3>1. CASE j \in jobs
      BY <1>1, <1>15, <3>1 DEF OneJob, Live
    <3>2. CASE j \notin jobs
      <4>1. "audio" \in new /\ j = J("audio")
        BY <1>6, <1>7, <3>2
      <4>2. session'[t] = [blob |-> id["audio"], sent |-> 0, ended |-> FALSE]
        BY <1>1, <1>2, <4>1 DEF MediaTypes
      <4>3. session'[t] \in Sessions
        BY <1>5, <4>1, <4>2 DEF Sessions
      <4>4. session'[t] # None
        BY <4>3, MediaAssumption DEF Sessions
      <4>5. j.track = t /\ j.blob = id["audio"]
        BY <1>6, <4>1
      <4> QED
        BY <4>2, <4>4, <4>5
    <3> QED
      BY <3>1, <3>2
  <2>3. \A j \in jobs' : j.kind = "audio" /\ j.blob \in objects => session'[j.track].ended
    BY <1>1, <1>6, <1>7, <1>8, <1>15 DEF OneJob, Live
  <2>4. \A i, j \in jobs' : i.kind = "cover" /\ j.kind = "cover" /\ i.track = j.track => i = j
    <3>1. \A i \in jobs : i.kind = "cover" /\ i.track = t => "cover" \notin new
      BY <1>2 DEF Running
    <3> QED
      BY <1>1, <1>6, <1>7, <3>1 DEF OneJob
  <2> QED
    BY <2>1, <2>2, <2>3, <2>4 DEF OneJob
<1>17. SweepSane'
  BY <1>1 DEF SweepSane
<1>18. ObjectsOwned'
  <2> SUFFICES ASSUME NEW b \in objects \ stranded
               PROVE  \/ \E u \in Tracks, k \in Kinds : Ready(u, k)' /\ asset'[u][k].blob = b
                      \/ \E j \in jobs' : j.blob = b
                      \/ b \in sweep.todo
    BY DEF ObjectsOwned
  <2>1. jobs \subseteq jobs'
    BY <1>2
  <2> QED
    BY <1>1, <1>3, <2>1 DEF ObjectsOwned
<1>19. Leases'
  <2> SUFFICES ASSUME NEW r \in Requests, request'[r].at = "opening" PROVE Lent(request[r])'
    BY DEF Leases
  <2>1. Lent(request[r])
    BY <1>1 DEF Leases
  <2>2. \A j \in jobs' : j.blob # request[r].blob
    BY <1>6, <1>7, <1>8, <2>1 DEF Lent
  <2> QED
    BY <1>4, <2>1, <2>2 DEF Lent
<1>20. Books'
  <2>1. \A u \in Tracks : Weight(u)' = Weight(u) /\ Booked(u)' = Booked(u)
    BY <1>3, SameWeight DEF Booked
  <2> QED
    BY <1>1, <2>1 DEF Books
<1> QED
  BY <1>9, <1>10, <1>11, <1>12, <1>16, <1>17, <1>18, <1>19, <1>20 DEF MediaInv

LEMMA StartInv ==
    ASSUME MediaInv, NEW t \in Tracks, NEW ks \in SUBSET Kinds, Start(t, ks),
           sweep' = sweep \/ sweep' = Stir(t),
           DOMAIN request' = Requests,
           \A r \in Requests : request'[r].at = "opening" => request'[r] = request[r],
           UNCHANGED <<ledger, objects, stranded, excused>>
    PROVE  MediaInv'
<1>1. sweep \in Sweeps
  BY DEF MediaInv, MediaTypes
<1>2. sweep' \in Sweeps /\ sweep'.todo = sweep.todo /\ sweep'.track = sweep.track /\ sweep'.on = sweep.on
      /\ sweep'.list \subseteq sweep.list
  <2>1. (sweep.stirred \/ sweep.track = t) \in BOOLEAN
    BY <1>1 DEF Sweeps
  <2> QED
    BY <1>1, <2>1 DEF Stir, Sweeps
<1>3. PICK new \in SUBSET Kinds : \E id \in [Kinds -> Nat] : Begun(t, new, id)
  BY StartBegins
<1>4. PICK id \in [Kinds -> Nat] : Begun(t, new, id)
  BY <1>3
<1> QED
  BY <1>2, <1>4, StartBegins, BegunInv

LEMMA PlayInv == ASSUME MediaInv, NEW t \in Tracks, Play(t) PROVE MediaInv'
  BY StartInv DEF Play, Touch, MediaInv, MediaTypes

LEMMA PrepareInv == ASSUME MediaInv, NEW t \in Tracks, Prepare(t) PROVE MediaInv'
  BY StartInv DEF Prepare, MediaInv, MediaTypes

LEMMA GetCoverInv ==
    ASSUME MediaInv, NEW r \in Requests, NEW t \in Tracks, GetCover(r, t) PROVE MediaInv'
<1> DEFINE q == [at |-> "waiting", track |-> t, kind |-> "cover"]
<1>1. request' = [request EXCEPT ![r] = q] /\ q.at # "opening"
  BY DEF GetCover
<1> HIDE DEF q
<1>2. /\ DOMAIN request' = Requests
      /\ \A s \in Requests : request'[s].at = "opening" => request'[s] = request[s]
  BY <1>1 DEF MediaInv, MediaTypes
<1>3. {"cover"} \in SUBSET Kinds
  BY DEF Kinds
<1> QED
  BY <1>2, <1>3, StartInv DEF GetCover

LEMMA GetRelayInv ==
    ASSUME MediaInv, NEW r \in Requests, NEW t \in Tracks, GetRelay(r, t) PROVE MediaInv'
<1> DEFINE q == [at |-> "relay", track |-> t, stream |-> session'[t].blob,
                 from |-> session'[t].sent]
<1>1. request' = [request EXCEPT ![r] = q] /\ q.at # "opening"
  BY DEF GetRelay
<1> HIDE DEF q
<1>2. /\ DOMAIN request' = Requests
      /\ \A s \in Requests : request'[s].at = "opening" => request'[s] = request[s]
  BY <1>1 DEF MediaInv, MediaTypes
<1>3. {"audio"} \in SUBSET Kinds
  BY DEF Kinds
<1> QED
  BY <1>2, <1>3, StartInv DEF GetRelay, Touch

-----------------------------------------------------------------------------
(* CacheJobs that commit, publish or clean up.                                  *)

LEMMA CommitInv == ASSUME MediaInv, NEW j \in jobs, Commit(j) PROVE MediaInv'
<1> DEFINE e == [j EXCEPT !.pc = "committed"]
<1>1. /\ MediaTypes /\ Minted /\ Apart /\ OnDisk /\ OneJob /\ SweepSane
      /\ ObjectsOwned /\ Leases /\ Books
  BY DEF MediaInv
<1>2. /\ j \in CacheJobs /\ j.pc = "writing"
      /\ j.kind = "audio" => session[j.track] # None /\ session[j.track].ended
      /\ objects' = objects \cup {j.blob}
      /\ jobs' = (jobs \ {j}) \cup {e}
      /\ UNCHANGED <<asset, ledger, session, request, sweep, minted, stranded, excused>>
  BY <1>1 DEF Commit, MediaTypes
<1>3. e \in CacheJobs /\ e.track = j.track /\ e.kind = j.kind /\ e.blob = j.blob /\ e.pc = "committed"
  BY <1>2 DEF CacheJobs
<1> HIDE DEF e
<1>4. \A i \in jobs' : i = e \/ (i \in jobs /\ i # j /\ i.blob # j.blob)
  BY <1>1, <1>2 DEF Apart
<1>5. \A t \in Tracks, k \in Kinds :
        Ready(t, k)' = Ready(t, k) /\ \A b : Names(t, k, b)' = Names(t, k, b)
  BY <1>2 DEF Ready, Names
<1>6. \A i \in jobs' : i # e => (Live(i)' <=> Live(i))
  BY <1>2, <1>4 DEF Live
<1>7. MediaTypes'
  BY <1>1, <1>2, <1>3 DEF MediaTypes, CacheJobs
<1>8. Minted'
  BY <1>1, <1>2, <1>3, <1>4, <1>5 DEF Minted
<1>9. Apart'
  <2>1. \A i, k \in jobs' : i.blob = k.blob => i = k
    BY <1>1, <1>3, <1>4 DEF Apart
  <2>2. \A i \in jobs' : \E k \in jobs : k.blob = i.blob
    BY <1>3, <1>4
  <2> QED
    BY <1>1, <1>2, <1>5, <2>1, <2>2 DEF Apart
<1>10. OnDisk'
  <2>1. ReadyOnDisk'
    BY <1>1, <1>2, <1>5 DEF OnDisk, ReadyOnDisk
  <2>2. \A i \in jobs' : i.pc = "committed" => i.blob \in objects'
    BY <1>1, <1>2, <1>3, <1>4 DEF OnDisk
  <2> QED
    BY <2>1, <2>2 DEF OnDisk
<1>11. OneJob'
  <2>1. Live(j)
    BY <1>2 DEF Live
  <2>2. ~Ready(e.track, e.kind)' /\ (e.kind = "audio" => /\ session'[e.track] # None
                                      /\ session'[e.track].blob = e.blob /\ session'[e.track].ended)
    BY <1>1, <1>2, <1>3, <2>1 DEF OneJob, Ready
  <2>3. \A i \in jobs' : Live(i)' => ~Ready(i.track, i.kind)'
    <3> SUFFICES ASSUME NEW i \in jobs', Live(i)', i # e PROVE ~Ready(i.track, i.kind)'
      BY <2>2
    <3> QED
      BY <1>1, <1>2, <1>4, <1>6 DEF OneJob, Ready
  <2>4. \A i \in jobs' : i.kind = "audio" /\ Live(i)' =>
            session'[i.track] # None /\ session'[i.track].blob = i.blob
    BY <1>1, <1>2, <1>4, <1>6, <2>2 DEF OneJob
  <2>5. \A i \in jobs' : i.kind = "audio" /\ i.blob \in objects' => session'[i.track].ended
    BY <1>1, <1>2, <1>4, <2>2 DEF OneJob
  <2>6. \A i, k \in jobs' : i.kind = "cover" /\ k.kind = "cover" /\ i.track = k.track => i = k
    BY <1>1, <1>3, <1>4 DEF OneJob
  <2> QED
    BY <2>3, <2>4, <2>5, <2>6 DEF OneJob
<1>12. SweepSane'
  BY <1>1, <1>2 DEF SweepSane
<1>13. ObjectsOwned'
  <2> SUFFICES ASSUME NEW b \in objects' \ stranded'
               PROVE  \/ \E t \in Tracks, k \in Kinds : Ready(t, k)' /\ asset'[t][k].blob = b
                      \/ \E i \in jobs' : i.blob = b
                      \/ b \in sweep'.todo
    BY DEF ObjectsOwned
  <2>1. e \in jobs' /\ jobs \ {j} \subseteq jobs'
    BY <1>2
  <2> QED
    BY <1>1, <1>2, <1>3, <1>5, <2>1 DEF ObjectsOwned
<1>14. Leases'
  <2> SUFFICES ASSUME NEW r \in Requests, request'[r].at = "opening" PROVE Lent(request[r])'
    BY <1>2 DEF Leases
  <2>1. Lent(request[r])
    BY <1>1, <1>2 DEF Leases
  <2> QED
    BY <1>2, <1>3, <1>4, <1>5, <2>1 DEF Lent
<1>15. Books'
  <2>1. \A t \in Tracks : Weight(t)' = Weight(t) /\ Booked(t)' = Booked(t)
    BY <1>2, <1>5, SameWeight DEF Booked
  <2> QED
    BY <1>1, <1>2, <2>1 DEF Books
<1> QED
  BY <1>7, <1>8, <1>9, <1>10, <1>11, <1>12, <1>13, <1>14, <1>15 DEF MediaInv

\* The end of a job: the others keep what they rely on.
LEMMA Others ==
    ASSUME MediaInv, NEW j \in jobs, jobs' = jobs \ {j}, session' = Settled(j)
    PROVE  /\ \A i \in jobs' : i \in jobs /\ i.blob # j.blob
           /\ session' \in [Tracks -> Sessions \cup {None}]
           /\ \A i \in jobs' : i.kind = "audio" /\ Live(i) => session'[i.track] = session[i.track]
           /\ \A i \in jobs' : Live(i) /\ Live(j) => i.track # j.track \/ i.kind # j.kind
<1>1. MediaTypes /\ Apart /\ OneJob
  BY DEF MediaInv
<1>2. \A i \in jobs' : i \in jobs /\ i.blob # j.blob
  BY <1>1 DEF Apart
<1>3. j \in CacheJobs /\ \A i \in jobs : i \in CacheJobs
  BY <1>1 DEF MediaTypes
<1>4. Disposed(j.track, session[j.track]) \in Sessions \cup {None}
  BY <1>1, <1>3 DEF Disposed, MediaTypes, CacheJobs
<1>5. session' \in [Tracks -> Sessions \cup {None}]
  BY <1>1, <1>3, <1>4 DEF Settled, MediaTypes, CacheJobs
<1>6. ASSUME NEW i \in jobs', i.kind = "audio", Live(i)
      PROVE  session'[i.track] = session[i.track]
  <2>1. i.track \in Tracks /\ session[i.track].blob = i.blob /\ i.blob # j.blob
    BY <1>1, <1>2, <1>3, <1>6 DEF OneJob, CacheJobs
  <2>2. CASE i.track = j.track
    <3>1. session[j.track].blob # j.blob
      BY <2>1, <2>2
    <3> QED
      BY <3>1 DEF Settled
  <2>3. CASE i.track # j.track
    BY <1>1, <2>1, <2>3 DEF Settled, MediaTypes
  <2> QED
    BY <2>2, <2>3
<1>7. ASSUME NEW i \in jobs', Live(i), Live(j), i.track = j.track, i.kind = j.kind PROVE FALSE
  <2>1. i \in jobs /\ i # j /\ i.blob # j.blob
    BY <1>2
  <2>2. CASE i.kind = "audio"
    BY <1>1, <1>7, <2>1, <2>2 DEF OneJob
  <2>3. CASE i.kind = "cover"
    BY <1>1, <1>7, <2>1, <2>3 DEF OneJob
  <2> QED
    BY <1>3, <2>1, <2>2, <2>3 DEF CacheJobs, Kinds
<1> QED
  BY <1>2, <1>5, <1>6, <1>7

\* The weight counts: zero means that nothing is ready.
LEMMA KindsCount ==
    \A S \in SUBSET Kinds : Cardinality(S) \in Nat /\ (Cardinality(S) = 0 <=> S = {})
  BY KindsFinite, FS_CardinalityType, FS_EmptySet

LEMMA AccountBooks ==
    ASSUME MediaInv, NEW t \in Tracks, NEW w \in Nat, Account(t, w)
    PROVE  /\ ledger' \in [Tracks -> LedgerRows \cup {None}]
           /\ \A u \in Tracks : u # t => Booked(u)' = Booked(u)
           /\ w # 0 => Booked(t)' = w
           /\ w = 0 => ledger' = ledger
           /\ excused \subseteq excused' \cup {t}
           /\ w = 0 => excused' = excused
           /\ sweep' \in Sweeps /\ sweep'.todo = sweep.todo /\ sweep'.track = sweep.track
           /\ SweepSane'
<1>1. MediaTypes /\ SweepSane
  BY DEF MediaInv
<1>2. CASE w = 0
  <2>1. UNCHANGED <<ledger, sweep, excused>>
    BY <1>2 DEF Account
  <2> QED
    BY <1>1, <1>2, <2>1 DEF MediaTypes, SweepSane, Booked
<1>3. CASE w # 0
  <2> DEFINE e == [weight |-> w, pinned |-> TRUE]
             st == sweep.stirred \/ (sweep.track = t /\ ledger[t] = None)
  <2>1. /\ ledger' = [ledger EXCEPT ![t] = e] /\ excused' = excused \ {t}
        /\ sweep' = [sweep EXCEPT !.list = @ \ {t}, !.stirred = st]
    BY <1>3 DEF Account
  <2>2. e \in LedgerRows /\ e.weight = w
    BY DEF LedgerRows
  <2>3. e # None
    BY <2>2, MediaAssumption DEF LedgerRows
  <2> HIDE DEF e
  <2>4. /\ ledger' \in [Tracks -> LedgerRows \cup {None}]
        /\ \A u \in Tracks : ledger'[u] = IF u = t THEN e ELSE ledger[u]
    BY <1>1, <2>1, <2>2 DEF MediaTypes
  <2>5. (\A u \in Tracks : u # t => Booked(u)' = Booked(u)) /\ Booked(t)' = w
    BY <2>2, <2>3, <2>4 DEF Booked
  <2>6. st \in BOOLEAN
    BY <1>1 DEF MediaTypes, Sweeps
  <2> HIDE DEF st
  <2>7. /\ sweep' \in Sweeps /\ sweep'.todo = sweep.todo /\ sweep'.track = sweep.track
        /\ sweep'.on = sweep.on /\ sweep'.list = sweep.list \ {t} /\ sweep.list \subseteq Tracks
    BY <1>1, <2>1, <2>6 DEF MediaTypes, Sweeps
  <2>8. SweepSane'
    BY <1>1, <2>4, <2>7 DEF SweepSane
  <2> QED
    BY <1>3, <2>1, <2>4, <2>5, <2>7, <2>8
<1> QED
  BY <1>2, <1>3

LEMMA PublishInv == ASSUME MediaInv, NEW j \in jobs, Publish(j) PROVE MediaInv'
<1> DEFINE t == j.track
           k == j.kind
           row == [state |-> "ready", blob |-> j.blob]
<1>1. /\ MediaTypes /\ Minted /\ Apart /\ OnDisk /\ OneJob /\ SweepSane
      /\ ObjectsOwned /\ Leases /\ Books
  BY DEF MediaInv
<1>2. /\ j.pc = "committed" /\ asset' = Published(j)
      /\ Account(t, Cardinality({l \in Kinds : asset'[t][l].state = "ready"}))
      /\ request' = Woken(t, k, asset'[t][k])
      /\ jobs' = jobs \ {j} /\ session' = Settled(j)
      /\ stranded' = IF asset[t][k].state = "absent" THEN stranded \cup {j.blob} ELSE stranded
      /\ UNCHANGED <<objects, minted>>
  BY DEF Publish
<1>3. j \in CacheJobs /\ t \in Tracks /\ k \in Kinds /\ j.blob \in Nat /\ j.blob <= minted
      /\ j.blob \in objects /\ j.blob \notin sweep.todo /\ Live(j) /\ ~Ready(t, k)
      /\ \A u \in Tracks, l \in Kinds : ~Names(u, l, j.blob)
  BY <1>1, <1>2 DEF MediaTypes, CacheJobs, Minted, OnDisk, Apart, OneJob, Live
<1>4. asset' \in [Tracks -> [Kinds -> AssetRows]]
      /\ \A u \in Tracks, l \in Kinds : asset'[u][l] =
             IF u = t /\ l = k /\ asset[t][k].state # "absent" THEN row ELSE asset[u][l]
  <2>1. row \in AssetRows
    BY <1>3 DEF AssetRows
  <2>2. asset \in [Tracks -> [Kinds -> AssetRows]]
    BY <1>1 DEF MediaTypes
  <2> HIDE DEF row
  <2>3. CASE asset[t][k].state = "absent"
    BY <1>2, <2>2, <2>3 DEF Published
  <2>4. CASE asset[t][k].state # "absent"
    <3>1. asset' = [asset EXCEPT ![t] = [asset[t] EXCEPT ![k] = row]]
      BY <1>2, <2>4 DEF Published, row
    <3>2. [asset[t] EXCEPT ![k] = row] \in [Kinds -> AssetRows]
      BY <1>3, <2>1, <2>2
    <3> QED
      BY <1>3, <2>2, <2>4, <3>1, <3>2
  <2> QED
    BY <2>3, <2>4
<1>5. /\ \A u \in Tracks, l \in Kinds :
           /\ ~(u = t /\ l = k) => Ready(u, l)' = Ready(u, l)
           /\ Ready(u, l) => asset'[u][l] = asset[u][l] /\ Ready(u, l)'
      /\ Ready(t, k)' => asset'[t][k] = row /\ asset[t][k].state # "absent"
      /\ asset[t][k].state # "absent" => Ready(t, k)' /\ asset'[t][k].blob = j.blob
  BY <1>3, <1>4 DEF Ready
<1>6. \A u \in Tracks, l \in Kinds : \A b : Names(u, l, b)' =>
        Names(u, l, b) \/ (u = t /\ l = k /\ b = j.blob)
  BY <1>3, <1>4, <1>5 DEF Names, Ready
<1> DEFINE w == Cardinality({l \in Kinds : Ready(t, l)'})
<1>7. w = Weight(t)' /\ Account(t, w)
  BY <1>2 DEF Weight, Ready
<1>8. w \in Nat /\ (w = 0 <=> \A l \in Kinds : ~Ready(t, l)')
  <2> DEFINE S == {l \in Kinds : Ready(t, l)'}
  <2>1. S \in SUBSET Kinds /\ (S = {} <=> \A l \in Kinds : ~Ready(t, l)')
    OBVIOUS
  <2> HIDE DEF S
  <2>2. Cardinality(S) \in Nat /\ (Cardinality(S) = 0 <=> S = {})
    BY <2>1, KindsCount
  <2> QED
    BY <2>1, <2>2 DEF S
<1> HIDE DEF w
<1>9. /\ ledger' \in [Tracks -> LedgerRows \cup {None}]
      /\ \A u \in Tracks : u # t => Booked(u)' = Booked(u)
      /\ w # 0 => Booked(t)' = w
      /\ w = 0 => ledger' = ledger
      /\ excused \subseteq excused' \cup {t}
      /\ w = 0 => excused' = excused
      /\ sweep' \in Sweeps /\ sweep'.todo = sweep.todo /\ sweep'.track = sweep.track
      /\ SweepSane'
  BY <1>3, <1>7, <1>8, AccountBooks
<1>10. /\ \A i \in jobs' : i \in jobs /\ i.blob # j.blob
       /\ session' \in [Tracks -> Sessions \cup {None}]
       /\ \A i \in jobs' : i.kind = "audio" /\ Live(i) => session'[i.track] = session[i.track]
       /\ \A i \in jobs' : Live(i) => i.track # t \/ i.kind # k
  BY <1>2, <1>3, Others
<1>11. MediaTypes'
  <2>1. DOMAIN request' = Requests
    BY <1>2 DEF Woken
  <2>2. jobs' \subseteq CacheJobs /\ objects' \subseteq Nat /\ minted' \in Nat
    BY <1>1, <1>2 DEF MediaTypes
  <2> QED
    BY <1>4, <1>9, <1>10, <2>1, <2>2 DEF MediaTypes
<1>12. Minted'
  <2>1. \A u \in Tracks, l \in Kinds : Ready(u, l)' => asset'[u][l].blob \in 0..minted'
    <3> SUFFICES ASSUME NEW u \in Tracks, NEW l \in Kinds, Ready(u, l)'
                 PROVE  asset'[u][l].blob \in 0..minted
      BY <1>2
    <3>1. CASE u = t /\ l = k
      BY <1>1, <1>3, <1>5, <3>1 DEF MediaTypes
    <3>2. CASE ~(u = t /\ l = k)
      BY <1>1, <1>5, <3>2 DEF Minted
    <3> QED
      BY <3>1, <3>2
  <2> QED
    BY <1>1, <1>2, <1>9, <1>10, <2>1 DEF Minted
<1>13. Apart'
  <2>1. \A i \in jobs', u \in Tracks, l \in Kinds : ~Names(u, l, i.blob)'
    BY <1>1, <1>6, <1>10 DEF Apart
  <2>2. \A b \in sweep'.todo, u \in Tracks, l \in Kinds : ~Names(u, l, b)'
    BY <1>1, <1>3, <1>6, <1>9 DEF Apart
  <2>3. ASSUME NEW u \in Tracks, NEW v \in Tracks, NEW l \in Kinds, NEW m \in Kinds, NEW b,
               Names(u, l, b)', Names(v, m, b)'
        PROVE  u = v /\ l = m
    <3>1. CASE b = j.blob
      BY <1>3, <1>6, <2>3, <3>1
    <3>2. CASE b # j.blob
      <4>1. Names(u, l, b) /\ Names(v, m, b)
        BY <1>6, <2>3, <3>2
      <4> QED
        BY <1>1, <4>1 DEF Apart, Names
    <3> QED
      BY <3>1, <3>2
  <2>4. \A u, v \in Tracks, l, m \in Kinds :
            Ready(u, l)' /\ Names(v, m, asset[u][l].blob)' => u = v /\ l = m
    BY <2>3 DEF Names
  <2> QED
    BY <1>1, <1>9, <1>10, <2>1, <2>2, <2>4 DEF Apart
<1>14. OnDisk'
  <2>1. ReadyOnDisk'
    BY <1>1, <1>2, <1>3, <1>5 DEF OnDisk, ReadyOnDisk
  <2> QED
    BY <1>1, <1>2, <1>10, <2>1 DEF OnDisk
<1>15. OneJob'
  <2>1. \A i \in jobs' : Live(i)' => Live(i)
    BY <1>2 DEF Live
  <2>2. \A i \in jobs' : i.track \in Tracks /\ i.kind \in Kinds
    BY <1>1, <1>10 DEF MediaTypes, CacheJobs
  <2>3. \A i \in jobs' : Live(i)' => ~Ready(i.track, i.kind)'
    BY <1>1, <1>5, <1>10, <2>1, <2>2 DEF OneJob
  <2>4. \A i \in jobs' : i.kind = "audio" /\ Live(i)' =>
            session'[i.track] # None /\ session'[i.track].blob = i.blob
    BY <1>1, <1>10, <2>1 DEF OneJob
  <2>5. \A i \in jobs' : i.kind = "audio" /\ i.blob \in objects' => session'[i.track].ended
    <3>1. \A i \in jobs' : i.blob \in objects' => Live(i)
      BY <1>2 DEF Live
    <3> QED
      BY <1>1, <1>2, <1>10, <3>1 DEF OneJob
  <2> QED
    BY <1>1, <1>10, <2>3, <2>4, <2>5 DEF OneJob
<1>16. ObjectsOwned'
  <2> SUFFICES ASSUME NEW b \in objects' \ stranded'
               PROVE  \/ \E u \in Tracks, l \in Kinds : Ready(u, l)' /\ asset'[u][l].blob = b
                      \/ \E i \in jobs' : i.blob = b
                      \/ b \in sweep'.todo
    BY DEF ObjectsOwned
  <2>1. CASE b = j.blob
    BY <1>2, <1>3, <1>5, <2>1
  <2>2. CASE b # j.blob
    <3>1. b \in objects \ stranded
      BY <1>2
    <3>2. \A i \in jobs : i.blob = b => i \in jobs'
      BY <1>2, <2>2
    <3> QED
      BY <1>1, <1>5, <1>9, <3>1, <3>2 DEF ObjectsOwned
  <2> QED
    BY <2>1, <2>2
<1>17. Leases'
  <2> SUFFICES ASSUME NEW r \in Requests, request'[r].at = "opening" PROVE Lent(request[r])'
    BY DEF Leases
  <2>1. CASE request'[r] = request[r]
    <3>1. Lent(request[r]) /\ request[r].blob # j.blob
      BY <1>1, <2>1 DEF Leases, Lent
    <3> QED
      BY <1>2, <1>6, <1>9, <1>10, <2>1, <3>1 DEF Lent
  <2>2. CASE request'[r] # request[r]
    <3>1. asset'[t][k].state = "ready"
          /\ request'[r] = [at |-> "opening", track |-> t, blob |-> asset'[t][k].blob]
      BY <1>2, <2>2 DEF Woken, Idle
    <3>2. Ready(t, k)' /\ request'[r].track = t /\ request'[r].blob = j.blob
      BY <1>5, <3>1 DEF Ready
    <3> QED
      BY <1>2, <1>3, <1>6, <1>9, <1>10, <3>2 DEF Lent
  <2> QED
    BY <2>1, <2>2
<1>18. Books'
  <2> SUFFICES ASSUME NEW u \in Tracks \ excused'
               PROVE  (u = sweep'.track /\ Weight(u)' = 0) \/ Weight(u)' = Booked(u)'
    BY DEF Books
  <2>1. CASE u # t
    <3>1. \A l \in Kinds : Ready(u, l)' = Ready(u, l)
      BY <1>5, <2>1
    <3>2. Weight(u)' = Weight(u)
      BY <3>1, SameWeight
    <3> QED
      BY <1>1, <1>9, <2>1, <3>2 DEF Books
  <2>2. CASE u = t /\ w # 0
    BY <1>7, <1>9, <2>2
  <2>3. CASE u = t /\ w = 0
    <3>1. \A l \in Kinds : Ready(t, l)' = Ready(t, l)
      BY <1>5, <1>8, <2>3 DEF Ready
    <3>2. Weight(t)' = Weight(t)
      BY <3>1, SameWeight
    <3>3. Booked(t)' = Booked(t)
      BY <1>9, <2>3 DEF Booked
    <3> QED
      BY <1>1, <1>9, <2>3, <3>2, <3>3 DEF Books
  <2> QED
    BY <2>1, <2>2, <2>3
<1> QED
  BY <1>9, <1>11, <1>12, <1>13, <1>14, <1>15, <1>16, <1>17, <1>18 DEF MediaInv

LEMMA CleanUpInv == ASSUME MediaInv, NEW j \in jobs, CleanUp(j) PROVE MediaInv'
<1> DEFINE t == j.track
           k == j.kind
<1>1. /\ MediaTypes /\ Minted /\ Apart /\ OnDisk /\ OneJob /\ SweepSane
      /\ ObjectsOwned /\ Leases /\ Books
  BY DEF MediaInv
<1>2. /\ j.pc = "failing"
      /\ objects' = IF Ready(t, k) THEN objects ELSE objects \ {j.blob}
      /\ asset' = IF Ready(t, k) THEN asset
                  ELSE [asset EXCEPT ![t][k] = [state |-> "failed", blob |-> @.blob]]
      /\ jobs' = jobs \ {j} /\ session' = Settled(j)
      /\ UNCHANGED <<ledger, request, sweep, minted, stranded, excused>>
  BY DEF CleanUp
<1>3. j \in CacheJobs /\ t \in Tracks /\ k \in Kinds
  BY <1>1 DEF MediaTypes, CacheJobs
<1>4. /\ asset' \in [Tracks -> [Kinds -> AssetRows]]
      /\ \A u \in Tracks, l \in Kinds :
           Ready(u, l)' = Ready(u, l) /\ (Ready(u, l) => asset'[u][l] = asset[u][l])
  <2> DEFINE row == [state |-> "failed", blob |-> asset[t][k].blob]
  <2>1. asset \in [Tracks -> [Kinds -> AssetRows]]
    BY <1>1 DEF MediaTypes
  <2>2. row \in AssetRows /\ row.state # "ready"
    BY <1>3, <2>1 DEF AssetRows
  <2> HIDE DEF row
  <2>3. CASE Ready(t, k)
    BY <1>2, <2>1, <2>3 DEF Ready
  <2>4. CASE ~Ready(t, k)
    <3>1. asset' = [asset EXCEPT ![t] = [asset[t] EXCEPT ![k] = row]]
      BY <1>2, <2>4 DEF row
    <3>2. [asset[t] EXCEPT ![k] = row] \in [Kinds -> AssetRows]
      BY <1>3, <2>1, <2>2
    <3>3. \A u \in Tracks, l \in Kinds :
             asset'[u][l] = IF u = t /\ l = k THEN row ELSE asset[u][l]
      BY <1>3, <2>1, <3>1, <3>2
    <3> QED
      BY <1>3, <2>1, <2>2, <2>4, <3>1, <3>2, <3>3 DEF Ready
  <2> QED
    BY <2>3, <2>4
<1>5. \A u \in Tracks, l \in Kinds : \A b : Names(u, l, b)' = Names(u, l, b)
  BY <1>4 DEF Names, Ready
<1>6. objects' \subseteq objects /\ objects \ {j.blob} \subseteq objects'
  BY <1>2
\* Where the row is ready the job has no file.
<1>7. j.blob \notin objects'
  <2>1. Ready(t, k) => ~Live(j)
    BY <1>1 DEF OneJob
  <2> QED
    BY <1>2, <2>1 DEF Live
<1>8. /\ \A i \in jobs' : i \in jobs /\ i.blob # j.blob
      /\ session' \in [Tracks -> Sessions \cup {None}]
      /\ \A i \in jobs' : i.kind = "audio" /\ Live(i) => session'[i.track] = session[i.track]
  BY <1>2, Others
<1>9. \A i \in jobs' : Live(i)' <=> Live(i)
  BY <1>6, <1>8 DEF Live
<1>10. MediaTypes'
  <2>1. jobs' \subseteq CacheJobs /\ objects' \subseteq Nat
    BY <1>1, <1>2, <1>6 DEF MediaTypes
  <2> QED
    BY <1>1, <1>2, <1>4, <1>8, <2>1 DEF MediaTypes
<1>11. Minted'
  BY <1>1, <1>2, <1>4, <1>6, <1>8 DEF Minted
<1>12. Apart'
  <2>1. \A u, v \in Tracks, l, m \in Kinds :
            Ready(u, l)' /\ Names(v, m, asset[u][l].blob)' => u = v /\ l = m
    BY <1>1, <1>4, <1>5 DEF Apart
  <2> QED
    BY <1>1, <1>2, <1>5, <1>8, <2>1 DEF Apart
<1>13. OnDisk'
  <2>1. ReadyOnDisk'
    <3> SUFFICES ASSUME NEW u \in Tracks, NEW l \in Kinds, Ready(u, l)'
                 PROVE  asset'[u][l].blob \in objects'
      BY DEF ReadyOnDisk
    <3>1. Ready(u, l) /\ asset'[u][l].blob = asset[u][l].blob /\ Names(u, l, asset[u][l].blob)
      BY <1>4 DEF Names
    <3>2. asset[u][l].blob \in objects /\ asset[u][l].blob # j.blob
      BY <1>1, <3>1 DEF OnDisk, ReadyOnDisk, Apart
    <3> QED
      BY <1>6, <3>1, <3>2
  <2>2. \A i \in jobs' : i.pc = "committed" => i.blob \in objects'
    BY <1>1, <1>6, <1>8 DEF OnDisk
  <2> QED
    BY <2>1, <2>2 DEF OnDisk
<1>14. OneJob'
  <2>1. \A i \in jobs' : i.track \in Tracks /\ i.kind \in Kinds
    BY <1>1, <1>8 DEF MediaTypes, CacheJobs
  <2>2. \A i \in jobs' : Live(i)' => ~Ready(i.track, i.kind)'
    BY <1>1, <1>4, <1>8, <1>9, <2>1 DEF OneJob
  <2>3. \A i \in jobs' : i.kind = "audio" /\ Live(i)' =>
            session'[i.track] # None /\ session'[i.track].blob = i.blob
    BY <1>1, <1>8, <1>9 DEF OneJob
  <2>4. \A i \in jobs' : i.kind = "audio" /\ i.blob \in objects' => session'[i.track].ended
    <3>1. \A i \in jobs' : i.blob \in objects' => i.blob \in objects /\ Live(i)
      BY <1>6 DEF Live
    <3> QED
      BY <1>1, <1>8, <3>1 DEF OneJob
  <2> QED
    BY <1>1, <1>8, <2>2, <2>3, <2>4 DEF OneJob
<1>15. SweepSane'
  BY <1>1, <1>2 DEF SweepSane
<1>16. ObjectsOwned'
  <2> SUFFICES ASSUME NEW b \in objects' \ stranded'
               PROVE  \/ \E u \in Tracks, l \in Kinds : Ready(u, l)' /\ asset'[u][l].blob = b
                      \/ \E i \in jobs' : i.blob = b
                      \/ b \in sweep'.todo
    BY DEF ObjectsOwned
  <2>1. b \in objects \ stranded /\ b # j.blob
    BY <1>2, <1>6, <1>7
  <2>2. \A i \in jobs : i.blob = b => i \in jobs'
    BY <1>2, <2>1
  <2> QED
    BY <1>1, <1>2, <1>4, <2>1, <2>2 DEF ObjectsOwned
<1>17. Leases'
  <2> SUFFICES ASSUME NEW r \in Requests, request'[r].at = "opening" PROVE Lent(request[r])'
    BY <1>2 DEF Leases
  <2>1. Lent(request[r]) /\ request[r].blob # j.blob
    BY <1>1, <1>2 DEF Leases, Lent
  <2> QED
    BY <1>2, <1>5, <1>6, <1>8, <2>1 DEF Lent
<1>18. Books'
  <2>1. \A u \in Tracks : Weight(u)' = Weight(u) /\ Booked(u)' = Booked(u)
    BY <1>2, <1>4, SameWeight DEF Booked
  <2> QED
    BY <1>1, <1>2, <2>1 DEF Books
<1> QED
  BY <1>10, <1>11, <1>12, <1>13, <1>14, <1>15, <1>16, <1>17, <1>18 DEF MediaInv

-----------------------------------------------------------------------------
(* Eviction, and the stop of the server.                                   *)

\* A candidate that is kept, or that has nothing to reclaim, leaves the list.
LEMMA PassInv ==
    ASSUME MediaInv, NEW t \in Tracks, sweep' = [sweep EXCEPT !.list = @ \ {t}],
           UNCHANGED <<ledger, objects, jobs, session, request, minted, stranded, excused, asset>>
    PROVE  MediaInv'
<1>1. sweep \in Sweeps
  BY DEF MediaInv, MediaTypes
<1>2. /\ sweep' \in Sweeps /\ sweep'.todo = sweep.todo /\ sweep'.track = sweep.track
      /\ sweep'.on = sweep.on /\ sweep'.list = sweep.list \ {t}
  BY <1>1 DEF Sweeps
<1> QED
  BY <1>2, RestInv DEF MediaInv, MediaTypes, SweepSane, Booked

LEMMA EvictInv == ASSUME MediaInv, NEW t \in Tracks, Evict(t) PROVE MediaInv'
<1> DEFINE T == {asset[t][k].blob : k \in {k \in Kinds : Ready(t, k)}}
           kept == Leased(t) \/ t \in listed
<1>1. /\ MediaTypes /\ Minted /\ Apart /\ OnDisk /\ OneJob /\ SweepSane
      /\ ObjectsOwned /\ Leases /\ Books
  BY DEF MediaInv
<1>2. /\ sweep.on /\ sweep.track = None /\ t \in sweep.list
      /\ asset' = IF kept THEN asset ELSE [asset EXCEPT ![t] = [k \in Kinds |-> NoRow]]
      /\ sweep' = IF kept \/ T = {} THEN [sweep EXCEPT !.list = @ \ {t}]
                  ELSE [sweep EXCEPT !.list = @ \ {t}, !.track = t,
                            !.weight = ledger[t].weight, !.todo = T, !.stirred = FALSE]
      /\ UNCHANGED <<ledger, objects, jobs, session, request, minted, stranded, excused>>
  BY DEF Evict
<1>3. \A b \in T : \E k \in Kinds : Names(t, k, b)
  BY DEF Names
<1>4. \A k \in Kinds : Ready(t, k) => asset[t][k].blob \in T
  OBVIOUS
<1> HIDE DEF T
<1>5. CASE kept
  <2>1. asset' = asset /\ sweep' = [sweep EXCEPT !.list = @ \ {t}]
    BY <1>2, <1>5
  <2> QED
    BY <1>2, <2>1, PassInv
<1>6. CASE ~kept
  <2>1. /\ asset' \in [Tracks -> [Kinds -> AssetRows]]
        /\ \A u \in Tracks, k \in Kinds : asset'[u][k] = IF u = t THEN NoRow ELSE asset[u][k]
    BY <1>1, <1>2, <1>6 DEF MediaTypes, AssetRows, NoRow
  <2>2. \A u \in Tracks, k \in Kinds : /\ u # t => Ready(u, k)' = Ready(u, k)
                                       /\ u # t => asset'[u][k] = asset[u][k]
                                       /\ ~Ready(t, k)'
    BY <2>1 DEF Ready, NoRow
  <2>3. \A u \in Tracks, k \in Kinds : \A b : Names(u, k, b)' => Names(u, k, b) /\ u # t
    BY <2>2 DEF Names
  <2>4. \A b \in T : b \in Nat /\ b <= minted
    BY <1>1, <1>3 DEF Minted, Names, MediaTypes
  <2>5. /\ sweep \in Sweeps /\ ledger[t] # None /\ ledger[t] \in LedgerRows
        /\ sweep.list \subseteq Tracks /\ sweep.todo = {} /\ t # None
    BY <1>1, <1>2, MediaAssumption DEF MediaTypes, SweepSane, Sweeps
  <2>6. /\ sweep' \in Sweeps /\ sweep'.todo = T /\ sweep'.on
        /\ sweep'.track = (IF T = {} THEN None ELSE t)
        /\ sweep'.list = sweep.list \ {t}
    <3>1. ledger[t].weight \in Nat
      BY <2>5 DEF LedgerRows
    <3>2. CASE T = {}
      <4>1. sweep' = [sweep EXCEPT !.list = @ \ {t}]
        BY <1>2, <3>2
      <4> QED
        BY <1>2, <2>5, <3>2, <4>1 DEF Sweeps
    <3>3. CASE T # {}
      <4>1. sweep' = [sweep EXCEPT !.list = @ \ {t}, !.track = t,
                          !.weight = ledger[t].weight, !.todo = T, !.stirred = FALSE]
        BY <1>2, <1>6, <3>3
      <4>2. T \in SUBSET Nat
        BY <2>4
      <4> QED
        BY <1>2, <2>5, <3>1, <3>3, <4>1, <4>2 DEF Sweeps
    <3> QED
      BY <3>2, <3>3
  <2>7. MediaTypes'
    BY <1>1, <1>2, <2>1, <2>6 DEF MediaTypes
  <2>8. Minted'
    BY <1>1, <1>2, <2>2, <2>4, <2>6 DEF Minted
  <2>9. Apart'
    <3>1. \A j \in jobs : j.blob \notin T
      BY <1>1, <1>3 DEF Apart
    <3>2. \A b \in T, u \in Tracks, k \in Kinds : ~Names(u, k, b)'
      BY <1>1, <1>3, <2>3 DEF Apart, Names
    <3>3. \A u, v \in Tracks, k, l \in Kinds :
              Ready(u, k)' /\ Names(v, l, asset[u][k].blob)' => u = v /\ k = l
      BY <1>1, <2>2, <2>3 DEF Apart
    <3>4. \A j \in jobs, u \in Tracks, k \in Kinds : ~Names(u, k, j.blob)'
      BY <1>1, <2>3 DEF Apart
    <3> QED
      BY <1>1, <1>2, <2>6, <3>1, <3>2, <3>3, <3>4 DEF Apart
  <2>10. OnDisk'
    <3>1. ReadyOnDisk'
      BY <1>1, <1>2, <2>2 DEF OnDisk, ReadyOnDisk
    <3> QED
      BY <1>1, <1>2, <3>1 DEF OnDisk
  <2>11. OneJob'
    <3>1. \A j \in jobs : j.track \in Tracks /\ j.kind \in Kinds
      BY <1>1 DEF MediaTypes, CacheJobs
    <3>2. \A j \in jobs : Live(j) => ~Ready(j.track, j.kind)'
      BY <1>1, <2>2, <3>1 DEF OneJob
    <3> QED
      BY <1>1, <1>2, <3>2 DEF OneJob, Live
  <2>12. SweepSane'
    BY <1>1, <1>2, <2>5, <2>6, MediaAssumption DEF SweepSane
  <2>13. ObjectsOwned'
    <3> SUFFICES ASSUME NEW b \in objects \ stranded
                 PROVE  \/ \E u \in Tracks, k \in Kinds : Ready(u, k)' /\ asset'[u][k].blob = b
                        \/ \E j \in jobs : j.blob = b
                        \/ b \in T
      BY <1>2, <2>6 DEF ObjectsOwned
    <3>1. CASE \E u \in Tracks, k \in Kinds : Ready(u, k) /\ asset[u][k].blob = b
      BY <1>4, <2>2, <3>1
    <3>2. CASE \E j \in jobs : j.blob = b
      BY <3>2
    <3> QED
      BY <1>1, <2>5, <3>1, <3>2 DEF ObjectsOwned
  <2>14. Leases'
    <3> SUFFICES ASSUME NEW r \in Requests, request[r].at = "opening" PROVE Lent(request[r])'
      BY <1>2 DEF Leases
    <3>1. Lent(request[r]) /\ request[r].track # t
      BY <1>1, <1>6 DEF Leases, Leased, Idle
    <3>2. request[r].blob \notin T
      BY <1>3, <3>1 DEF Lent
    <3> QED
      BY <1>2, <2>3, <2>6, <3>1, <3>2 DEF Lent
  <2>15. Books'
    <3> SUFFICES ASSUME NEW u \in Tracks \ excused
                 PROVE  (u = sweep'.track /\ Weight(u)' = 0) \/ Weight(u)' = Booked(u)
      BY <1>2 DEF Books, Booked
    <3>1. Weight(u) = Booked(u)
      BY <1>1, <1>2, MediaAssumption DEF Books
    <3>2. CASE u # t
      BY <2>2, <3>1, <3>2, SameWeight
    <3>3. CASE u = t /\ T = {}
      <4>1. \A k \in Kinds : Ready(u, k)' = Ready(u, k)
        BY <1>4, <2>2, <3>3 DEF Ready
      <4> QED
        BY <3>1, <4>1, SameWeight
    <3>4. CASE u = t /\ T # {}
      <4>1. {k \in Kinds : Ready(u, k)'} = {}
        BY <2>2, <3>4
      <4>2. Weight(u)' = 0
        BY <4>1, FS_EmptySet DEF Weight
      <4> QED
        BY <2>6, <3>4, <4>2
    <3> QED
      BY <3>2, <3>3, <3>4
  <2> QED
    BY <2>7, <2>8, <2>9, <2>10, <2>11, <2>12, <2>13, <2>14, <2>15 DEF MediaInv
<1> QED
  BY <1>5, <1>6

LEMMA DropInv == ASSUME MediaInv, NEW b \in Blobs, Drop(b) PROVE MediaInv'
<1>1. /\ MediaTypes /\ Minted /\ Apart /\ OnDisk /\ OneJob /\ SweepSane
      /\ ObjectsOwned /\ Leases /\ Books
  BY DEF MediaInv
<1>2. /\ b \in sweep.todo /\ objects' = objects \ {b}
      /\ sweep' = [sweep EXCEPT !.todo = @ \ {b}]
      /\ UNCHANGED <<asset, ledger, jobs, session, request, minted, stranded, excused>>
  BY DEF Drop
<1>3. /\ sweep' \in Sweeps /\ sweep'.todo = sweep.todo \ {b} /\ sweep'.track = sweep.track
      /\ sweep'.on = sweep.on /\ sweep'.list = sweep.list
  BY <1>1, <1>2 DEF MediaTypes, Sweeps
<1>4. \A t \in Tracks, k \in Kinds :
        Ready(t, k)' = Ready(t, k) /\ \A c : Names(t, k, c)' = Names(t, k, c)
  BY <1>2 DEF Ready, Names
<1>5. \A j \in jobs : j.blob # b
  BY <1>1, <1>2 DEF Apart
<1>6. \A t \in Tracks, k \in Kinds : ~Names(t, k, b)
  BY <1>1, <1>2 DEF Apart
<1>7. MediaTypes'
  BY <1>1, <1>2, <1>3 DEF MediaTypes
<1>8. Minted'
  BY <1>1, <1>2, <1>3, <1>4 DEF Minted
<1>9. Apart'
  BY <1>1, <1>2, <1>3, <1>4 DEF Apart
<1>10. OnDisk'
  <2>1. ReadyOnDisk'
    BY <1>1, <1>2, <1>4, <1>6 DEF OnDisk, ReadyOnDisk, Names
  <2> QED
    BY <1>1, <1>2, <1>5, <2>1 DEF OnDisk
<1>11. OneJob'
  <2>1. \A j \in jobs : Live(j)' <=> Live(j)
    BY <1>2, <1>5 DEF Live
  <2> QED
    BY <1>1, <1>2, <1>5, <2>1 DEF OneJob, Ready
<1>12. SweepSane'
  BY <1>1, <1>2, <1>3 DEF SweepSane
<1>13. ObjectsOwned'
  BY <1>1, <1>2, <1>3, <1>4 DEF ObjectsOwned
<1>14. Leases'
  <2> SUFFICES ASSUME NEW r \in Requests, request[r].at = "opening" PROVE Lent(request[r])'
    BY <1>2 DEF Leases
  <2>1. Lent(request[r])
    BY <1>1 DEF Leases
  <2> QED
    BY <1>2, <1>3, <1>4, <2>1 DEF Lent
<1>15. Books'
  <2>1. \A t \in Tracks : Weight(t)' = Weight(t) /\ Booked(t)' = Booked(t)
    BY <1>2, <1>4, SameWeight DEF Booked
  <2> QED
    BY <1>1, <1>2, <1>3, <2>1 DEF Books
<1> QED
  BY <1>7, <1>8, <1>9, <1>10, <1>11, <1>12, <1>13, <1>14, <1>15 DEF MediaInv

LEMMA Unequal ==
    ASSUME NEW p \in BOOLEAN, NEW q \in BOOLEAN, p # q PROVE (p /\ ~q) \/ (~p /\ q)
<1>1. p = TRUE \/ p = FALSE
  OBVIOUS
<1>2. q = TRUE \/ q = FALSE
  OBVIOUS
<1> QED
  BY <1>1, <1>2

LEMMA ReleaseInv == ASSUME MediaInv, Release PROVE MediaInv'
<1> DEFINE t == sweep.track
           same == ledger[t] # None /\ ledger[t].weight = sweep.weight /\ ~sweep.stirred
<1>1. /\ MediaTypes /\ Minted /\ Apart /\ OnDisk /\ OneJob /\ SweepSane
      /\ ObjectsOwned /\ Leases /\ Books
  BY DEF MediaInv
<1>2. /\ t # None /\ sweep.todo = {}
      /\ ledger' = IF same THEN [ledger EXCEPT ![t] = None] ELSE ledger
      /\ sweep' = [sweep EXCEPT !.track = None, !.weight = 0, !.stirred = FALSE]
      /\ excused' = IF same = (Weight(t) > 0) THEN excused \cup {t} ELSE excused
      /\ UNCHANGED <<asset, objects, jobs, session, request, minted, stranded>>
  BY DEF Release
<1>3. /\ sweep \in Sweeps /\ t \in Tracks /\ same \in BOOLEAN /\ sweep.list \subseteq Tracks
      /\ Weight(t) \in Nat
  BY <1>1, <1>2, WeightCounts DEF MediaTypes, Sweeps
<1> HIDE DEF same
<1>4. /\ sweep' \in Sweeps /\ sweep'.todo = {} /\ sweep'.track = None
      /\ sweep'.on = sweep.on /\ sweep'.list = sweep.list
  BY <1>2, <1>3 DEF Sweeps
<1>5. /\ ledger' \in [Tracks -> LedgerRows \cup {None}]
      /\ \A u \in Tracks : ledger'[u] = IF u = t /\ same THEN None ELSE ledger[u]
  BY <1>1, <1>2, <1>3 DEF MediaTypes
<1>6. \A u \in Tracks, k \in Kinds :
        Ready(u, k)' = Ready(u, k) /\ \A c : Names(u, k, c)' = Names(u, k, c)
  BY <1>2 DEF Ready, Names
<1>7. MediaTypes'
  BY <1>1, <1>2, <1>4, <1>5 DEF MediaTypes
<1>8. Minted' /\ Apart' /\ OneJob'
  BY <1>1, <1>2, <1>4, <1>6 DEF Minted, Apart, OneJob, Live, Ready
<1>9. OnDisk'
  BY <1>1, <1>2, <1>6 DEF OnDisk, ReadyOnDisk
<1>10. SweepSane'
  <2>1. \A u \in sweep.list : u # t /\ u # None /\ ledger'[u] # None
    BY <1>1, <1>3, <1>5, MediaAssumption DEF SweepSane
  <2> QED
    BY <1>4, <2>1 DEF SweepSane
<1>11. ObjectsOwned'
  BY <1>1, <1>2, <1>4, <1>6 DEF ObjectsOwned
<1>12. Leases'
  <2> SUFFICES ASSUME NEW r \in Requests, request[r].at = "opening" PROVE Lent(request[r])'
    BY <1>2 DEF Leases
  <2>1. Lent(request[r])
    BY <1>1 DEF Leases
  <2> QED
    BY <1>2, <1>4, <1>6, <2>1 DEF Lent
<1>13. Books'
  <2> SUFFICES ASSUME NEW u \in Tracks \ excused' PROVE Weight(u)' = Booked(u)'
    BY DEF Books
  <2>1. Weight(u)' = Weight(u) /\ u \notin excused
    BY <1>2, <1>6, SameWeight
  <2>2. CASE u # t
    <3>1. Booked(u)' = Booked(u)
      BY <1>5, <2>2 DEF Booked
    <3> QED
      BY <1>1, <2>1, <2>2, <3>1 DEF Books
  <2>3. CASE u = t
    <3>1. (same /\ ~(Weight(t) > 0)) \/ (~same /\ Weight(t) > 0)
      <4>1. same # (Weight(t) > 0)
        BY <1>2, <2>3
      <4>2. same \in BOOLEAN /\ (Weight(t) > 0) \in BOOLEAN
        BY <1>3
      <4> QED
        BY <4>1, <4>2, Unequal
    <3>2. CASE same
      <4>1. Weight(u) = 0
        BY <1>3, <2>3, <3>1, <3>2
      <4>2. ledger'[u] = None
        BY <1>5, <2>3, <3>2
      <4> QED
        BY <2>1, <4>1, <4>2 DEF Booked
    <3>3. CASE ~same
      <4>1. Weight(t) > 0
        BY <3>1, <3>3
      <4>2. Weight(t) = Booked(t)
        BY <1>1, <1>3, <2>1, <2>3, <4>1 DEF Books
      <4>3. ledger' = ledger
        BY <1>2, <3>3
      <4> QED
        BY <2>1, <2>3, <4>2, <4>3 DEF Booked
    <3> QED
      BY <3>2, <3>3
  <2> QED
    BY <2>2, <2>3
<1> QED
  BY <1>7, <1>8, <1>9, <1>10, <1>11, <1>12, <1>13 DEF MediaInv

LEMMA RestartInv == ASSUME MediaInv, Restart PROVE MediaInv'
<1>1. /\ MediaTypes /\ Minted /\ Apart /\ OnDisk /\ OneJob /\ SweepSane
      /\ ObjectsOwned /\ Leases /\ Books
  BY DEF MediaInv
<1>2. /\ stranded' = stranded \cup sweep.todo \cup
             {j.blob : j \in {i \in jobs : i.blob \in objects}}
      /\ excused' = {t \in excused \cup {sweep.track} : t # None /\ Weight(t) = 0}
      /\ ledger' = [t \in Tracks |-> Reconciled(t)]
      /\ jobs' = {} /\ session' = [t \in Tracks |-> None]
      /\ request' = [r \in Requests |-> Idle] /\ sweep' = Calm
      /\ UNCHANGED <<asset, objects, minted>>
  BY DEF Restart
<1>3. \A t \in Tracks, k \in Kinds :
        Ready(t, k)' = Ready(t, k) /\ \A c : Names(t, k, c)' = Names(t, k, c)
  BY <1>2 DEF Ready, Names
<1>4. /\ sweep' \in Sweeps /\ sweep'.todo = {} /\ sweep'.track = None /\ sweep'.list = {}
  BY <1>2 DEF Calm, Sweeps
<1>5. ASSUME NEW t \in Tracks
      PROVE  /\ Weight(t) \in Nat /\ Reconciled(t) \in LedgerRows \cup {None}
             /\ Weight(t) # 0 => Reconciled(t).weight = Weight(t) /\ Reconciled(t) # None
             /\ Weight(t) = 0 => Reconciled(t) = ledger[t]
  <2>1. Weight(t) \in Nat
    BY WeightCounts
  <2>2. ledger[t] \in LedgerRows \cup {None}
    BY <1>1 DEF MediaTypes
  <2> DEFINE p == ledger[t] # None /\ ledger[t].pinned
  <2>3. p \in BOOLEAN
    BY <2>2 DEF LedgerRows
  <2>4. Reconciled(t) = IF Weight(t) = 0 THEN ledger[t] ELSE [weight |-> Weight(t), pinned |-> p]
    BY DEF Reconciled
  <2> HIDE DEF p
  <2>5. [weight |-> Weight(t), pinned |-> p] \in LedgerRows
    BY <2>1, <2>3 DEF LedgerRows
  <2>6. [weight |-> Weight(t), pinned |-> p] # None
    BY <2>5, MediaAssumption DEF LedgerRows
  <2> QED
    BY <2>1, <2>2, <2>4, <2>5, <2>6
<1>6. MediaTypes'
  BY <1>1, <1>2, <1>4, <1>5 DEF MediaTypes
<1>7. Minted' /\ Apart'
  BY <1>1, <1>2, <1>3, <1>4 DEF Minted, Apart
<1>8. OnDisk'
  BY <1>1, <1>2, <1>3 DEF OnDisk, ReadyOnDisk
<1>9. OneJob' /\ SweepSane'
  BY <1>2, <1>4 DEF OneJob, SweepSane
<1>10. ObjectsOwned'
  BY <1>1, <1>2, <1>3 DEF ObjectsOwned
<1>11. Leases'
  BY <1>2 DEF Leases, Idle
<1>12. Books'
  <2> SUFFICES ASSUME NEW t \in Tracks \ excused' PROVE Weight(t)' = Booked(t)'
    BY DEF Books
  <2>1. Weight(t)' = Weight(t)
    BY <1>3, SameWeight
  <2>2. ledger'[t] = Reconciled(t)
    BY <1>2
  <2>3. CASE Weight(t) # 0
    BY <1>5, <2>1, <2>2, <2>3 DEF Booked
  <2>4. CASE Weight(t) = 0
    <3>1. t # None /\ t \notin excused /\ t # sweep.track
      BY <1>2, <2>4, MediaAssumption
    <3> QED
      BY <1>1, <1>5, <2>1, <2>2, <2>4, <3>1 DEF Books, Booked
  <2> QED
    BY <2>3, <2>4
<1> QED
  BY <1>6, <1>7, <1>8, <1>9, <1>10, <1>11, <1>12 DEF MediaInv

-----------------------------------------------------------------------------
LEMMA InitInv == ASSUME Init PROVE MediaInv
<1>1. \A t \in Tracks, k \in Kinds : asset[t][k] = NoRow /\ ~Ready(t, k)
  BY DEF Init, NoRow, Ready
<1>2. sweep \in Sweeps /\ ~sweep.on /\ sweep.list = {} /\ sweep.track = None /\ sweep.todo = {}
  BY DEF Init, Calm, Sweeps
<1>3. NoRow \in AssetRows
  BY DEF NoRow, AssetRows
<1>4. MediaTypes
  BY <1>2, <1>3 DEF MediaTypes, Init
<1>5. \A t \in Tracks : Weight(t) = 0 /\ Booked(t) = 0
  BY <1>1, WeightCounts DEF Init, Booked
<1> QED
  BY <1>1, <1>2, <1>4, <1>5
  DEF MediaInv, Init, Minted, Apart, OnDisk, ReadyOnDisk, OneJob, SweepSane, ObjectsOwned, Leases,
      Books, Names, Idle

LEMMA StutterInv == ASSUME MediaInv, UNCHANGED vars PROVE MediaInv'
  BY RestInv DEF vars, MediaInv, MediaTypes, SweepSane, Booked

LEMMA TrackInv ==
    ASSUME MediaInv, NEW t \in Tracks,
           \/ Play(t) \/ Prepare(t) \/ Chunk(t) \/ SourceEnds(t) \/ SourceFails(t)
           \/ AddToList(t) \/ RemoveFromList(t) \/ PinExpires(t) \/ Evict(t)
    PROVE  MediaInv'
  BY PlayInv, PrepareInv, ChunkInv, SourceEndsInv, SourceFailsInv, ListInv, PinExpiresInv, EvictInv

LEMMA RequestInv ==
    ASSUME MediaInv, NEW r \in Requests,
           \/ Open(r) \/ EndRequest(r) \/ EndRelay(r)
           \/ \E t \in Tracks : \/ GetSeek(r, t) \/ GetCover(r, t) \/ GetRelay(r, t)
                                \/ \E k \in Kinds : GetReady(r, t, k)
    PROVE  MediaInv'
  BY OpenInv, EndRequestInv, EndRelayInv, GetSeekInv, GetCoverInv, GetRelayInv, GetReadyInv

LEMMA StepInv == ASSUME MediaInv, [Next]_vars PROVE MediaInv'
<1>1. ASSUME NEW j \in jobs, JobFails(j) \/ Commit(j) \/ Publish(j) \/ CleanUp(j) PROVE MediaInv'
  BY <1>1, JobFailsInv, CommitInv, PublishInv, CleanUpInv
<1>2. ASSUME ListCandidates \/ SweepEnds \/ Release \/ Restart PROVE MediaInv'
  BY <1>2, ListCandidatesInv, SweepEndsInv, ReleaseInv, RestartInv
<1>3. ASSUME NEW b \in Blobs, Drop(b) \/ Collect(b) PROVE MediaInv'
  BY <1>3, DropInv, CollectInv
<1> QED
  BY <1>1, <1>2, <1>3, TrackInv, RequestInv, StutterInv DEF Next

LEMMA Invariance == Spec => []MediaInv
<1>1. Init => MediaInv
  BY InitInv
<1>2. MediaInv /\ [Next]_vars => MediaInv'
  BY StepInv
<1> QED
  BY <1>1, <1>2, PTL DEF Spec

\* A row that says ready always has its file: no commit, eviction, failed
\* attempt or restart removes a blob that a ready row names (data/media.ts,
\* business/media.ts, infra/storage.ts).
THEOREM ReadyAlwaysOnDisk == Spec => []ReadyOnDisk
  BY Invariance, PTL DEF MediaInv, OnDisk

\* A request that has chosen a stored blob finds its file, however many
\* requests and evictions are under way (data/mediaAudio.ts: the lease is
\* taken before the row is read).
THEOREM LeasesAlwaysHold == Spec => []LeaseHolds
<1>1. MediaInv => LeaseHolds
  BY DEF MediaInv, Leases, Lent, LeaseHolds
<1> QED
  BY <1>1, Invariance, PTL

\* Outside the two leaks the history names, every file of objects/ belongs to
\* a ready row, a job or the sweep: nothing walks objects/ to find others.
THEOREM ObjectsAlwaysOwned == Spec => []ObjectsOwned
  BY Invariance, PTL DEF MediaInv

\* The quota ledger weighs what the tracks really store, through publication,
\* eviction, compare-and-delete release and restart.
THEOREM LedgerAlwaysHonest == Spec => []LedgerHonest
<1>1. MediaInv => LedgerHonest
  BY DEF MediaInv, Books, Booked, LedgerHonest
<1> QED
  BY <1>1, Invariance, PTL

-----------------------------------------------------------------------------
(***************************************************************************)
(* The post replica.                                                       *)
(***************************************************************************)

Pages == UNION {[S -> Rows] : S \in SUBSET Posts}

CoverRecords == [oldest : 0..MaxPosts, newest : 0..MaxPosts, reachedOldest : BOOLEAN,
                 reachedNewest : BOOLEAN, known : Nat, sum : Int]

JobRecords == [step : Steps, way : {"latest", "before", "after"}, anchor : 0..MaxPosts,
               from : Nat, through : Nat, sum : Int, page : Pages, got : Pages,
               newest : 0..MaxPosts, atEnd : BOOLEAN]

ServerTypes ==
    /\ head \in 0..MaxPosts /\ clock \in Revisions /\ rev \in [Posts -> Revisions]
    /\ \A s \in Posts : rev[s] <= clock /\ (s <= head <=> rev[s] > 0)

DiskTypes == rows \in [Posts -> Rows] /\ cover \in CoverRecords

LinkTypes ==
    /\ connected \in BOOLEAN /\ phase \in {"live", "repairing", "replaying"}
    /\ wire \subseteq [seq : Posts, row : Rows, created : BOOLEAN]

JobTypes == job \in [Jobs -> JobRecords]

\* What is stored, asked for or on the way is a version the post has had.
Genuine(r) == \A s \in DOMAIN r : r[s].rev \in 1..rev[s]

AllGenuine ==
    /\ \A s \in Posts : rows[s].rev <= rev[s]
    /\ \A e \in wire : e.row.rev > 0 /\ e.row.rev <= rev[e.seq]
    /\ \A e \in wire : e.created =>
          \A s \in Posts : s > e.seq /\ s <= head => rev[s] > e.row.rev
    /\ \A j \in Jobs : Genuine(job[j].got) /\ Genuine(job[j].page)

\* WindowClosed, of any rows and coverage.
Closed(r, c) ==
    IF c = NoCover THEN StoredIn(r) = {}
    ELSE {c.oldest, c.newest} \subseteq StoredIn(r) /\ StoredIn(r) \subseteq c.oldest..c.newest

ReplicaInv == /\ ServerTypes /\ DiskTypes /\ LinkTypes /\ JobTypes
              /\ AllGenuine /\ WindowClosed

-----------------------------------------------------------------------------
(***************************************************************************)
(* Smallest and largest elements.                                          *)
(***************************************************************************)
LEMMA LeastSubset ==
    ASSUME NEW S, IsFiniteSet(S), NEW B, B \subseteq SUBSET S, B # {}
    PROVE  \E T \in B : \A U \in B : U \subseteq T => U = T
<1>1. IsWellFoundedOn(StrictSubsetOrdering(S), FiniteSubsetsOf(S))
  BY FS_StrictSubsetOrderingWellFounded
<1>2. B \subseteq FiniteSubsetsOf(S)
  BY FS_Subset DEF FiniteSubsetsOf
<1>3. \E T \in B : \A U \in B : ~ (<<U, T>> \in StrictSubsetOrdering(S))
  BY <1>1, <1>2, WFMin
<1> PICK T \in B : \A U \in B : ~ (<<U, T>> \in StrictSubsetOrdering(S))
  BY <1>3
<1> QED
  BY DEF StrictSubsetOrdering

LEMMA Greatest ==
    ASSUME NEW S, IsFiniteSet(S), S \subseteq Int, S # {}
    PROVE  Max(S) \in S /\ \A y \in S : y <= Max(S)
<1> DEFINE B == {T \in SUBSET S : T # {} /\ \A x \in T, y \in S : x <= y => y \in T}
<1>1. S \in B
  OBVIOUS
<1>2. PICK T \in B : \A U \in B : U \subseteq T => U = T
  <2>1. B \subseteq SUBSET S
    OBVIOUS
  <2>2. B # {}
    BY <1>1
  <2>3. IsFiniteSet(S)
    OBVIOUS
  <2> HIDE DEF B
  <2> QED BY ONLY <2>1, <2>2, <2>3, LeastSubset
<1>3. PICK x \in T : TRUE
  BY <1>2
<1>4. \A y \in S : y <= x
  <2> SUFFICES ASSUME NEW y \in S, y > x PROVE FALSE
    BY <1>2, <1>3
  <2> DEFINE U == {z \in S : z >= y}
  <2>1. x \in S /\ x \in Int /\ y \in Int
    BY <1>2, <1>3
  <2>2. \A a \in T, z \in S : a <= z => z \in T
    BY <1>2
  <2>3. U \subseteq T
    <3> SUFFICES ASSUME NEW z \in U PROVE z \in T
      OBVIOUS
    <3>1. z \in S /\ z \in Int
      OBVIOUS
    <3> QED BY <1>3, <2>1, <2>2, <3>1
  <2>4. U # {} /\ x \notin U
    BY <2>1
  <2>5. \A a \in U, z \in S : a <= z => z \in U
    BY <2>1
  <2>6. U \in B
    BY <2>4, <2>5
  <2> QED BY <1>2, <1>3, <2>3, <2>4, <2>6
<1>5. \E z \in S : \A y \in S : z >= y
  BY <1>2, <1>3, <1>4
<1> QED
  BY <1>5 DEF Max

LEMMA Smallest ==
    ASSUME NEW S, IsFiniteSet(S), S \subseteq Int, S # {}
    PROVE  Min(S) \in S /\ \A y \in S : Min(S) <= y
<1> DEFINE B == {T \in SUBSET S : T # {} /\ \A x \in T, y \in S : y <= x => y \in T}
<1>1. S \in B
  OBVIOUS
<1>2. PICK T \in B : \A U \in B : U \subseteq T => U = T
  <2>1. B \subseteq SUBSET S
    OBVIOUS
  <2>2. B # {}
    BY <1>1
  <2>3. IsFiniteSet(S)
    OBVIOUS
  <2> HIDE DEF B
  <2> QED BY ONLY <2>1, <2>2, <2>3, LeastSubset
<1>3. PICK x \in T : TRUE
  BY <1>2
<1>4. \A y \in S : x <= y
  <2> SUFFICES ASSUME NEW y \in S, y < x PROVE FALSE
    BY <1>2, <1>3
  <2> DEFINE U == {z \in S : z <= y}
  <2>1. x \in S /\ x \in Int /\ y \in Int
    BY <1>2, <1>3
  <2>2. \A a \in T, z \in S : z <= a => z \in T
    BY <1>2
  <2>3. U \subseteq T
    <3> SUFFICES ASSUME NEW z \in U PROVE z \in T
      OBVIOUS
    <3>1. z \in S /\ z \in Int
      OBVIOUS
    <3> QED BY <1>3, <2>1, <2>2, <3>1
  <2>4. U # {} /\ x \notin U
    BY <2>1
  <2>5. \A a \in U, z \in S : z <= a => z \in U
    BY <2>1
  <2>6. U \in B
    BY <2>4, <2>5
  <2> QED BY <1>2, <1>3, <2>3, <2>4, <2>6
<1>5. \E z \in S : \A y \in S : z <= y
  BY <1>2, <1>3, <1>4
<1> QED
  BY <1>5 DEF Min

LEMMA PostsFinite == IsFiniteSet(Posts) /\ Posts \subseteq Nat \ {0}
<1>1. MaxPosts \in Nat
  BY ReplicaAssumption DEF ReplicaAssumption
<1> QED
  BY <1>1, FS_Interval DEF Posts

LEMMA PostSetEnds ==
    ASSUME NEW S, S \subseteq Posts, S # {}
    PROVE  /\ Max(S) \in S /\ \A y \in S : y <= Max(S)
           /\ Min(S) \in S /\ \A y \in S : Min(S) <= y
           /\ IsFiniteSet(S)
<1>1. IsFiniteSet(S)
  BY PostsFinite, FS_Subset
<1>2. S \subseteq Int
  BY PostsFinite
<1> QED
  BY <1>1, <1>2, Greatest, Smallest

LEMMA PageType ==
    ASSUME NEW r \in Pages
    PROVE  DOMAIN r \subseteq Posts /\ \A s \in DOMAIN r : r[s] \in Rows
  BY DEF Pages

LEMMA PageIs ==
    ASSUME NEW S, S \subseteq Posts, NEW f, f \in [S -> Rows]
    PROVE  f \in Pages
  BY DEF Pages

LEMMA RowType ==
    ASSUME NEW x \in Rows
    PROVE  x.rev \in Nat /\ x.rev \in Revisions /\ x = [rev |-> x.rev, quote |-> x.quote, cut |-> x.cut]
<1>1. MaxRevision \in Nat
  BY ReplicaAssumption DEF ReplicaAssumption
<1> QED
  BY <1>1 DEF Rows, Revisions

-----------------------------------------------------------------------------
(***************************************************************************)
(* Sums of revisions.  The recursion of MapThenSumSet is unfolded by       *)
(* looking at a smallest set for which a statement about it fails.         *)
(***************************************************************************)
Total(f, S) == MapThenSumSet(LAMBDA x : f[x], S)

Some(T) == CHOOSE x \in T : TRUE

\* g adds up f on the subsets of S, as iter of MapThenFoldSet does.
Adds(g, f, S) ==
    g = [T \in SUBSET S |-> IF T = {} THEN 0 ELSE f[Some(T)] + g[T \ {Some(T)}]]

LEMMA SumIsChosen ==
    ASSUME NEW f, NEW S
    PROVE  Total(f, S) = (CHOOSE g : Adds(g, f, S))[S]
  BY DEF Total, MapThenSumSet, MapThenFoldSet, Adds, Some

LEMMA AddsOnce ==
    ASSUME NEW f, NEW S, NEW R, IsFiniteSet(R), R \subseteq S, NEW g, NEW h,
           Adds(g, f, S), Adds(h, f, R)
    PROVE  g[R] = h[R]
<1> DEFINE Bad == {T \in SUBSET R : g[T] # h[T]}
<1>1. SUFFICES ASSUME Bad # {} PROVE FALSE
  OBVIOUS
<1>2. PICK T \in Bad : \A U \in Bad : U \subseteq T => U = T
  <2> Bad \subseteq SUBSET R
    OBVIOUS
  <2> HIDE DEF Bad
  <2> QED BY <1>1, LeastSubset
<1>3. T # {}
  BY <1>2 DEF Adds
<1>4. Some(T) \in T
  BY <1>3 DEF Some
<1>5. g[T \ {Some(T)}] = h[T \ {Some(T)}]
  BY <1>2, <1>4
<1> QED
  BY <1>2, <1>3, <1>5 DEF Adds

LEMMA AddsExists ==
    ASSUME NEW f, NEW S, IsFiniteSet(S) PROVE \E g : Adds(g, f, S)
<1> DEFINE Bad == {T \in SUBSET S : ~ \E g : Adds(g, f, T)}
<1>1. SUFFICES ASSUME Bad # {} PROVE FALSE
  OBVIOUS
<1>2. PICK T \in Bad : \A U \in Bad : U \subseteq T => U = T
  <2> Bad \subseteq SUBSET S
    OBVIOUS
  <2> HIDE DEF Bad
  <2> QED BY <1>1, LeastSubset
<1> DEFINE Sum(U) == IF U = {} THEN 0 ELSE f[Some(U)] + Total(f, U \ {Some(U)})
           k == [U \in SUBSET T |-> Sum(U)]
<1>3. \A U \in SUBSET T : U # T => Total(f, U) = Sum(U)
  <2> SUFFICES ASSUME NEW U \in SUBSET T, U # T PROVE Total(f, U) = Sum(U)
    OBVIOUS
  <2>1. PICK g : g = (CHOOSE h : Adds(h, f, U)) /\ Adds(g, f, U)
    BY <1>2
  <2>2. Total(f, U) = g[U]
    BY <2>1, SumIsChosen
  <2>3. CASE U = {}
    BY <2>1, <2>2, <2>3 DEF Adds
  <2>4. CASE U # {}
    <3> DEFINE V == U \ {Some(U)}
    <3>1. V \subseteq U /\ V # T /\ V \in SUBSET S /\ IsFiniteSet(V)
      BY <1>2, FS_Subset
    <3>2. PICK h : h = (CHOOSE i : Adds(i, f, V)) /\ Adds(h, f, V)
      BY <1>2, <3>1
    <3>3. g[V] = h[V]
      BY <2>1, <3>1, <3>2, AddsOnce
    <3>4. Total(f, V) = h[V]
      BY <3>2, SumIsChosen
    <3>5. g[U] = f[Some(U)] + g[V]
      BY <2>1, <2>4 DEF Adds
    <3> QED BY <2>2, <2>4, <3>3, <3>4, <3>5
  <2> QED BY <2>3, <2>4
<1>4. \A U \in SUBSET T : U # {} => Total(f, U \ {Some(U)}) = k[U \ {Some(U)}]
  <2> SUFFICES ASSUME NEW U \in SUBSET T, U # {}
               PROVE  Total(f, U \ {Some(U)}) = k[U \ {Some(U)}]
    OBVIOUS
  <2>1. Some(U) \in U
    BY DEF Some
  <2>2. U \ {Some(U)} \in SUBSET T /\ U \ {Some(U)} # T
    BY <2>1
  <2> HIDE DEF Sum
  <2> QED BY <1>3, <2>2
<1>5. Adds(k, f, T)
  BY <1>4 DEF Adds
<1> QED
  BY <1>2, <1>5

\* The sum over a set that is not empty, by the element the code happens to take first.
LEMMA SumUnfolds ==
    ASSUME NEW f, NEW S, IsFiniteSet(S)
    PROVE  /\ S = {} => Total(f, S) = 0
           /\ S # {} => Total(f, S) = f[Some(S)] + Total(f, S \ {Some(S)})
<1> DEFINE V == S \ {Some(S)}
<1>1. PICK g : g = (CHOOSE h : Adds(h, f, S)) /\ Adds(g, f, S)
  BY AddsExists
<1>2. V \subseteq S /\ IsFiniteSet(V)
  BY FS_Subset
<1>3. PICK h : h = (CHOOSE i : Adds(i, f, V)) /\ Adds(h, f, V)
  BY <1>2, AddsExists
<1>4. g[V] = h[V]
  BY <1>1, <1>2, <1>3, AddsOnce
<1>5. Total(f, S) = g[S] /\ Total(f, V) = h[V]
  BY <1>1, <1>3, SumIsChosen
<1>6. S = {} => g[S] = 0
  BY <1>1 DEF Adds
<1>7. S # {} => g[S] = f[Some(S)] + g[V]
  BY <1>1 DEF Adds
<1> QED
  BY <1>4, <1>5, <1>6, <1>7

LEMMA SumEmpty == ASSUME NEW f PROVE Total(f, {}) = 0
<1>1. IsFiniteSet({})
  BY FS_EmptySet
<1> QED
  BY <1>1, SumUnfolds

\* Sums of naturals are naturals.
LEMMA SumNat ==
    ASSUME NEW f, NEW S, IsFiniteSet(S), \A x \in S : f[x] \in Nat
    PROVE  Total(f, S) \in Nat
<1> DEFINE Bad == {T \in SUBSET S : Total(f, T) \notin Nat}
<1>1. SUFFICES ASSUME Bad # {} PROVE FALSE
  OBVIOUS
<1>2. PICK T \in Bad : \A U \in Bad : U \subseteq T => U = T
  <2> Bad \subseteq SUBSET S
    OBVIOUS
  <2> HIDE DEF Bad
  <2> QED BY <1>1, LeastSubset
<1>3. T # {}
  <2>1. Total(f, {}) \in Nat
    BY SumEmpty
  <2> QED BY <1>2, <2>1
<1>4. Some(T) \in T /\ IsFiniteSet(T)
  BY <1>2, <1>3, FS_Subset DEF Some
<1>5. Total(f, T \ {Some(T)}) \in Nat
  BY <1>2, <1>4
<1>6. f[Some(T)] \in Nat
  BY <1>4
<1> QED
  BY <1>2, <1>3, <1>4, <1>5, <1>6, SumUnfolds

\* Any element may be taken first.
LEMMA SumTakes ==
    ASSUME NEW f, NEW S, IsFiniteSet(S), \A y \in S : f[y] \in Nat, NEW x \in S
    PROVE  Total(f, S) = f[x] + Total(f, S \ {x})
<1> DEFINE Takes(T, y) == Total(f, T) = f[y] + Total(f, T \ {y})
           Bad == {T \in SUBSET S : \E y \in T : ~Takes(T, y)}
<1>1. SUFFICES ASSUME Bad # {} PROVE FALSE
  OBVIOUS
<1>2. PICK T \in Bad : \A U \in Bad : U \subseteq T => U = T
  <2> Bad \subseteq SUBSET S
    OBVIOUS
  <2> HIDE DEF Bad
  <2> QED BY <1>1, LeastSubset
<1>3. PICK y \in T : ~Takes(T, y)
  BY <1>2
<1> DEFINE z == Some(T)
<1>4. z \in T /\ IsFiniteSet(T) /\ T # {} /\ T \subseteq S
  BY <1>2, <1>3, FS_Subset DEF Some
<1>5. Takes(T, z)
  BY <1>4, SumUnfolds
<1>6. y # z
  BY <1>3, <1>5
<1>7. Takes(T \ {z}, y) /\ Takes(T \ {y}, z)
  <2> T \ {z} \in SUBSET S /\ T \ {y} \in SUBSET S /\ y \in T \ {z} /\ z \in T \ {y}
    BY <1>4, <1>6
  <2> T \ {z} \notin Bad /\ T \ {y} \notin Bad
    BY <1>2, <1>4
  <2> HIDE DEF Takes, z
  <2> QED OBVIOUS
<1>8. (T \ {y}) \ {z} = (T \ {z}) \ {y}
  OBVIOUS
<1>9. Total(f, (T \ {z}) \ {y}) \in Nat /\ f[y] \in Nat /\ f[z] \in Nat
  BY <1>4, SumNat, FS_Subset
<1>10. Total(f, T) = f[z] + (f[y] + Total(f, (T \ {z}) \ {y}))
  BY <1>5, <1>7
<1>11. Total(f, T \ {y}) = f[z] + Total(f, (T \ {z}) \ {y})
  BY <1>7, <1>8
<1>12. Total(f, T) # f[y] + Total(f, T \ {y})
  BY <1>3
<1> HIDE DEF z, Takes, Bad
<1> QED
  BY <1>9, <1>10, <1>11, <1>12

\* Only the values at the elements count.
LEMMA SumSame ==
    ASSUME NEW f, NEW g, NEW S, IsFiniteSet(S), \A x \in S : f[x] = g[x]
    PROVE  Total(f, S) = Total(g, S)
<1> DEFINE Bad == {T \in SUBSET S : Total(f, T) # Total(g, T)}
<1>1. SUFFICES ASSUME Bad # {} PROVE FALSE
  OBVIOUS
<1>2. PICK T \in Bad : \A U \in Bad : U \subseteq T => U = T
  <2> Bad \subseteq SUBSET S
    OBVIOUS
  <2> HIDE DEF Bad
  <2> QED BY <1>1, LeastSubset
<1>3. T # {}
  BY <1>2, SumEmpty
<1>4. Some(T) \in T /\ IsFiniteSet(T)
  BY <1>2, <1>3, FS_Subset DEF Some
<1>5. Total(f, T \ {Some(T)}) = Total(g, T \ {Some(T)})
  BY <1>2, <1>4
<1>6. f[Some(T)] = g[Some(T)]
  BY <1>2, <1>4
<1> QED
  BY <1>2, <1>3, <1>4, <1>5, <1>6, SumUnfolds

LEMMA RevisionSumIs == RevisionSum = Total(rev, Posts)
  BY DEF RevisionSum, Total

LEMMA TotalAtLeast ==
    ASSUME NEW f, NEW S, IsFiniteSet(S), \A y \in S : f[y] \in Nat, NEW x \in S
    PROVE  Total(f, S) >= f[x]
<1>1. Total(f, S) = f[x] + Total(f, S \ {x})
  BY SumTakes
<1>2. IsFiniteSet(S \ {x})
  BY FS_Subset
<1>3. Total(f, S \ {x}) \in Nat
  BY <1>2, SumNat
<1> QED
  BY <1>1, <1>3

\* The sum goes up with every element that does.
LEMMA TotalGrows ==
    ASSUME NEW f, NEW g, NEW S, IsFiniteSet(S), \A y \in S : f[y] \in Nat /\ g[y] \in Nat,
           NEW x \in S, \A y \in S : y # x => g[y] = f[y], g[x] > f[x]
    PROVE  Total(g, S) > Total(f, S)
<1>1. Total(f, S) = f[x] + Total(f, S \ {x}) /\ Total(g, S) = g[x] + Total(g, S \ {x})
  BY SumTakes
<1>2. IsFiniteSet(S \ {x})
  BY FS_Subset
<1>3. Total(f, S \ {x}) = Total(g, S \ {x})
  BY <1>2, SumSame
<1>4. Total(f, S \ {x}) \in Nat
  BY <1>2, SumNat
<1>5. f[x] \in Nat /\ g[x] \in Nat
  OBVIOUS
<1> QED
  BY <1>1, <1>3, <1>4, <1>5

LEMMA RevisionSumNat == ASSUME ServerTypes PROVE RevisionSum \in Nat
<1>1. \A s \in Posts : rev[s] \in Nat
  BY ReplicaAssumption DEF ServerTypes, Revisions, ReplicaAssumption
<1> QED
  BY <1>1, PostsFinite, SumNat, RevisionSumIs

-----------------------------------------------------------------------------
(***************************************************************************)
(* Trimming.                                                               *)
(***************************************************************************)
LEMMA StoredPosts == ASSUME NEW r PROVE StoredIn(r) \subseteq Posts
  BY DEF StoredIn

LEMMA WithoutType ==
    ASSUME NEW r \in [Posts -> Rows], NEW gone
    PROVE  Without(r, gone) \in [Posts -> Rows] /\ StoredIn(Without(r, gone)) = StoredIn(r) \ gone
<1>1. MaxRevision \in Nat
  BY ReplicaAssumption DEF ReplicaAssumption
<1>2. NoPost \in Rows /\ NoPost.rev = 0
  BY <1>1 DEF NoPost, Rows, Revisions
<1> QED
  BY <1>2 DEF Without, StoredIn

\* The rows that go are the oldest.
Prefix(gone, r) == \A s \in gone, t \in StoredIn(r) : t <= s => t \in gone

LEMMA NoCoverType == NoCover \in CoverRecords
<1>1. MaxPosts \in Nat
  BY ReplicaAssumption DEF ReplicaAssumption
<1> QED
  BY <1>1 DEF NoCover, CoverRecords

\* postCoverageAfterPrefixDelete keeps the end of the window and what it certifies.
LEMMA ShrunkCloses ==
    ASSUME NEW r \in [Posts -> Rows], NEW c \in CoverRecords, Closed(r, c),
           NEW gone, gone \subseteq Posts, Prefix(gone, r), NEW d, d = Shrunk(Without(r, gone), c)
    PROVE  /\ d \in CoverRecords /\ Closed(Without(r, gone), d)
           /\ StoredIn(r) \ gone = {} => d = NoCover
           /\ StoredIn(r) \ gone # {} =>
                 /\ c # NoCover /\ d # NoCover /\ d.newest = c.newest /\ d.oldest >= c.oldest
                 /\ d.known = c.known /\ d.sum = c.sum /\ d.reachedNewest = c.reachedNewest
                 /\ \A s \in gone \cap StoredIn(r) : s < d.oldest
<1> DEFINE left == StoredIn(r) \ gone
<1>1. StoredIn(Without(r, gone)) = left /\ left \subseteq Posts
  BY WithoutType, StoredPosts
<1>2. CASE left = {}
  <2>1. d = NoCover
    BY <1>1, <1>2 DEF Shrunk
  <2> QED BY <1>1, <1>2, <2>1, NoCoverType DEF Closed
<1>3. CASE left # {}
  <2>1. c # NoCover /\ {c.oldest, c.newest} \subseteq StoredIn(r) /\ StoredIn(r) \subseteq c.oldest..c.newest
    BY <1>3 DEF Closed
  <2>2. d = [c EXCEPT !.oldest = Min(left), !.newest = Max(left), !.reachedOldest = FALSE]
    BY <1>1, <1>3, <2>1 DEF Shrunk
  <2>3. /\ Min(left) \in left /\ Max(left) \in left
        /\ \A y \in left : Min(left) <= y /\ y <= Max(left)
    BY <1>1, <1>3, PostSetEnds
  <2>4. /\ \A s \in StoredIn(r) : s \in Int
        /\ \A s \in left : s \in Int /\ s \in 0..MaxPosts /\ s # 0
    BY <1>1, StoredPosts, PostsFinite, ReplicaAssumption DEF ReplicaAssumption, Posts
  <2>5. c.newest \in left
    <3> SUFFICES ASSUME c.newest \in gone PROVE FALSE
      BY <2>1
    <3>1. Max(left) <= c.newest
      BY <2>1, <2>3, <2>4
    <3> QED BY <2>1, <2>3, <3>1 DEF Prefix
  <2>6. Max(left) = c.newest
    BY <2>1, <2>3, <2>4, <2>5
  <2>7. Min(left) >= c.oldest
    BY <2>1, <2>3, <2>4
  <2>8. \A s \in gone \cap StoredIn(r) : s < Min(left)
    <3> SUFFICES ASSUME NEW s \in gone \cap StoredIn(r), s >= Min(left) PROVE FALSE
      BY <2>3, <2>4
    <3> QED BY <2>3, <2>4 DEF Prefix
  <2> HIDE DEF left
  <2>9. /\ d \in CoverRecords /\ d.oldest = Min(left) /\ d.newest = Max(left)
        /\ d.known = c.known /\ d.sum = c.sum /\ d.reachedNewest = c.reachedNewest
    <3>1. Min(left) \in 0..MaxPosts /\ Max(left) \in 0..MaxPosts
      BY <2>3, <2>4
    <3> QED BY <2>2, <3>1 DEF CoverRecords
  <2>10. d # NoCover
    BY <2>3, <2>4, <2>9 DEF NoCover
  <2>11. Closed(Without(r, gone), d)
    BY <1>1, <2>3, <2>4, <2>9, <2>10 DEF Closed
  <2> QED BY <1>3, <2>1, <2>6, <2>7, <2>8, <2>9, <2>10, <2>11 DEF left
<1> QED
  BY <1>2, <1>3

\* trimConversationPosts takes the oldest and leaves Keep rows.
LEMMA SurplusIsPrefix ==
    ASSUME NEW r \in [Posts -> Rows]
    PROVE  /\ Prefix(Surplus(r), r) /\ Surplus(r) \subseteq StoredIn(r)
           /\ Surplus(r) # {} => /\ Cardinality(StoredIn(r) \ Surplus(r)) >= Keep
                                 /\ StoredIn(r) \ Surplus(r) # {}
           /\ \A s \in StoredIn(r) \ Surplus(r) :
                 Cardinality({t \in StoredIn(r) : t > s}) < Keep
<1> DEFINE Above(s) == {t \in StoredIn(r) : t > s}
<1>1. Keep \in Nat \ {0}
  BY ReplicaAssumption DEF ReplicaAssumption
<1>2. IsFiniteSet(StoredIn(r)) /\ \A s \in StoredIn(r) : s \in Int
  <2>1. StoredIn(r) \subseteq Posts
    BY StoredPosts
  <2>2. IsFiniteSet(StoredIn(r))
    BY <2>1, PostsFinite, FS_Subset
  <2>3. \A s \in Posts : s \in Int
    BY PostsFinite
  <2> QED BY <2>1, <2>2, <2>3
<1>3. ASSUME NEW s PROVE IsFiniteSet(Above(s)) /\ Cardinality(Above(s)) \in Nat
  BY <1>2, FS_Subset, FS_CardinalityType
<1>4. Surplus(r) = {s \in StoredIn(r) : Cardinality(Above(s)) >= Keep}
  BY DEF Surplus
<1>5. ASSUME NEW s \in Surplus(r), NEW t \in StoredIn(r), t <= s PROVE t \in Surplus(r)
  <2>1. Above(s) \subseteq Above(t)
    <3> SUFFICES ASSUME NEW u \in Above(s) PROVE u \in Above(t)
      OBVIOUS
    <3>1. u \in Int /\ s \in Int /\ t \in Int /\ u > s
      BY <1>2, <1>4, <1>5
    <3> QED BY <1>5, <3>1
  <2>2. Cardinality(Above(s)) <= Cardinality(Above(t))
    BY <1>3, <2>1, FS_Subset
  <2>3. Cardinality(Above(s)) >= Keep
    BY <1>4, <1>5
  <2>4. Cardinality(Above(s)) \in Nat /\ Cardinality(Above(t)) \in Nat
    BY <1>3
  <2>5. Cardinality(Above(t)) >= Keep
    BY <1>1, <2>2, <2>3, <2>4
  <2> QED BY <1>4, <2>5
<1>6. ASSUME Surplus(r) # {}
      PROVE  Cardinality(StoredIn(r) \ Surplus(r)) >= Keep /\ StoredIn(r) \ Surplus(r) # {}
  <2> DEFINE x == Max(Surplus(r))
  <2>1. Surplus(r) \subseteq Posts
    BY <1>4, StoredPosts
  <2>2. x \in Surplus(r) /\ \A y \in Surplus(r) : y <= x
    BY <1>6, <2>1, PostSetEnds
  <2>3. Above(x) \subseteq StoredIn(r) \ Surplus(r)
    <3> SUFFICES ASSUME NEW u \in Above(x) PROVE u \notin Surplus(r)
      BY <1>4
    <3>1. u \in Int /\ x \in Int /\ u > x
      BY <1>2, <1>4, <2>2
    <3> QED BY <2>2, <3>1
  <2>4. Cardinality(Above(x)) >= Keep
    BY <1>4, <2>2
  <2>5. IsFiniteSet(StoredIn(r) \ Surplus(r))
    BY <1>2, FS_Subset
  <2>6. /\ Cardinality(Above(x)) <= Cardinality(StoredIn(r) \ Surplus(r))
        /\ Cardinality(StoredIn(r) \ Surplus(r)) \in Nat
    BY <2>3, <2>5, FS_Subset, FS_CardinalityType
  <2>7. Cardinality(StoredIn(r) \ Surplus(r)) >= Keep
    BY <1>1, <1>3, <2>4, <2>6
  <2>8. Cardinality({}) = 0
    BY FS_EmptySet
  <2> QED BY <1>1, <2>7, <2>8
<1>7. \A s \in StoredIn(r) \ Surplus(r) : Cardinality(Above(s)) < Keep
  BY <1>1, <1>3, <1>4
<1> QED
  BY <1>4, <1>5, <1>6, <1>7 DEF Prefix

-----------------------------------------------------------------------------
(***************************************************************************)
(* savePosts.                                                              *)
(***************************************************************************)
Put(inc, ext) == [s \in Posts |-> IF s \in Accepted(inc, ext) THEN inc[s] ELSE rows[s]]

Wide(inc, ext, ro, rn) ==
    IF ext /\ Accepted(inc, ext) # {} THEN Widened(Accepted(inc, ext), ro, rn) ELSE cover

Written(inc) == inc \in Pages /\ \A s \in DOMAIN inc : inc[s].rev > 0

LEMMA CoverType ==
    ASSUME DiskTypes, WindowClosed
    PROVE  /\ cover.oldest \in Nat /\ cover.newest \in Nat /\ cover.known \in Nat /\ cover.sum \in Int
           /\ cover.reachedNewest \in BOOLEAN
           /\ cover = NoCover => /\ cover.newest = 0 /\ cover.known = 0 /\ cover.sum = 0
                                 /\ cover.reachedNewest = FALSE /\ Stored = {}
           /\ cover # NoCover => /\ cover.oldest \in Stored /\ cover.newest \in Stored
                                 /\ cover.oldest \in Posts /\ cover.newest \in Posts
                                 /\ cover.oldest <= cover.newest
                                 /\ \A s \in Stored : cover.oldest <= s /\ s <= cover.newest
<1>1. MaxPosts \in Nat
  BY ReplicaAssumption DEF ReplicaAssumption
<1>2. Stored \subseteq Posts
  BY StoredPosts DEF Stored
<1> QED
  BY <1>1, <1>2 DEF DiskTypes, CoverRecords, NoCover, WindowClosed, Posts

LEMMA PutType ==
    ASSUME DiskTypes, NEW inc, Written(inc), NEW ext
    PROVE  /\ Put(inc, ext) \in [Posts -> Rows]
           /\ Accepted(inc, ext) \subseteq Posts
           /\ StoredIn(Put(inc, ext)) = Stored \cup Accepted(inc, ext)
<1>1. Accepted(inc, ext) \subseteq DOMAIN inc
  BY DEF Accepted
<1>2. DOMAIN inc \subseteq Posts /\ \A s \in DOMAIN inc : inc[s] \in Rows /\ inc[s].rev > 0
  BY PageType DEF Written
<1>3. rows \in [Posts -> Rows]
  BY DEF DiskTypes
<1> HIDE DEF Rows
<1> QED
  BY <1>1, <1>2, <1>3 DEF Put, Stored, StoredIn

\* What a save does to the record of what is covered, before the trim.
Widens(c, W, ext, rn) ==
    /\ c \in CoverRecords /\ c.known = cover.known /\ c.sum = cover.sum
    /\ cover # NoCover => c # NoCover /\ c.newest >= cover.newest /\ c.oldest <= cover.oldest
    /\ cover.reachedNewest => c.reachedNewest
    /\ cover = NoCover /\ c # NoCover /\ rn => c.reachedNewest
    /\ c.reachedNewest => cover.reachedNewest \/ (ext /\ rn)
    /\ ext => \A u \in W : c # NoCover /\ u <= c.newest
    /\ \A s \in Posts : Covers(c, s) /\ ~Covers(cover, s) =>
          ext /\ IF cover = NoCover THEN \E t \in W, u \in W : t <= s /\ s <= u
                 ELSE \/ s > cover.newest /\ \E u \in W : s <= u
                      \/ s < cover.oldest /\ \E t \in W : t <= s

LEMMA NothingWidens ==
    ASSUME DiskTypes, WindowClosed, NEW W, NEW ext \in BOOLEAN, NEW rn \in BOOLEAN, ext => W = {}
    PROVE  Widens(cover, W, ext, rn)
<1>1. cover \in CoverRecords
  BY DEF DiskTypes
<1> QED
  BY <1>1, CoverType DEF Widens

LEMMA WideWidens ==
    ASSUME DiskTypes, WindowClosed, NEW W, W \subseteq Posts, W # {},
           NEW ro \in BOOLEAN, NEW rn \in BOOLEAN, NEW c, c = Widened(W, ro, rn)
    PROVE  /\ Widens(c, W, TRUE, rn) /\ c # NoCover
           /\ {c.oldest, c.newest} \subseteq Stored \cup W
           /\ \A s \in Stored \cup W : c.oldest <= s /\ s <= c.newest
<1> DEFINE first == Min(W)
           last  == Max(W)
<1>1. first \in W /\ last \in W /\ \A y \in W : first <= y /\ y <= last
  BY PostSetEnds
<1>2. \A s \in Posts : s \in Int /\ s > 0 /\ s \in 0..MaxPosts
  BY ReplicaAssumption DEF ReplicaAssumption, Posts
<1>3. c = [cover EXCEPT
             !.oldest = IF cover = NoCover \/ first < cover.oldest THEN first ELSE cover.oldest,
             !.newest = IF last > cover.newest THEN last ELSE cover.newest,
             !.reachedOldest = @ \/ ro, !.reachedNewest = @ \/ rn]
  BY DEF Widened
<1> HIDE DEF first, last
<1>4. cover \in CoverRecords
  BY DEF DiskTypes
<1>5. /\ c.oldest = IF cover = NoCover \/ first < cover.oldest THEN first ELSE cover.oldest
      /\ c.newest = IF last > cover.newest THEN last ELSE cover.newest
      /\ c.known = cover.known /\ c.sum = cover.sum /\ c.reachedNewest = (cover.reachedNewest \/ rn)
      /\ c.reachedOldest = (cover.reachedOldest \/ ro)
      /\ DOMAIN c = DOMAIN cover
  BY <1>3, <1>4 DEF CoverRecords
<1>6. first \in Int /\ last \in Int /\ first > 0 /\ last > 0 /\ first \in 0..MaxPosts /\ last \in 0..MaxPosts
  BY <1>1, <1>2
<1>7. c \in CoverRecords
  BY <1>3, <1>4, <1>6 DEF CoverRecords
<1>8. c.oldest # 0
  BY <1>5, <1>6, CoverType, <1>2
<1>9. c # NoCover
  BY <1>8 DEF NoCover
<1>10. c.newest >= cover.newest /\ c.newest >= last /\ (cover # NoCover => c.oldest <= cover.oldest)
  BY <1>5, <1>6, CoverType
<1>11. \A u \in W : u <= c.newest
  BY <1>1, <1>2, <1>6, <1>10, CoverType, <1>5
<1>12. ASSUME NEW s \in Posts, Covers(c, s), ~Covers(cover, s)
       PROVE  IF cover = NoCover THEN \E t \in W, u \in W : t <= s /\ s <= u
              ELSE \/ s > cover.newest /\ \E u \in W : s <= u
                   \/ s < cover.oldest /\ \E t \in W : t <= s
  <2>1. s \in Int /\ c.oldest <= s /\ s <= c.newest /\ s > 0
    BY <1>2, <1>12 DEF Covers
  <2>2. CASE cover = NoCover
    <3>1. c.oldest = first /\ c.newest = last
      BY <1>5, <1>6, <2>2, CoverType
    <3> QED BY <1>1, <2>1, <2>2, <3>1
  <2>3. CASE cover # NoCover
    <3>1. s < cover.oldest \/ s > cover.newest
      BY <1>12, <2>1, <2>3, CoverType DEF Covers
    <3>2. CASE s < cover.oldest
      BY <1>1, <1>5, <2>1, <2>3, <3>2, <1>6, CoverType
    <3>3. CASE s > cover.newest
      BY <1>1, <1>5, <2>1, <2>3, <3>3, <1>6, CoverType
    <3> QED BY <3>1, <3>2, <3>3
  <2> QED BY <2>2, <2>3
<1>13. {c.oldest, c.newest} \subseteq Stored \cup W
  BY <1>1, <1>5, <1>6, CoverType
<1>14. ASSUME NEW s \in Stored \cup W PROVE c.oldest <= s /\ s <= c.newest
  <2>1. s \in Int /\ s > 0
    BY <1>2, StoredPosts DEF Stored
  <2>2. CASE s \in W
    BY <1>1, <1>5, <1>6, <2>1, <2>2, CoverType
  <2>3. CASE s \in Stored
    <3>1. /\ cover # NoCover /\ cover.oldest <= s /\ s <= cover.newest
          /\ cover.oldest \in Nat /\ cover.newest \in Nat
      BY <2>3, CoverType
    <3>2. c.oldest <= cover.oldest /\ c.newest >= cover.newest /\ c.oldest \in Int /\ c.newest \in Int
      BY <1>5, <1>6, <3>1
    <3> QED BY <2>1, <3>1, <3>2
  <2> QED BY <2>2, <2>3
<1>15. /\ cover.reachedNewest => c.reachedNewest
       /\ c.reachedNewest => cover.reachedNewest \/ rn
       /\ rn => c.reachedNewest
  BY <1>5, CoverType
<1>16. Widens(c, W, TRUE, rn)
  BY <1>5, <1>7, <1>9, <1>10, <1>11, <1>12, <1>15 DEF Widens
<1> QED
  BY <1>9, <1>13, <1>14, <1>16

LEMMA WideCloses ==
    ASSUME DiskTypes, WindowClosed, NEW inc, Written(inc), NEW ext \in BOOLEAN,
           NEW ro \in BOOLEAN, NEW rn \in BOOLEAN
    PROVE  /\ Widens(Wide(inc, ext, ro, rn), Accepted(inc, ext), ext, rn)
           /\ Closed(Put(inc, ext), Wide(inc, ext, ro, rn))
<1> DEFINE W == Accepted(inc, ext)
           c == Wide(inc, ext, ro, rn)
<1>1. W \subseteq Posts /\ StoredIn(Put(inc, ext)) = Stored \cup W
  BY PutType
<1>2. CASE ext /\ W # {}
  <2>1. c = Widened(W, ro, rn)
    BY <1>2 DEF Wide
  <2> HIDE DEF c, W
  <2>2. /\ Widens(c, W, TRUE, rn) /\ c # NoCover
        /\ {c.oldest, c.newest} \subseteq Stored \cup W
        /\ \A s \in Stored \cup W : c.oldest <= s /\ s <= c.newest
    BY <1>1, <1>2, <2>1, WideWidens
  <2>3. ext = TRUE
    BY <1>2
  <2>4. \A s \in Stored \cup W : s \in Int
    <3>1. Stored \subseteq Posts
      BY StoredPosts DEF Stored
    <3>2. \A s \in Posts : s \in Int
      BY PostsFinite
    <3> QED BY <1>1, <3>1, <3>2
  <2>5. c.oldest \in Int /\ c.newest \in Int
    BY <2>2, <2>4
  <2>6. Closed(Put(inc, ext), c)
    BY <1>1, <2>2, <2>4, <2>5 DEF Closed
  <2> QED BY <2>2, <2>3, <2>6 DEF c, W
<1>3. CASE ~(ext /\ W # {})
  <2>1. c = cover
    BY <1>3 DEF Wide
  <2>2. Widens(cover, W, ext, rn)
    <3> HIDE DEF W
    <3> QED BY <1>3, NothingWidens
  <2>3. W \subseteq Stored \/ ~ext
    BY <1>3
  <2>4. \A s \in W : ~ext => s \in Stored \/ Covers(cover, s)
    BY DEF Accepted
  <2>5. CASE cover = NoCover
    <3>1. Stored = {} /\ W = {}
      BY <1>3, <2>4, <2>5, CoverType DEF Covers
    <3> QED BY <1>1, <2>1, <2>2, <2>5, <3>1 DEF Closed
  <2>6. CASE cover # NoCover
    <3>1. \A s \in Stored : s \in cover.oldest..cover.newest
      BY <2>6 DEF WindowClosed
    <3>2. \A s \in W : s \in cover.oldest..cover.newest
      BY <1>3, <2>4, <3>1 DEF Covers
    <3>3. {cover.oldest, cover.newest} \subseteq Stored
      BY <2>6, CoverType
    <3> HIDE DEF W, c
    <3>4. Closed(Put(inc, ext), cover)
      BY <1>1, <2>6, <3>1, <3>2, <3>3 DEF Closed
    <3> QED BY <2>1, <2>2, <3>4 DEF c, W
  <2> QED BY <2>5, <2>6
<1> QED
  BY <1>2, <1>3

Full == Cardinality(Stored) >= Keep

\* What a save does to the rows and to the record of what is covered.
Saved(inc, ext, rn) ==
    /\ DiskTypes' /\ WindowClosed'
    /\ cover'.known = cover.known /\ cover'.sum = cover.sum
    /\ cover # NoCover => /\ cover' # NoCover /\ cover'.newest >= cover.newest
                          /\ cover'.oldest <= cover.oldest \/ Full'
    /\ cover.reachedNewest => cover'.reachedNewest
    /\ cover'.reachedNewest => cover.reachedNewest \/ (ext /\ rn)
    /\ cover = NoCover /\ cover' # NoCover /\ rn => cover'.reachedNewest
    /\ Collides(inc, ext) => rows' = rows /\ cover' = cover
    /\ Full => Full'
    /\ \A s \in Posts : rows'[s].rev > 0 =>
          \/ rows'[s] = rows[s]
          \/ s \in DOMAIN inc /\ rows'[s] = inc[s] /\ rows[s].rev <= inc[s].rev
    /\ \A s \in Stored : Covers(cover', s) => rows'[s].rev > 0
    /\ \A s \in Posts : Covers(cover', s) /\ ~Covers(cover, s) =>
          ext /\ IF cover = NoCover THEN \E t \in DOMAIN inc, u \in DOMAIN inc : t <= s /\ s <= u
                 ELSE \/ s > cover.newest /\ \E u \in DOMAIN inc : s <= u
                      \/ s < cover.oldest /\ ~Full /\ \E t \in DOMAIN inc : t <= s
    /\ ~Collides(inc, ext) =>
          /\ \A s \in Accepted(inc, ext) : Covers(cover', s) => rows'[s] = inc[s]
          /\ ext => \A u \in DOMAIN inc : cover' # NoCover /\ u <= cover'.newest

LEMMA SaveNothing ==
    ASSUME DiskTypes, WindowClosed, NEW inc, NEW ext \in BOOLEAN, NEW rn \in BOOLEAN,
           UNCHANGED diskVars, DOMAIN inc = {} \/ Collides(inc, ext)
    PROVE  Saved(inc, ext, rn)
<1>1. rows' = rows /\ cover' = cover
  BY DEF diskVars
<1>2. DiskTypes' /\ WindowClosed' /\ Full = Full'
  BY <1>1 DEF DiskTypes, WindowClosed, Stored, Full
<1>3. cover'.newest >= cover.newest /\ cover'.oldest <= cover.oldest
  BY <1>1, CoverType
<1>4. \A s \in Posts : Covers(cover', s) => Covers(cover, s)
  BY <1>1
<1>5. \A s \in Stored : rows'[s].rev > 0
  BY <1>1 DEF Stored, StoredIn
<1>6. ~Collides(inc, ext) => Accepted(inc, ext) = {} /\ DOMAIN inc = {}
  BY DEF Accepted
<1> QED
  BY <1>1, <1>2, <1>3, <1>4, <1>5, <1>6 DEF Saved

\* Below a full window nothing stays.
LEMMA FullStays ==
    ASSUME DiskTypes, WindowClosed, Full, NEW r \in [Posts -> Rows], Stored \subseteq StoredIn(r),
           NEW s \in StoredIn(r) \ Surplus(r), cover # NoCover
    PROVE  s >= cover.oldest
<1> SUFFICES ASSUME s < cover.oldest PROVE FALSE
  <2> s \in Nat /\ cover.oldest \in Nat
    BY StoredPosts, PostsFinite, CoverType
  <2> QED OBVIOUS
<1> DEFINE A == {t \in StoredIn(r) : t > s}
<1>1. Cardinality(A) < Keep
  BY SurplusIsPrefix
<1>2. Stored \subseteq A
  <2> SUFFICES ASSUME NEW t \in Stored PROVE t > s
    OBVIOUS
  <2>1. t \in Nat /\ s \in Nat /\ cover.oldest \in Nat
    BY StoredPosts, PostsFinite, CoverType
  <2>2. cover.oldest <= t
    BY CoverType
  <2> QED BY <2>1, <2>2
<1>3. IsFiniteSet(StoredIn(r))
  BY StoredPosts, PostsFinite, FS_Subset
<1>4. IsFiniteSet(A)
  BY <1>3, FS_Subset
<1>5. Cardinality(Stored) <= Cardinality(A) /\ Cardinality(A) \in Nat /\ Cardinality(Stored) \in Nat
  BY <1>2, <1>4, FS_Subset, FS_CardinalityType
<1>6. Keep \in Nat
  BY ReplicaAssumption DEF ReplicaAssumption
<1> QED
  BY <1>1, <1>5, <1>6 DEF Full

LEMMA SaveSaves ==
    ASSUME DiskTypes, WindowClosed, NEW inc, Written(inc), DOMAIN inc # {}, NEW ext \in BOOLEAN,
           NEW ro \in BOOLEAN, NEW rn \in BOOLEAN, SavePosts(inc, ext, ro, rn), ~Collides(inc, ext)
    PROVE  Saved(inc, ext, rn)
<1> DEFINE W == Accepted(inc, ext)
           r == Put(inc, ext)
           c == Wide(inc, ext, ro, rn)
           gone == Surplus(r)
           left == StoredIn(r) \ gone
<1>1. rows' = Without(r, gone) /\ cover' = IF gone = {} THEN c ELSE Shrunk(Without(r, gone), c)
  BY Zenon DEF SavePosts, Put, Wide
<1>2. /\ r \in [Posts -> Rows] /\ W \subseteq Posts /\ StoredIn(r) = Stored \cup W
      /\ W \subseteq DOMAIN inc
  BY PutType DEF Accepted
<1>3. /\ \A s \in W : r[s] = inc[s] /\ rows[s].rev <= inc[s].rev
      /\ \A s \in Posts \ W : r[s] = rows[s]
  BY <1>2 DEF Put, Accepted
<1>4. Widens(c, W, ext, rn) /\ Closed(r, c)
  BY WideCloses
<1> HIDE DEF W, r, c
<1>5. /\ Prefix(gone, r) /\ gone \subseteq StoredIn(r) /\ gone \subseteq Posts
      /\ gone # {} => Cardinality(left) >= Keep /\ left # {}
  BY <1>2, SurplusIsPrefix, StoredPosts
<1>6. c \in CoverRecords
  BY <1>4 DEF Widens
<1> HIDE DEF gone
<1>7. rows' \in [Posts -> Rows] /\ StoredIn(rows') = left
  BY <1>1, <1>2, WithoutType
<1>8. /\ \A s \in Posts \ gone : rows'[s] = r[s]
      /\ \A s \in gone : rows'[s] = NoPost
  BY <1>1, <1>5 DEF Without
<1>9. /\ cover' \in CoverRecords /\ Closed(rows', cover')
      /\ c # NoCover => cover' # NoCover /\ cover'.newest = c.newest /\ cover'.oldest >= c.oldest
      /\ cover'.known = c.known /\ cover'.sum = c.sum /\ cover'.reachedNewest = c.reachedNewest
      /\ cover' # NoCover => c # NoCover /\ \A s \in gone : s < cover'.oldest
  <2>1. CASE gone = {}
    <3>1. Without(r, gone) = r
      BY <1>2, <2>1 DEF Without
    <3>2. cover' = c /\ rows' = r
      BY <1>1, <2>1, <3>1
    <3>3. c.oldest \in Nat
      BY <1>6 DEF CoverRecords
    <3> QED BY <1>4, <1>6, <2>1, <3>2, <3>3
  <2>2. CASE gone # {}
    <3>1. cover' = Shrunk(Without(r, gone), c) /\ left # {}
      BY <1>1, <1>5, <2>2
    <3>2. /\ cover' \in CoverRecords /\ Closed(rows', cover')
          /\ c # NoCover /\ cover' # NoCover /\ cover'.newest = c.newest /\ cover'.oldest >= c.oldest
          /\ cover'.known = c.known /\ cover'.sum = c.sum /\ cover'.reachedNewest = c.reachedNewest
          /\ \A s \in gone \cap StoredIn(r) : s < cover'.oldest
      BY <1>1, <1>2, <1>4, <1>5, <1>6, <3>1, ShrunkCloses
    <3> QED BY <1>5, <3>2
  <2> QED BY <2>1, <2>2
<1>10. DiskTypes'
  BY <1>7, <1>9 DEF DiskTypes
<1>11. WindowClosed'
  BY <1>9 DEF WindowClosed, Closed, Stored
<1>12. ASSUME Full PROVE Full'
  <2>1. Stored' = left
    BY <1>7 DEF Stored
  <2>2. CASE gone = {}
    <3>1. Stored \subseteq left /\ IsFiniteSet(left)
      BY <1>2, <2>2, StoredPosts, PostsFinite, FS_Subset
    <3>2. /\ Cardinality(Stored) <= Cardinality(left) /\ Cardinality(left) \in Nat
          /\ Cardinality(Stored) \in Nat
      BY <3>1, FS_Subset, FS_CardinalityType
    <3>3. Keep \in Nat
      BY ReplicaAssumption DEF ReplicaAssumption
    <3> QED BY <1>12, <2>1, <3>2, <3>3 DEF Full
  <2>3. CASE gone # {}
    BY <1>5, <2>1, <2>3 DEF Full
  <2> QED BY <2>2, <2>3
<1>13. ASSUME NEW s \in Posts, rows'[s].rev > 0
       PROVE  \/ rows'[s] = rows[s]
              \/ s \in DOMAIN inc /\ rows'[s] = inc[s] /\ rows[s].rev <= inc[s].rev
  <2>1. s \notin gone
    BY <1>8, <1>13 DEF NoPost
  <2>2. rows'[s] = r[s]
    BY <1>8, <2>1
  <2> QED BY <1>2, <1>3, <2>2
<1>14. \A s \in StoredIn(r) : Covers(cover', s) => s \notin gone /\ s \in left
  <2> SUFFICES ASSUME NEW s \in StoredIn(r), Covers(cover', s), s \in gone PROVE FALSE
    OBVIOUS
  <2>1. s < cover'.oldest /\ s >= cover'.oldest
    BY <1>9 DEF Covers
  <2>2. s \in Int /\ cover'.oldest \in Int
    <3>1. s \in Posts
      BY StoredPosts
    <3> QED BY <1>9, <3>1, PostsFinite DEF CoverRecords
  <2> QED BY <2>1, <2>2
<1>15. \A s \in Stored : Covers(cover', s) => rows'[s].rev > 0
  <2> SUFFICES ASSUME NEW s \in Stored, Covers(cover', s) PROVE rows'[s].rev > 0
    OBVIOUS
  <2>1. s \in StoredIn(rows')
    BY <1>2, <1>7, <1>14
  <2> QED BY <2>1 DEF StoredIn
<1>16. ASSUME NEW s \in Posts, Covers(cover', s), ~Covers(cover, s)
       PROVE  ext /\ IF cover = NoCover THEN \E t \in DOMAIN inc, u \in DOMAIN inc : t <= s /\ s <= u
                     ELSE \/ s > cover.newest /\ \E u \in DOMAIN inc : s <= u
                          \/ s < cover.oldest /\ ~Full /\ \E t \in DOMAIN inc : t <= s
  <2>1. Covers(c, s)
    <3>1. c # NoCover /\ cover' # NoCover /\ cover'.newest = c.newest /\ cover'.oldest >= c.oldest
          /\ s \in Int /\ cover'.oldest <= s /\ s <= cover'.newest
      BY <1>9, <1>16 DEF Covers
    <3>2. cover'.oldest \in Int /\ cover'.newest \in Int /\ c.oldest \in Int /\ c.newest \in Int
      BY <1>6, <1>9 DEF CoverRecords
    <3> QED BY <3>1, <3>2 DEF Covers
  <2>2. ext /\ IF cover = NoCover THEN \E t \in W, u \in W : t <= s /\ s <= u
               ELSE \/ s > cover.newest /\ \E u \in W : s <= u
                    \/ s < cover.oldest /\ \E t \in W : t <= s
    BY <1>4, <1>16, <2>1 DEF Widens
  <2>3. ASSUME cover # NoCover, Full, s < cover.oldest PROVE FALSE
    <3>1. cover'.oldest \in StoredIn(rows') /\ cover'.oldest <= s
      BY <1>9, <1>16 DEF Covers, Closed
    <3>2. cover'.oldest \in left
      BY <1>7, <3>1
    <3>3. cover'.oldest >= cover.oldest
      BY <1>2, <2>3, <3>2, FullStays DEF gone
    <3>4. cover'.oldest \in Int /\ cover.oldest \in Int /\ s \in Int
      BY <1>9, CoverType, PostsFinite DEF CoverRecords
    <3> QED BY <2>3, <3>1, <3>3, <3>4
  <2> QED BY <1>2, <2>2, <2>3
<1>17. \A s \in W : Covers(cover', s) => rows'[s] = inc[s]
  BY <1>2, <1>3, <1>8, <1>14
<1>18. ASSUME ext, NEW u \in DOMAIN inc PROVE cover' # NoCover /\ u <= cover'.newest
  <2>1. CASE u \in W
    <3>1. c # NoCover /\ u <= c.newest
      BY <1>4, <1>18, <2>1 DEF Widens
    <3> QED BY <1>9, <3>1
  <2>2. CASE u \notin W
    <3>1. u \in Posts /\ inc[u] \in Rows /\ inc[u].rev > 0 /\ rows[u] \in Rows
      BY PageType DEF Written, DiskTypes
    <3>2. ~(rows[u].rev <= inc[u].rev)
      BY <1>18, <2>2 DEF Accepted, W
    <3>3. rows[u].rev > 0
      BY <3>1, <3>2, RowType
    <3>4. u \in Stored
      BY <3>1, <3>3 DEF Stored, StoredIn
    <3>5. cover # NoCover /\ u <= cover.newest /\ u \in Int /\ cover.newest \in Int
      <4>1. cover # NoCover /\ u <= cover.newest /\ cover.newest \in Nat
        BY <3>4, CoverType
      <4> QED BY <3>1, <4>1, PostsFinite
    <3>6. c # NoCover /\ c.newest >= cover.newest
      BY <1>4, <3>5 DEF Widens
    <3>7. c.newest \in Int
      BY <1>6 DEF CoverRecords
    <3> QED BY <1>9, <3>5, <3>6, <3>7
  <2> QED BY <2>1, <2>2
<1>19. /\ cover'.known = cover.known /\ cover'.sum = cover.sum
       /\ cover # NoCover => cover' # NoCover /\ cover'.newest >= cover.newest
       /\ cover.reachedNewest => cover'.reachedNewest
       /\ cover'.reachedNewest => cover.reachedNewest \/ (ext /\ rn)
       /\ cover = NoCover /\ cover' # NoCover /\ rn => cover'.reachedNewest
  BY <1>4, <1>9 DEF Widens
<1>20. cover # NoCover => cover'.oldest <= cover.oldest \/ Full'
  <2>1. CASE gone = {}
    <3>1. cover' = c
      BY <1>1, <2>1
    <3> QED BY <1>4, <3>1 DEF Widens
  <2>2. CASE gone # {}
    BY <1>5, <1>7, <2>2 DEF Full, Stored
  <2> QED BY <2>1, <2>2
<1> QED
  BY <1>20, <1>10, <1>11, <1>12, <1>13, <1>15, <1>16, <1>17, <1>18, <1>19 DEF Saved, W

LEMMA SaveIs ==
    ASSUME DiskTypes, WindowClosed, NEW inc, Written(inc), NEW ext \in BOOLEAN,
           NEW ro \in BOOLEAN, NEW rn \in BOOLEAN, SavePosts(inc, ext, ro, rn)
    PROVE  Saved(inc, ext, rn)
<1>1. CASE Collides(inc, ext)
  <2>1. UNCHANGED diskVars
    BY <1>1 DEF SavePosts
  <2> QED BY <1>1, <2>1, SaveNothing
<1>2. CASE ~Collides(inc, ext) /\ DOMAIN inc = {}
  <2>1. Accepted(inc, ext) = {}
    BY <1>2 DEF Accepted
  <2>2. Put(inc, ext) = rows
    BY <2>1 DEF Put, DiskTypes
  <2>3. rows' = Without(rows, {}) /\ cover' = cover
    BY <1>2, <2>1, <2>2 DEF SavePosts, Put
  <2>4. Without(rows, {}) = rows
    BY DEF Without, DiskTypes
  <2>5. UNCHANGED diskVars
    BY <2>3, <2>4 DEF diskVars
  <2> QED BY <1>2, <2>5, SaveNothing
<1>3. CASE ~Collides(inc, ext) /\ DOMAIN inc # {}
  BY <1>3, SaveSaves
<1> QED
  BY <1>1, <1>2, <1>3

-----------------------------------------------------------------------------
(***************************************************************************)
(* What no step disturbs.                                                  *)
(***************************************************************************)
LEMMA NoRowsPage == NoRows \in Pages /\ Genuine(NoRows) /\ DOMAIN NoRows = {}
<1>1. NoRows \in [{} -> Rows] /\ DOMAIN NoRows = {}
  BY DEF NoRows
<1> QED
  BY <1>1, PageIs DEF Genuine

LEMMA IdleType == IdleJob \in JobRecords
<1>1. MaxPosts \in Nat
  BY ReplicaAssumption DEF ReplicaAssumption
<1> QED
  BY <1>1, NoRowsPage DEF IdleJob, JobRecords, Steps, NoSum

LEMMA PageRows ==
    ASSUME ServerTypes, NEW S, S \subseteq 1..head
    PROVE  /\ PageOf(S) \in Pages /\ Genuine(PageOf(S)) /\ DOMAIN PageOf(S) = S /\ S \subseteq Posts
           /\ \A s \in S : PageOf(S)[s].rev = rev[s]
<1>1. MaxPosts \in Nat \ {0} /\ MaxRevision \in Nat
  BY ReplicaAssumption DEF ReplicaAssumption
<1>2. S \subseteq Posts /\ 1 \in Posts
  BY <1>1 DEF ServerTypes, Posts
<1>3. \A s \in S : rev[s] \in Revisions /\ rev[1] \in Revisions /\ 0 \in Revisions
  BY <1>1, <1>2 DEF ServerTypes, Revisions
<1>4. \A s \in S : PageRow(s) \in Rows /\ PageRow(s).rev = rev[s]
  BY <1>3 DEF PageRow, Quote, Rows
<1>5. DOMAIN PageOf(S) = S /\ \A s \in S : PageOf(S)[s] = PageRow(s)
  BY DEF PageOf
<1>6. PageOf(S) \in [S -> Rows]
  BY <1>4, <1>5 DEF PageOf
<1>7. \A s \in S : s <= head
  BY DEF ServerTypes
<1>8. \A s \in S : rev[s] \in 1..rev[s]
  BY <1>1, <1>2, <1>3, <1>7 DEF ServerTypes, Revisions
<1> QED
  BY <1>2, <1>4, <1>5, <1>6, <1>8, PageIs DEF Genuine

LEMMA GenuineWritten ==
    ASSUME ServerTypes, NEW inc \in Pages, Genuine(inc)
    PROVE  Written(inc) /\ \A s \in DOMAIN inc : inc[s].rev <= rev[s]
<1>1. MaxRevision \in Nat
  BY ReplicaAssumption DEF ReplicaAssumption
<1>2. \A s \in DOMAIN inc : rev[s] \in Nat
  BY <1>1, PageType DEF ServerTypes, Revisions
<1> QED
  BY <1>2 DEF Genuine, Written

\* A step of the client, whatever it does to the rows, the record and the requests.
LEMMA ClientKeeps ==
    ASSUME ReplicaInv, UNCHANGED serverVars, LinkTypes', wire' \subseteq wire, JobTypes',
           \A j \in Jobs : Genuine(job'[j].got) /\ Genuine(job'[j].page),
           DiskTypes', WindowClosed', \A s \in Posts : rows'[s].rev <= rev[s]
    PROVE  ReplicaInv'
<1>1. head' = head /\ rev' = rev /\ clock' = clock
  BY DEF serverVars
<1>2. ServerTypes'
  BY <1>1 DEF ReplicaInv, ServerTypes
<1>3. AllGenuine'
  BY <1>1 DEF ReplicaInv, AllGenuine, Genuine
<1> QED
  BY <1>2, <1>3 DEF ReplicaInv

LEMMA JobBecomes ==
    ASSUME ReplicaInv, NEW j \in Jobs, NEW next \in JobRecords, Genuine(next.got), Genuine(next.page),
           Become(j, next)
    PROVE  /\ JobTypes' /\ \A i \in Jobs : Genuine(job'[i].got) /\ Genuine(job'[i].page)
           /\ job'[j] = next
<1>1. job \in [Jobs -> JobRecords]
  BY DEF ReplicaInv, JobTypes
<1>2. job' = [job EXCEPT ![j] = next]
  BY DEF Become
<1>3. job' \in [Jobs -> JobRecords] /\ \A i \in Jobs : job'[i] = IF i = j THEN next ELSE job[i]
  BY <1>1, <1>2
<1>4. \A i \in Jobs : Genuine(job[i].got) /\ Genuine(job[i].page)
  BY DEF ReplicaInv, AllGenuine
<1> QED
  BY <1>3, <1>4 DEF JobTypes

LEMMA JobIs ==
    ASSUME ReplicaInv, NEW j \in Jobs
    PROVE  /\ job[j] \in JobRecords /\ Genuine(job[j].got) /\ Genuine(job[j].page)
           /\ job[j].got \in Pages /\ job[j].page \in Pages
           /\ job[j].anchor \in 0..MaxPosts /\ job[j].newest \in 0..MaxPosts
           /\ job[j].from \in Nat /\ job[j].through \in Nat /\ job[j].sum \in Int
           /\ job[j].atEnd \in BOOLEAN
           /\ job[j].way \in {"latest", "before", "after"} /\ job[j].step \in Steps
<1>1. job[j] \in JobRecords
  BY DEF ReplicaInv, JobTypes
<1>2. Genuine(job[j].got) /\ Genuine(job[j].page)
  BY DEF ReplicaInv, AllGenuine
<1> HIDE DEF JobRecords
<1>3. /\ job[j].got \in Pages /\ job[j].page \in Pages
      /\ job[j].anchor \in 0..MaxPosts /\ job[j].newest \in 0..MaxPosts
      /\ job[j].from \in Nat /\ job[j].through \in Nat /\ job[j].sum \in Int
      /\ job[j].atEnd \in BOOLEAN
      /\ job[j].way \in {"latest", "before", "after"} /\ job[j].step \in Steps
  BY <1>1 DEF JobRecords
<1> QED
  BY <1>1, <1>2, <1>3

LEMMA JobsStay ==
    ASSUME ReplicaInv, job' = job
    PROVE  JobTypes' /\ \A i \in Jobs : Genuine(job'[i].got) /\ Genuine(job'[i].page)
  BY DEF ReplicaInv, JobTypes, AllGenuine

LEMMA DiskStays ==
    ASSUME ReplicaInv, UNCHANGED diskVars
    PROVE  DiskTypes' /\ WindowClosed' /\ \A s \in Posts : rows'[s].rev <= rev[s]
<1>1. rows' = rows /\ cover' = cover
  BY DEF diskVars
<1> QED
  BY <1>1 DEF ReplicaInv, DiskTypes, WindowClosed, Stored, AllGenuine

LEMMA LinkStays ==
    ASSUME ReplicaInv, UNCHANGED <<connected, phase>>, wire' \subseteq wire
    PROVE  LinkTypes'
  BY DEF ReplicaInv, LinkTypes

LEMMA SaveGenuine ==
    ASSUME ReplicaInv, NEW inc \in Pages, Genuine(inc), NEW ext \in BOOLEAN, NEW ro \in BOOLEAN,
           NEW rn \in BOOLEAN, SavePosts(inc, ext, ro, rn)
    PROVE  /\ Saved(inc, ext, rn) /\ DiskTypes' /\ WindowClosed'
           /\ \A s \in Posts : rows'[s].rev <= rev[s]
<1>1. ServerTypes /\ DiskTypes /\ WindowClosed
  BY DEF ReplicaInv
<1>2. Written(inc) /\ \A s \in DOMAIN inc : inc[s].rev <= rev[s]
  BY <1>1, GenuineWritten
<1>3. Saved(inc, ext, rn)
  BY <1>1, <1>2, SaveIs
<1>4. DiskTypes' /\ WindowClosed'
  BY <1>3 DEF Saved
<1>5. ASSUME NEW s \in Posts PROVE rows'[s].rev <= rev[s]
  <2>1. rows'[s] \in Rows /\ MaxRevision \in Nat
    BY <1>4, ReplicaAssumption DEF DiskTypes, ReplicaAssumption
  <2>2. rows'[s].rev \in Nat
    BY <2>1, RowType
  <2>3. rev[s] \in Nat /\ rows[s].rev <= rev[s]
    BY <1>1, <2>1 DEF ServerTypes, Revisions, ReplicaInv, AllGenuine
  <2>4. CASE rows'[s].rev = 0
    BY <2>3, <2>4
  <2>5. CASE rows'[s].rev > 0
    <3>1. rows'[s] = rows[s] \/ (s \in DOMAIN inc /\ rows'[s] = inc[s])
      BY <1>3, <2>5 DEF Saved
    <3> QED BY <1>2, <2>3, <3>1
  <2> QED BY <2>2, <2>4, <2>5
<1> QED
  BY <1>3, <1>4, <1>5

-----------------------------------------------------------------------------
(***************************************************************************)
(* The window is closed.                                                   *)
(***************************************************************************)
LEMMA InitReplica == ReplicaInit => ReplicaInv
<1> SUFFICES ASSUME ReplicaInit PROVE ReplicaInv
  OBVIOUS
<1>1. /\ MaxPosts \in Nat \ {0} /\ MaxRevision \in Nat /\ Opening \in 0..MaxPosts /\ Opening <= MaxRevision
  BY ReplicaAssumption DEF ReplicaAssumption
<1>2. /\ head = Opening /\ clock = Opening
      /\ rev = [s \in Posts |-> IF s <= Opening THEN s ELSE 0]
      /\ rows = [s \in Posts |-> NoPost] /\ cover = NoCover
      /\ connected = TRUE /\ phase = "live" /\ wire = {} /\ job = [j \in Jobs |-> IdleJob]
  BY DEF ReplicaInit
<1>3. ServerTypes
  BY <1>1, <1>2 DEF ServerTypes, Revisions, Posts
<1>4. NoPost \in Rows /\ NoPost.rev = 0
  BY <1>1 DEF NoPost, Rows, Revisions
<1>5. DiskTypes
  BY <1>2, <1>4, NoCoverType DEF DiskTypes
<1>6. LinkTypes
  BY <1>2 DEF LinkTypes
<1>7. JobTypes
  BY <1>2, IdleType DEF JobTypes
<1>8. IdleJob.got = NoRows /\ IdleJob.page = NoRows
  BY DEF IdleJob
<1>9. \A s \in Posts : rows[s].rev = 0 /\ rev[s] \in Nat
  BY <1>1, <1>2, <1>4 DEF Posts
<1>10. \A s \in Posts : rows[s].rev <= rev[s]
  BY <1>9
<1>11. \A j \in Jobs : Genuine(job[j].got) /\ Genuine(job[j].page)
  BY <1>2, <1>8, NoRowsPage
<1>12. AllGenuine
  BY <1>2, <1>10, <1>11 DEF AllGenuine
<1>13. WindowClosed
  BY <1>2, <1>9 DEF WindowClosed, Stored, StoredIn
<1> QED
  BY <1>3, <1>5, <1>6, <1>7, <1>12, <1>13 DEF ReplicaInv

\* The counter goes up and one post takes it.
LEMMA ChangesReplica ==
    ASSUME ReplicaInv, NEW s \in Posts, NEW created \in BOOLEAN, Changes(s, created),
           \/ created /\ s = head + 1 /\ head' = head + 1
           \/ ~created /\ s <= head /\ head' = head
    PROVE  /\ ReplicaInv' /\ UNCHANGED <<diskVars, connected, phase, job>>
           /\ clock' = clock + 1 /\ rev' = [rev EXCEPT ![s] = clock + 1]
           /\ \A t \in Posts : rev'[t] = rev[t] \/ (t = s /\ rev'[t] = clock + 1)
           /\ \A e \in wire' : e \in wire \/ e.row.rev = clock + 1
<1>1. /\ MaxPosts \in Nat \ {0} /\ MaxRevision \in Nat
  BY ReplicaAssumption DEF ReplicaAssumption
<1>2. /\ clock < MaxRevision /\ clock' = clock + 1 /\ rev' = [rev EXCEPT ![s] = clock + 1]
      /\ wire' = IF connected
                 THEN wire \cup {[seq |-> s, row |-> LiveRow(rev', s), created |-> created]}
                 ELSE wire
      /\ UNCHANGED <<diskVars, connected, phase, job>>
  BY DEF Changes
<1>3. /\ head \in Nat /\ clock \in Nat /\ rev \in [Posts -> Revisions]
      /\ \A t \in Posts : rev[t] \in Nat /\ rev[t] <= clock /\ t \in Nat /\ (t <= head <=> rev[t] > 0)
      /\ head <= MaxPosts
  BY <1>1 DEF ReplicaInv, ServerTypes, Posts, Revisions
<1>4. \A t \in Posts : rev'[t] = IF t = s THEN clock + 1 ELSE rev[t]
  BY <1>2, <1>3
<1>5. clock + 1 \in Revisions /\ 0 \in Revisions
  BY <1>1, <1>2, <1>3 DEF Revisions
<1>6. rev' \in [Posts -> Revisions]
  BY <1>2, <1>3, <1>5
<1>7. ServerTypes'
  <2>1. head' \in 0..MaxPosts
    BY <1>1, <1>3 DEF Posts
  <2>2. \A t \in Posts : rev'[t] <= clock' /\ (t <= head' <=> rev'[t] > 0)
    BY <1>2, <1>3, <1>4
  <2> QED BY <1>2, <1>5, <1>6, <2>1, <2>2 DEF ServerTypes
<1>8. \A t \in Posts : rev'[t] \in Nat /\ rev'[t] >= rev[t]
  BY <1>3, <1>4
<1> DEFINE new == [seq |-> s, row |-> LiveRow(rev', s), created |-> created]
<1>9. LiveRow(rev', s) \in Rows /\ LiveRow(rev', s).rev = clock + 1
  <2>1. 1 \in Posts
    BY <1>1 DEF Posts
  <2>2. rev'[s] = clock + 1 /\ rev'[s] \in Revisions /\ rev'[1] \in Revisions
    BY <1>4, <1>6, <2>1
  <2>3. Quote(rev', s) \in Revisions
    BY <1>5, <2>2 DEF Quote
  <2> HIDE DEF Quote
  <2> QED BY <2>2, <2>3 DEF LiveRow, Rows
<1>10. new \in [seq : Posts, row : Rows, created : BOOLEAN] /\ new.seq = s /\ new.row.rev = clock + 1
       /\ new.created = created
  BY <1>9
<1>11. wire' \subseteq wire \cup {new}
  BY <1>2
<1> HIDE DEF new
<1>12. LinkTypes'
  BY <1>2, <1>10, <1>11 DEF ReplicaInv, LinkTypes
<1>13. JobTypes' /\ DiskTypes' /\ WindowClosed'
  BY <1>2, DiskStays, JobsStay
<1>14. \A e \in wire : e.seq \in Posts /\ e.row \in Rows /\ e.row.rev \in Nat
  BY RowType DEF ReplicaInv, LinkTypes
<1>15. AllGenuine'
  <2>1. \A t \in Posts : rows'[t].rev <= rev'[t]
    <3>1. \A t \in Posts : rows'[t].rev = rows[t].rev /\ rows[t].rev <= rev[t] /\ rows[t].rev \in Nat
      BY <1>2, RowType DEF diskVars, ReplicaInv, AllGenuine, DiskTypes
    <3> QED BY <1>3, <1>8, <3>1
  <2>2. \A e \in wire' : e.row.rev > 0 /\ e.row.rev <= rev'[e.seq]
    <3> SUFFICES ASSUME NEW e \in wire' PROVE e.row.rev > 0 /\ e.row.rev <= rev'[e.seq]
      OBVIOUS
    <3>1. CASE e = new
      BY <1>3, <1>4, <1>10, <3>1
    <3>2. CASE e \in wire
      BY <1>3, <1>8, <1>14, <3>2 DEF ReplicaInv, AllGenuine
    <3> QED BY <1>11, <3>1, <3>2
  <2>3. ASSUME NEW e \in wire', e.created, NEW t \in Posts, t > e.seq, t <= head'
        PROVE  rev'[t] > e.row.rev
    <3>1. CASE e = new
      BY <1>3, <1>10, <2>3, <3>1
    <3>2. CASE e \in wire
      <4>1. e.row.rev <= rev[e.seq] /\ rev[e.seq] <= clock
        BY <1>3, <1>14, <3>2 DEF ReplicaInv, AllGenuine
      <4>2. CASE t = s
        <5>1. rev'[t] = clock + 1 /\ e.row.rev \in Nat /\ rev[e.seq] \in Nat
          BY <1>3, <1>4, <1>14, <3>2, <4>2
        <5> QED BY <1>3, <4>1, <5>1
      <4>3. CASE t # s
        <5>1. t <= head
          BY <1>3, <2>3, <4>3
        <5>2. rev[t] > e.row.rev
          BY <2>3, <3>2, <5>1 DEF ReplicaInv, AllGenuine
        <5> QED BY <1>4, <4>3, <5>2
      <4> QED BY <4>2, <4>3
    <3> QED BY <1>11, <2>3, <3>1, <3>2
  <2>4. \A j \in Jobs : /\ \A t \in DOMAIN job'[j].got : job'[j].got[t].rev \in 1..rev'[t]
                        /\ \A t \in DOMAIN job'[j].page : job'[j].page[t].rev \in 1..rev'[t]
    <3> SUFFICES ASSUME NEW j \in Jobs
                 PROVE  /\ \A t \in DOMAIN job'[j].got : job'[j].got[t].rev \in 1..rev'[t]
                        /\ \A t \in DOMAIN job'[j].page : job'[j].page[t].rev \in 1..rev'[t]
      OBVIOUS
    <3>1. job'[j] = job[j] /\ DOMAIN job[j].got \subseteq Posts /\ DOMAIN job[j].page \subseteq Posts
      BY <1>2, JobIs, PageType
    <3>2. /\ \A t \in DOMAIN job[j].got : job[j].got[t].rev \in 1..rev[t]
          /\ \A t \in DOMAIN job[j].page : job[j].page[t].rev \in 1..rev[t]
      BY JobIs DEF Genuine
    <3> QED BY <1>3, <1>8, <3>1, <3>2
  <2> QED BY <2>1, <2>2, <2>3, <2>4 DEF AllGenuine, Genuine
<1>16. ReplicaInv'
  BY <1>7, <1>12, <1>13, <1>15 DEF ReplicaInv
<1> QED
  BY <1>2, <1>4, <1>10, <1>11, <1>16

LEMMA ServerIs ==
    ASSUME ReplicaInv, ServerNext
    PROVE  \E s \in Posts, created \in BOOLEAN :
              /\ Changes(s, created)
              /\ \/ created /\ s = head + 1 /\ head' = head + 1
                 \/ ~created /\ s <= head /\ head' = head
<1>1. MaxPosts \in Nat /\ head \in 0..MaxPosts
  BY ReplicaAssumption DEF ReplicaAssumption, ReplicaInv, ServerTypes
<1>2. CASE CreatePost
  <2>1. head < MaxPosts /\ Changes(head + 1, TRUE) /\ head' = head + 1
    BY Zenon, <1>2 DEF CreatePost
  <2>2. head + 1 \in Posts
    BY <1>1, <2>1 DEF Posts
  <2> HIDE DEF Changes
  <2> QED BY <2>1, <2>2
<1>3. CASE ChangePost
  <2>1. PICK s \in 1..head : Changes(s, FALSE)
    BY <1>3 DEF ChangePost
  <2>2. s \in Posts /\ s <= head /\ head' = head
    BY <1>1, <1>3 DEF ChangePost, Posts
  <2> HIDE DEF Changes
  <2> QED BY <2>1, <2>2
<1> QED
  BY <1>2, <1>3 DEF ServerNext

LEMMA ServerReplica == ASSUME ReplicaInv, ServerNext PROVE ReplicaInv'
<1>1. PICK s \in Posts : \E created \in BOOLEAN :
              /\ Changes(s, created)
              /\ \/ created /\ s = head + 1 /\ head' = head + 1
                 \/ ~created /\ s <= head /\ head' = head
  BY ServerIs
<1>2. PICK created \in BOOLEAN :
              /\ Changes(s, created)
              /\ \/ created /\ s = head + 1 /\ head' = head + 1
                 \/ ~created /\ s <= head /\ head' = head
  BY <1>1
<1> QED
  BY <1>2, ChangesReplica

\* The event an onPost handles, and what its save does.
LEMMA EventSaves ==
    ASSUME ReplicaInv, HandleEvent
    PROVE  \E e \in wire :
              /\ wire' = wire \ {e} /\ UNCHANGED <<serverVars, connected, job>>
              /\ \A f \in wire : e.row.rev <= f.row.rev
              /\ Saved([s \in {e.seq} |-> e.row], AppendsLive(e), e.created)
              /\ \A s \in Posts : rows'[s].rev <= rev[s]
              /\ phase' \in {phase, "repairing"}
<1>1. PICK e \in wire :
          /\ \A f \in wire : e.row.rev <= f.row.rev
          /\ wire' = wire \ {e}
          /\ SavePosts([s \in {e.seq} |-> e.row], AppendsLive(e), FALSE, e.created)
          /\ phase' = IF phase = "live" /\ Collides([s \in {e.seq} |-> e.row], AppendsLive(e))
                      THEN "repairing" ELSE phase
  BY DEF HandleEvent
<1> DEFINE inc == [s \in {e.seq} |-> e.row]
<1>2. e.seq \in Posts /\ e.row \in Rows /\ e.created \in BOOLEAN
  BY DEF ReplicaInv, LinkTypes
<1>3. inc \in [{e.seq} -> Rows]
  BY <1>2
<1>4. inc \in Pages
  BY <1>2, <1>3, PageIs
<1>5. e.row.rev \in Nat /\ e.row.rev > 0 /\ e.row.rev <= rev[e.seq] /\ rev[e.seq] \in Nat
  BY <1>2, RowType, ReplicaAssumption
  DEF ReplicaInv, AllGenuine, ServerTypes, Revisions, ReplicaAssumption
<1>6. Genuine(inc)
  BY <1>5 DEF Genuine
<1>7. AppendsLive(e) \in BOOLEAN
  BY DEF AppendsLive
<1>8. SavePosts(inc, AppendsLive(e), FALSE, e.created)
  BY <1>1
<1> HIDE DEF inc
<1>9. Saved(inc, AppendsLive(e), e.created) /\ \A s \in Posts : rows'[s].rev <= rev[s]
  BY <1>2, <1>4, <1>6, <1>7, <1>8, SaveGenuine
<1>10. UNCHANGED <<serverVars, connected, job>>
  BY DEF HandleEvent
<1>11. Saved([s \in {e.seq} |-> e.row], AppendsLive(e), e.created)
  BY <1>9 DEF inc
<1>12. phase' \in {phase, "repairing"}
  BY <1>1
<1> HIDE DEF Saved
<1> QED
  BY <1>1, <1>9, <1>10, <1>11, <1>12

LEMMA EventReplica == ASSUME ReplicaInv, HandleEvent PROVE ReplicaInv'
<1>1. PICK e \in wire :
              /\ wire' = wire \ {e} /\ UNCHANGED <<serverVars, connected, job>>
              /\ \A f \in wire : e.row.rev <= f.row.rev
              /\ Saved([s \in {e.seq} |-> e.row], AppendsLive(e), e.created)
              /\ \A s \in Posts : rows'[s].rev <= rev[s]
              /\ phase' \in {phase, "repairing"}
  BY EventSaves
<1>2. DiskTypes' /\ WindowClosed'
  BY <1>1 DEF Saved
<1>3. LinkTypes' /\ wire' \subseteq wire
  BY <1>1 DEF ReplicaInv, LinkTypes
<1>4. JobTypes' /\ \A i \in Jobs : Genuine(job'[i].got) /\ Genuine(job'[i].page)
  BY <1>1, JobsStay
<1> QED
  BY <1>1, <1>2, <1>3, <1>4, ClientKeeps

\* A prefix goes and the record follows.
LEMMA EvictShrinks ==
    ASSUME ReplicaInv, EvictPrefix
    PROVE  /\ DiskTypes' /\ WindowClosed' /\ UNCHANGED <<serverVars, linkVars, job>>
           /\ \A s \in Posts : rows'[s] = rows[s] \/ rows'[s].rev = 0
           /\ \/ cover' = NoCover
              \/ /\ cover # NoCover /\ cover'.newest = cover.newest /\ cover'.oldest >= cover.oldest
                 /\ cover'.known = cover.known /\ cover'.sum = cover.sum
                 /\ cover'.reachedNewest = cover.reachedNewest
                 /\ \A s \in Stored : s >= cover'.oldest => rows'[s] = rows[s]
<1>1. PICK s \in Stored : rows' = Without(rows, 1..s) /\ cover' = Shrunk(Without(rows, 1..s), cover)
  BY DEF EvictPrefix
<1>2. /\ s \in Posts /\ MaxPosts \in Nat /\ s \in Nat /\ \A t \in Stored : t \in Posts /\ t \in Nat /\ t > 0
  BY ReplicaAssumption DEF Stored, StoredIn, Posts, ReplicaAssumption
<1>3. 1..s \subseteq Posts
  BY <1>2 DEF Posts
<1>4. Prefix(1..s, rows)
  BY <1>2 DEF Prefix, Stored
<1>5. rows \in [Posts -> Rows] /\ cover \in CoverRecords /\ Closed(rows, cover)
  BY DEF ReplicaInv, DiskTypes, WindowClosed, Closed, Stored
<1> DEFINE gone == 1..s
           left == Without(rows, gone)
<1>6. cover' = Shrunk(left, cover) /\ rows' = left
  BY <1>1
<1>7. gone \subseteq Posts /\ Prefix(gone, rows)
  BY <1>3, <1>4
<1> HIDE DEF gone
<1>8. /\ cover' \in CoverRecords /\ Closed(left, cover')
      /\ StoredIn(rows) \ gone = {} => cover' = NoCover
      /\ StoredIn(rows) \ gone # {} =>
            /\ cover # NoCover /\ cover'.newest = cover.newest /\ cover'.oldest >= cover.oldest
            /\ cover'.known = cover.known /\ cover'.sum = cover.sum
            /\ cover'.reachedNewest = cover.reachedNewest
            /\ \A t \in gone \cap StoredIn(rows) : t < cover'.oldest
  BY <1>5, <1>6, <1>7, ShrunkCloses
<1>9. rows' \in [Posts -> Rows]
  BY <1>1, <1>5, WithoutType
<1>10. \A t \in Posts : /\ t \in 1..s => rows'[t] = NoPost
                        /\ t \notin 1..s => rows'[t] = rows[t]
  BY <1>1 DEF Without
<1>11. \A t \in Posts : rows'[t] = rows[t] \/ rows'[t].rev = 0
  BY <1>10 DEF NoPost
<1>12. DiskTypes' /\ WindowClosed'
  BY <1>6, <1>8, <1>9 DEF DiskTypes, WindowClosed, Closed, Stored
<1>13. StoredIn(rows) \ gone # {} => \A t \in Stored : t >= cover'.oldest => rows'[t] = rows[t]
  <2> SUFFICES ASSUME StoredIn(rows) \ gone # {}, NEW t \in Stored, t >= cover'.oldest
               PROVE  rows'[t] = rows[t]
    OBVIOUS
  <2>1. cover'.oldest \in Nat
    BY <1>8 DEF CoverRecords
  <2>2. t \notin gone
    BY <1>2, <1>8, <2>1 DEF Stored
  <2> QED BY <1>2, <1>10, <2>2 DEF gone
<1>14. UNCHANGED <<serverVars, linkVars, job>>
  BY DEF EvictPrefix
<1> QED
  BY <1>8, <1>11, <1>12, <1>13, <1>14

LEMMA EvictReplica == ASSUME ReplicaInv, EvictPrefix PROVE ReplicaInv'
<1>1. /\ DiskTypes' /\ WindowClosed' /\ UNCHANGED <<serverVars, linkVars, job>>
      /\ \A s \in Posts : rows'[s] = rows[s] \/ rows'[s].rev = 0
  BY EvictShrinks
<1>2. \A s \in Posts : rev[s] \in Nat /\ rows[s].rev <= rev[s]
  BY ReplicaAssumption DEF ReplicaInv, ServerTypes, Revisions, AllGenuine, ReplicaAssumption
<1>3. \A s \in Posts : rows'[s].rev <= rev[s]
  BY <1>1, <1>2
<1>4. LinkTypes' /\ wire' \subseteq wire
  BY <1>1, LinkStays DEF linkVars
<1>5. JobTypes' /\ \A i \in Jobs : Genuine(job'[i].got) /\ Genuine(job'[i].page)
  BY <1>1, JobsStay
<1> QED
  BY <1>1, <1>3, <1>4, <1>5, ClientKeeps

LEMMA LinkReplica == ASSUME ReplicaInv, LinkNext PROVE ReplicaInv'
<1>1. UNCHANGED <<serverVars, diskVars>> /\ wire' \subseteq wire
  BY DEF LinkNext, Disconnect, Reconnect, Resubscribe, RevisionsRefused, ReplayEnds, Reload
<1>2. LinkTypes'
  BY DEF LinkNext, Disconnect, Reconnect, Resubscribe, RevisionsRefused, ReplayEnds, Reload,
         ReplicaInv, LinkTypes, Scheduled
<1>3. job' = job \/ job' = [j \in Jobs |-> IF job[j].step \in OnTheNet THEN IdleJob ELSE job[j]]
      \/ job' = [j \in Jobs |-> IdleJob]
  BY DEF LinkNext, Disconnect, Reconnect, Resubscribe, RevisionsRefused, ReplayEnds, Reload
<1>4. IdleJob \in JobRecords /\ Genuine(IdleJob.got) /\ Genuine(IdleJob.page)
  <2>1. IdleJob.got = NoRows /\ IdleJob.page = NoRows
    BY DEF IdleJob
  <2> QED BY <2>1, IdleType, NoRowsPage
<1>5. job \in [Jobs -> JobRecords] /\ \A j \in Jobs : Genuine(job[j].got) /\ Genuine(job[j].page)
  BY DEF ReplicaInv, JobTypes, AllGenuine
<1> HIDE DEF IdleJob, JobRecords, Genuine
<1>6. /\ job' \in [Jobs -> JobRecords]
      /\ \A j \in Jobs : Genuine(job'[j].got) /\ Genuine(job'[j].page)
  BY <1>3, <1>4, <1>5
<1>7. JobTypes'
  BY <1>6 DEF JobTypes
<1>8. DiskTypes' /\ WindowClosed' /\ \A s \in Posts : rows'[s].rev <= rev[s]
  BY <1>1, DiskStays
<1> QED
  BY <1>1, <1>2, <1>6, <1>7, <1>8, ClientKeeps

\* Phases only move between their three values.
LinkMoves == /\ UNCHANGED <<connected, wire>>
             /\ phase' \in {phase, "repairing", "replaying"}

LEMMA LinkMovesTypes == ASSUME ReplicaInv, LinkMoves PROVE LinkTypes' /\ wire' \subseteq wire
  BY DEF ReplicaInv, LinkTypes, LinkMoves

LEMMA RequestKeeps ==
    ASSUME ReplicaInv, NEW j \in Jobs, NEW next \in JobRecords, Genuine(next.got), Genuine(next.page),
           Become(j, next), UNCHANGED serverVars, LinkMoves,
           DiskTypes', WindowClosed', \A s \in Posts : rows'[s].rev <= rev[s]
    PROVE  ReplicaInv'
  BY LinkMovesTypes, JobBecomes, ClientKeeps

LEMMA AdvanceKeeps ==
    ASSUME ReplicaInv, NEW revision \in Nat, NEW sum \in Int, Advance(revision, sum), rows' = rows
    PROVE  /\ DiskTypes' /\ WindowClosed' /\ \A s \in Posts : rows'[s].rev <= rev[s]
           /\ cover = NoCover <=> cover' = NoCover
           /\ cover'.oldest = cover.oldest /\ cover'.newest = cover.newest
           /\ cover'.reachedNewest = cover.reachedNewest
           /\ cover # NoCover =>
                 /\ cover'.known = IF revision > cover.known THEN revision ELSE cover.known
                 /\ cover'.sum = IF sum = NoSum THEN cover.sum ELSE sum
           /\ cover = NoCover => cover' = cover
<1>1. cover \in CoverRecords /\ WindowClosed /\ DiskTypes
  BY DEF ReplicaInv, DiskTypes
<1>2. CASE cover = NoCover
  <2>1. UNCHANGED diskVars
    BY <1>2 DEF Advance, diskVars
  <2> QED BY <1>2, <2>1, DiskStays DEF diskVars
<1>3. CASE cover # NoCover
  <2>1. cover' = [cover EXCEPT !.known = IF revision > @ THEN revision ELSE @,
                               !.sum = IF sum = NoSum THEN @ ELSE sum]
    BY <1>3 DEF Advance
  <2>2. /\ cover' \in CoverRecords
        /\ cover'.oldest = cover.oldest /\ cover'.newest = cover.newest
        /\ cover'.reachedNewest = cover.reachedNewest
        /\ cover'.known = IF revision > cover.known THEN revision ELSE cover.known
        /\ cover'.sum = IF sum = NoSum THEN cover.sum ELSE sum
    BY <1>1, <2>1 DEF CoverRecords
  <2>3. cover.oldest \in Posts /\ cover.oldest # 0
    BY <1>1, <1>3, CoverType, PostsFinite
  <2>4. cover' # NoCover
    BY <2>2, <2>3 DEF NoCover
  <2>5. WindowClosed'
    BY <1>1, <1>3, <2>2, <2>4 DEF WindowClosed, Stored
  <2>6. DiskTypes'
    BY <1>1, <2>2 DEF DiskTypes
  <2>7. \A s \in Posts : rows'[s].rev <= rev[s]
    BY DEF ReplicaInv, AllGenuine
  <2> HIDE DEF CoverRecords
  <2> QED BY <1>3, <2>2, <2>4, <2>5, <2>6, <2>7
<1> QED
  BY <1>2, <1>3

-----------------------------------------------------------------------------
(***************************************************************************)
(* The steps of a request: what it becomes, and what that leaves true.     *)
(***************************************************************************)
LEMMA SameStep ==
    ASSUME ReplicaInv, NEW j \in Jobs, NEW next \in JobRecords, Genuine(next.got), Genuine(next.page),
           Become(j, next), UNCHANGED serverVars, LinkMoves, UNCHANGED diskVars
    PROVE  ReplicaInv'
  BY DiskStays, RequestKeeps

LEMMA FrameMoves == PageFrame => UNCHANGED serverVars /\ LinkMoves
  BY DEF PageFrame, LinkMoves, linkVars

LEMMA IdleGenuine == IdleJob \in JobRecords /\ Genuine(IdleJob.got) /\ Genuine(IdleJob.page) /\ IdleJob.step = "idle"
                     /\ IdleJob.got = NoRows /\ IdleJob.page = NoRows
  BY IdleType, NoRowsPage DEF IdleJob

\* What AskPage makes of an idle request.
Asked(way, anchor, revision) ==
    [IdleJob EXCEPT !.step = "asked", !.way = way, !.anchor = anchor, !.through = revision]

LEMMA AskPageIs ==
    ASSUME ReplicaInv, NEW j \in Jobs, AskPage(j)
    PROVE  /\ ReplicaInv' /\ UNCHANGED <<serverVars, diskVars, linkVars>>
           /\ job' = [job EXCEPT ![j] = job'[j]] /\ job'[j].step = "asked" /\ job[j].step = "idle"
           /\ job'[j].through <= clock /\ job'[j].anchor <= head
           /\ job'[j].through = 0 \/ Shown(job'[j].through)
           /\ \/ job'[j].through = 0 \/ "aheadOfCursor" \in Admits
              \/ phase = "live" /\ job'[j].through <= cover.known
              \/ phase = "live" /\ job'[j].way = "latest" /\ cover = NoCover
           /\ job'[j].sum = NoSum
<1>1. MaxPosts \in Nat /\ head \in 0..MaxPosts /\ clock \in Nat
  BY ReplicaAssumption DEF ReplicaAssumption, ReplicaInv, ServerTypes, Revisions
<1>2. PICK way \in {"latest", "before", "after"}, revision \in 0..clock :
          \E anchor \in IF way = "latest" THEN {0} ELSE 1..head :
             /\ revision = 0 \/ Shown(revision)
             /\ \/ revision = 0
                \/ phase = "live" /\ revision <= cover.known
                \/ phase = "live" /\ way = "latest" /\ cover = NoCover
                \/ "aheadOfCursor" \in Admits
             /\ Become(j, Asked(way, anchor, revision))
  BY DEF AskPage, Asked
<1>3. PICK anchor \in IF way = "latest" THEN {0} ELSE 1..head :
             /\ revision = 0 \/ Shown(revision)
             /\ \/ revision = 0
                \/ phase = "live" /\ revision <= cover.known
                \/ phase = "live" /\ way = "latest" /\ cover = NoCover
                \/ "aheadOfCursor" \in Admits
             /\ Become(j, Asked(way, anchor, revision))
  BY <1>2
<1>4. anchor \in 0..MaxPosts /\ anchor <= head /\ revision \in Nat /\ revision <= clock
  BY <1>1, <1>3
<1> DEFINE next == Asked(way, anchor, revision)
<1>5. /\ next \in JobRecords /\ next.got = IdleJob.got /\ next.page = IdleJob.page /\ next.sum = NoSum
      /\ next.step = "asked" /\ next.through = revision /\ next.way = way
      /\ next.anchor = anchor
  BY <1>4, IdleType DEF JobRecords, Steps, IdleJob, Asked
<1> HIDE DEF next
<1>6. Become(j, next)
  BY <1>3 DEF next
<1>7. UNCHANGED diskVars /\ PageFrame /\ job[j].step = "idle"
  BY DEF AskPage
<1>8. UNCHANGED serverVars /\ LinkMoves
  BY <1>7, FrameMoves
<1>9. Genuine(next.got) /\ Genuine(next.page)
  BY <1>5, IdleGenuine
<1>10. ReplicaInv'
  BY <1>5, <1>6, <1>7, <1>8, <1>9, SameStep
<1>11. job'[j] = next
  BY <1>5, <1>6, <1>9, JobBecomes
<1>12. job' = [job EXCEPT ![j] = job'[j]]
  BY <1>6, <1>11 DEF Become
<1> HIDE DEF ReplicaInv, Shown
<1> QED
  BY <1>3, <1>4, <1>5, <1>7, <1>8, <1>10, <1>11, <1>12 DEF PageFrame

LEMMA PageForPosts ==
    ASSUME ServerTypes, NEW way \in {"latest", "before", "after"}, NEW anchor
    PROVE  PageFor(way, anchor) \subseteq 1..head
  BY DEF PageFor

\* What AnswerPage makes of the request.
Answered(j, answer) ==
    [job[j] EXCEPT !.step = "answered", !.got = PageOf(answer),
                   !.atEnd = Cardinality(answer) < PageSize]

LEMMA AnswerPageIs ==
    ASSUME ReplicaInv, NEW j \in Jobs, AnswerPage(j)
    PROVE  /\ ReplicaInv' /\ UNCHANGED <<serverVars, diskVars, linkVars>>
           /\ job' = [job EXCEPT ![j] = job'[j]]
           /\ job[j].step = "asked" /\ job'[j].step = "answered"
           /\ job'[j].through = job[j].through /\ job'[j].sum = job[j].sum
           /\ job'[j].way = job[j].way /\ job'[j].anchor = job[j].anchor
           /\ DOMAIN job'[j].got = PageFor(job[j].way, job[j].anchor)
           /\ \A s \in DOMAIN job'[j].got : job'[j].got[s].rev = rev[s]
           /\ job'[j].atEnd = (Cardinality(PageFor(job[j].way, job[j].anchor)) < PageSize)
<1> DEFINE answer == PageFor(job[j].way, job[j].anchor)
           next == Answered(j, answer)
<1>1. ServerTypes
  BY DEF ReplicaInv
<1>2. answer \subseteq 1..head
  BY <1>1, JobIs, PageForPosts
<1> HIDE DEF answer
<1>3. /\ PageOf(answer) \in Pages /\ Genuine(PageOf(answer)) /\ DOMAIN PageOf(answer) = answer
      /\ \A s \in answer : PageOf(answer)[s].rev = rev[s]
  BY <1>1, <1>2, PageRows
<1>4. job[j] \in JobRecords /\ Genuine(job[j].page)
  BY JobIs
<1>5. /\ next \in JobRecords /\ next.got = PageOf(answer) /\ next.page = job[j].page
      /\ next.step = "answered" /\ next.through = job[j].through /\ next.sum = job[j].sum
      /\ next.way = job[j].way /\ next.anchor = job[j].anchor
      /\ next.atEnd = (Cardinality(answer) < PageSize)
  <2> DEFINE b == Cardinality(answer) < PageSize
             g == PageOf(answer)
             r == job[j]
  <2>1. b \in BOOLEAN /\ g \in Pages /\ r \in JobRecords
    BY <1>3, <1>4
  <2>2. next = [r EXCEPT !.step = "answered", !.got = g, !.atEnd = b]
    BY DEF Answered
  <2> HIDE DEF next, b, g, r
  <2>3. /\ next \in JobRecords /\ next.got = g /\ next.page = r.page
        /\ next.step = "answered" /\ next.through = r.through /\ next.sum = r.sum
        /\ next.way = r.way /\ next.anchor = r.anchor /\ next.atEnd = b
    <3> HIDE DEF Pages
    <3> QED BY <2>1, <2>2 DEF JobRecords, Steps
  <2> QED BY <2>3 DEF b, g, r
<1> HIDE DEF next
<1>6. Become(j, next) /\ UNCHANGED diskVars /\ PageFrame /\ job[j].step = "asked"
  BY DEF AnswerPage, next, answer, Answered
<1>7. UNCHANGED serverVars /\ LinkMoves
  BY <1>6, FrameMoves
<1>8. ReplicaInv'
  BY <1>3, <1>4, <1>5, <1>6, <1>7, SameStep
<1>9. job'[j] = next
  BY <1>3, <1>4, <1>5, <1>6, JobBecomes
<1>10. job' = [job EXCEPT ![j] = job'[j]]
  BY <1>6, <1>9 DEF Become
<1> HIDE DEF ReplicaInv
<1> QED
  BY <1>3, <1>5, <1>6, <1>7, <1>8, <1>9, <1>10 DEF PageFrame, answer

\* A request that only moves on.
LEMMA StepType ==
    ASSUME ReplicaInv, NEW j \in Jobs, NEW step \in Steps, NEW next, next = [job[j] EXCEPT !.step = step]
    PROVE  /\ next \in JobRecords /\ Genuine(next.got) /\ Genuine(next.page) /\ next.step = step
           /\ next.got = job[j].got /\ next.page = job[j].page
           /\ next.through = job[j].through /\ next.sum = job[j].sum /\ next.from = job[j].from
           /\ next.way = job[j].way /\ next.anchor = job[j].anchor /\ next.newest = job[j].newest
           /\ next.atEnd = job[j].atEnd
<1>1. job[j] \in JobRecords /\ Genuine(job[j].got) /\ Genuine(job[j].page)
  BY JobIs
<1> DEFINE r == job[j]
<1>2. r \in JobRecords /\ next = [r EXCEPT !.step = step]
  BY <1>1
<1> HIDE DEF r
<1>3. /\ next \in JobRecords /\ next.step = step
      /\ next.got = r.got /\ next.page = r.page
      /\ next.through = r.through /\ next.sum = r.sum /\ next.from = r.from
      /\ next.way = r.way /\ next.anchor = r.anchor /\ next.newest = r.newest
      /\ next.atEnd = r.atEnd
  <2> HIDE DEF Pages, Steps
  <2> QED BY <1>2 DEF JobRecords
<1> QED
  BY <1>1, <1>3 DEF r

\* The request moved on and nothing else of it changed.
MovesTo(j, step) ==
    /\ job' = [job EXCEPT ![j] = job'[j]] /\ job'[j].step = step
    /\ job'[j].got = job[j].got /\ job'[j].page = job[j].page
    /\ job'[j].through = job[j].through /\ job'[j].sum = job[j].sum /\ job'[j].from = job[j].from
    /\ job'[j].way = job[j].way /\ job'[j].anchor = job[j].anchor /\ job'[j].newest = job[j].newest
    /\ job'[j].atEnd = job[j].atEnd

LEMMA MovesStep ==
    ASSUME ReplicaInv, NEW j \in Jobs, NEW step \in Steps, Become(j, [job[j] EXCEPT !.step = step]),
           UNCHANGED serverVars, LinkMoves,
           DiskTypes', WindowClosed', \A s \in Posts : rows'[s].rev <= rev[s]
    PROVE  ReplicaInv' /\ MovesTo(j, step)
<1> DEFINE next == [job[j] EXCEPT !.step = step]
<1>1. /\ next \in JobRecords /\ Genuine(next.got) /\ Genuine(next.page) /\ next.step = step
      /\ next.got = job[j].got /\ next.page = job[j].page
      /\ next.through = job[j].through /\ next.sum = job[j].sum /\ next.from = job[j].from
      /\ next.way = job[j].way /\ next.anchor = job[j].anchor /\ next.newest = job[j].newest
      /\ next.atEnd = job[j].atEnd
  <2>1. next = [job[j] EXCEPT !.step = step]
    OBVIOUS
  <2> HIDE DEF next
  <2> QED BY <2>1, StepType
<1>2. Become(j, next)
  OBVIOUS
<1> HIDE DEF next
<1>3. ReplicaInv' /\ job'[j] = next
  BY <1>1, <1>2, RequestKeeps, JobBecomes
<1>4. job' = [job EXCEPT ![j] = job'[j]]
  BY <1>2, <1>3 DEF Become
<1> HIDE DEF ReplicaInv
<1> QED
  BY <1>1, <1>3, <1>4 DEF MovesTo

\* The request is over.
Over(j) == job' = [job EXCEPT ![j] = IdleJob]

LEMMA OverStep ==
    ASSUME ReplicaInv, NEW j \in Jobs, Become(j, IdleJob), UNCHANGED serverVars, LinkMoves,
           DiskTypes', WindowClosed', \A s \in Posts : rows'[s].rev <= rev[s]
    PROVE  ReplicaInv' /\ Over(j)
<1>1. IdleJob \in JobRecords /\ Genuine(IdleJob.got) /\ Genuine(IdleJob.page)
  BY IdleGenuine
<1> QED
  BY <1>1, RequestKeeps DEF Over, Become

LEMMA ConnectPageIs ==
    ASSUME ReplicaInv, NEW j \in Jobs, ConnectPage(j)
    PROVE  /\ ReplicaInv' /\ UNCHANGED <<serverVars, linkVars>> /\ job[j].step = "answered"
           /\ MovesTo(j, "store") \/ MovesTo(j, "advance")
           /\ MovesTo(j, "store") =>
                 /\ DOMAIN job[j].got # {}
                 /\ job[j].way # "latest" => UNCHANGED diskVars /\ cover # NoCover /\ job[j].anchor \in Stored
                 /\ job[j].way = "latest" =>
                       \/ cover' = NoCover
                       \/ UNCHANGED diskVars /\ DOMAIN job[j].got \cap Stored # {}
           /\ UNCHANGED diskVars \/ cover' = NoCover
<1> DEFINE r == job[j]
           use == DOMAIN r.got # {} /\ (r.way = "latest" \/ Connects(r))
           fresh == use /\ r.way = "latest" /\ cover # NoCover /\ DOMAIN r.got \cap Stored = {}
           step == IF use THEN "store" ELSE "advance"
<1>1. /\ r.step = "answered" /\ PageFrame
      /\ IF fresh THEN rows' = Without(rows, Posts) /\ cover' = NoCover ELSE UNCHANGED diskVars
      /\ Become(j, [job[j] EXCEPT !.step = step])
  BY DEF ConnectPage
<1>2. step \in Steps
  BY DEF Steps
<1>3. UNCHANGED serverVars /\ LinkMoves /\ UNCHANGED linkVars
  BY <1>1, FrameMoves DEF PageFrame
<1>4. DiskTypes' /\ WindowClosed' /\ \A s \in Posts : rows'[s].rev <= rev[s]
  <2>1. CASE fresh
    <3>1. rows' = Without(rows, Posts) /\ cover' = NoCover /\ rows \in [Posts -> Rows]
      BY <1>1, <2>1 DEF ReplicaInv, DiskTypes
    <3>2. rows' \in [Posts -> Rows] /\ StoredIn(rows') = {}
      <4>1. StoredIn(rows) \ Posts = {}
        BY StoredPosts
      <4> QED BY <3>1, <4>1, WithoutType
    <3>3. \A s \in Posts : rows'[s].rev = 0 /\ rev[s] \in Nat
      BY <3>1, ReplicaAssumption DEF Without, NoPost, ReplicaInv, ServerTypes, Revisions, ReplicaAssumption
    <3> QED BY <3>1, <3>2, <3>3, NoCoverType DEF DiskTypes, WindowClosed, Stored
  <2>2. CASE ~fresh
    BY <1>1, <2>2, DiskStays
  <2> QED BY <2>1, <2>2
<1> HIDE DEF step, use
<1>5. ReplicaInv' /\ MovesTo(j, step)
  BY <1>1, <1>2, <1>3, <1>4, MovesStep
<1>6. UNCHANGED diskVars \/ cover' = NoCover
  BY <1>1
<1>7. ASSUME MovesTo(j, "store")
      PROVE  /\ DOMAIN r.got # {}
             /\ r.way # "latest" => UNCHANGED diskVars /\ cover # NoCover /\ r.anchor \in Stored
             /\ r.way = "latest" =>
                   \/ cover' = NoCover
                   \/ UNCHANGED diskVars /\ DOMAIN r.got \cap Stored # {}
  <2>1. use
    BY <1>5, <1>7 DEF step, MovesTo
  <2>2. r.way # "latest" => cover # NoCover /\ r.anchor \in Stored
    BY <2>1 DEF use, Connects
  <2>3. CASE fresh
    BY <1>1, <2>1, <2>3 DEF use
  <2>4. CASE ~fresh
    <3>1. UNCHANGED diskVars
      BY <1>1, <2>4
    <3>2. r.way = "latest" => cover = NoCover \/ DOMAIN r.got \cap Stored # {}
      BY <2>1, <2>4
    <3> QED BY <2>1, <2>2, <3>1, <3>2 DEF use, diskVars
  <2> QED BY <2>3, <2>4
<1>8. MovesTo(j, "store") \/ MovesTo(j, "advance")
  BY <1>5 DEF step
<1> HIDE DEF ReplicaInv, MovesTo
<1> QED
  BY <1>1, <1>3, <1>5, <1>6, <1>7, <1>8

LEMMA StorePageIs ==
    ASSUME ReplicaInv, NEW j \in Jobs, StorePage(j)
    PROVE  /\ ReplicaInv' /\ UNCHANGED <<serverVars, linkVars>> /\ job[j].step = "store"
           /\ Saved(job[j].got, TRUE, job[j].way = "latest" \/ (job[j].way = "after" /\ job[j].atEnd))
           /\ \/ Over(j)
              \/ MovesTo(j, "advance") /\ ~Collides(job[j].got, TRUE)
<1> DEFINE rn == job[j].way = "latest" \/ (job[j].way = "after" /\ job[j].atEnd)
           ro == job[j].way = "before" /\ job[j].atEnd
<1>1. /\ job[j].step = "store" /\ PageFrame /\ SavePosts(job[j].got, TRUE, ro, rn)
      /\ Become(j, IF Collides(job[j].got, TRUE) THEN IdleJob ELSE [job[j] EXCEPT !.step = "advance"])
  BY DEF StorePage
<1>2. UNCHANGED serverVars /\ LinkMoves /\ UNCHANGED linkVars
  BY <1>1, FrameMoves DEF PageFrame
<1>3. rn \in BOOLEAN /\ ro \in BOOLEAN
  BY JobIs
<1>4. job[j].got \in Pages /\ Genuine(job[j].got)
  BY JobIs
<1> HIDE DEF rn, ro
<1>5. /\ Saved(job[j].got, TRUE, rn) /\ DiskTypes' /\ WindowClosed'
      /\ \A s \in Posts : rows'[s].rev <= rev[s]
  BY <1>1, <1>3, <1>4, SaveGenuine
<1>6. CASE Collides(job[j].got, TRUE)
  <2>1. Become(j, IdleJob)
    BY <1>1, <1>6
  <2>2. ReplicaInv' /\ Over(j)
    BY <1>2, <1>5, <2>1, OverStep
  <2> HIDE DEF ReplicaInv, Saved
  <2> QED BY <1>1, <1>2, <1>5, <2>2 DEF rn
<1>7. CASE ~Collides(job[j].got, TRUE)
  <2>1. Become(j, [job[j] EXCEPT !.step = "advance"]) /\ "advance" \in Steps
    BY <1>1, <1>7 DEF Steps
  <2>2. ReplicaInv' /\ MovesTo(j, "advance")
    BY <1>2, <1>5, <2>1, MovesStep
  <2> HIDE DEF ReplicaInv, Saved, Collides, MovesTo
  <2> QED BY <1>1, <1>2, <1>5, <1>7, <2>2 DEF rn
<1> QED
  BY <1>6, <1>7

\* The cursor of the window went to revision, and the record kept the rest.
Advanced(revision, sum) ==
    /\ rows' = rows /\ (cover = NoCover <=> cover' = NoCover)
    /\ cover'.oldest = cover.oldest /\ cover'.newest = cover.newest
    /\ cover'.reachedNewest = cover.reachedNewest
    /\ cover # NoCover =>
          /\ cover'.known = IF revision > cover.known THEN revision ELSE cover.known
          /\ cover'.sum = IF sum = NoSum THEN cover.sum ELSE sum
    /\ cover = NoCover => cover' = cover

LEMMA AdvanceAfterPageIs ==
    ASSUME ReplicaInv, NEW j \in Jobs, AdvanceAfterPage(j)
    PROVE  /\ ReplicaInv' /\ UNCHANGED <<serverVars, linkVars>> /\ job[j].step = "advance"
           /\ Advanced(job[j].through, NoSum) /\ Over(j)
<1>1. /\ job[j].step = "advance" /\ PageFrame /\ Advance(job[j].through, NoSum)
      /\ Become(j, IdleJob) /\ rows' = rows
  BY DEF AdvanceAfterPage
<1>2. UNCHANGED serverVars /\ LinkMoves /\ UNCHANGED linkVars
  BY <1>1, FrameMoves DEF PageFrame
<1>3. job[j].through \in Nat /\ NoSum \in Int
  BY JobIs DEF NoSum
<1>4. /\ DiskTypes' /\ WindowClosed' /\ \A s \in Posts : rows'[s].rev <= rev[s]
      /\ Advanced(job[j].through, NoSum)
  BY <1>1, <1>3, AdvanceKeeps DEF Advanced
<1>5. ReplicaInv' /\ Over(j)
  BY <1>1, <1>2, <1>4, OverStep
<1> HIDE DEF ReplicaInv, Advanced
<1> QED
  BY <1>1, <1>2, <1>4, <1>5

LEMMA AskRevisionsIs ==
    ASSUME ReplicaInv, NEW j \in Jobs, AskRevisions(j)
    PROVE  /\ ReplicaInv' /\ UNCHANGED <<serverVars, linkVars, diskVars>> /\ job[j].step = "idle"
           /\ job' = [job EXCEPT ![j] = job'[j]] /\ job'[j].step = "compare"
           /\ job'[j].through = clock /\ job'[j].sum = RevisionSum
<1> DEFINE sum == RevisionSum
           next == [IdleJob EXCEPT !.step = "compare", !.through = clock, !.sum = sum]
<1>1. Become(j, next) /\ UNCHANGED diskVars /\ PageFrame /\ job[j].step = "idle"
  BY DEF AskRevisions
<1>2. sum \in Nat
  BY RevisionSumNat DEF ReplicaInv
<1>3. clock \in Nat
  BY ReplicaAssumption DEF ReplicaInv, ServerTypes, Revisions, ReplicaAssumption
<1> HIDE DEF sum
<1>4. /\ next \in JobRecords /\ next.got = IdleJob.got /\ next.page = IdleJob.page
      /\ next.step = "compare" /\ next.through = clock /\ next.sum = sum
  <2> DEFINE r == IdleJob
             c == clock
  <2>1. next = [r EXCEPT !.step = "compare", !.through = c, !.sum = sum]
    OBVIOUS
  <2>2. r \in JobRecords /\ c \in Nat /\ sum \in Int
    BY <1>2, <1>3, IdleType
  <2>3. "compare" \in Steps
    BY DEF Steps
  <2> HIDE DEF next, r, c, Steps, Pages
  <2>4. /\ next \in JobRecords /\ next.got = r.got /\ next.page = r.page
        /\ next.step = "compare" /\ next.through = c /\ next.sum = sum
    BY <2>1, <2>2, <2>3 DEF JobRecords
  <2> QED BY <2>4 DEF r, c
<1> HIDE DEF next
<1>5. UNCHANGED serverVars /\ LinkMoves /\ UNCHANGED linkVars
  BY <1>1, FrameMoves DEF PageFrame
<1>6. Genuine(next.got) /\ Genuine(next.page)
  BY <1>4, IdleGenuine
<1>7. ReplicaInv'
  BY <1>1, <1>4, <1>5, <1>6, SameStep
<1>8. job'[j] = next
  BY <1>1, <1>4, <1>6, JobBecomes
<1>9. job' = [job EXCEPT ![j] = job'[j]]
  BY <1>1, <1>8 DEF Become
<1> HIDE DEF ReplicaInv
<1> QED
  BY <1>1, <1>4, <1>5, <1>7, <1>8, <1>9 DEF sum

LEMMA CompareRevisionsIs ==
    ASSUME ReplicaInv, NEW j \in Jobs, CompareRevisions(j)
    PROVE  /\ ReplicaInv' /\ UNCHANGED <<serverVars, diskVars, connected, wire>>
           /\ job[j].step = "compare"
           /\ \/ Over(j)
              \/ /\ job' = [job EXCEPT ![j] = job'[j]] /\ job'[j].from = cover.known
                 /\ job'[j].step \in {"commit", "range"}
                 /\ job'[j].step = "commit" => job[j].through <= cover.known
                 /\ job'[j].through = job[j].through /\ job'[j].sum = job[j].sum
<1>1. job[j].step = "compare" /\ UNCHANGED <<serverVars, diskVars, connected, wire>>
  BY DEF CompareRevisions
<1>2. DiskTypes' /\ WindowClosed' /\ \A s \in Posts : rows'[s].rev <= rev[s]
  BY <1>1, DiskStays
<1>3. CASE cover # NoCover /\ cover.sum = job[j].sum
  <2>1. Become(j, IdleJob) /\ phase' = Replays
    BY <1>3 DEF CompareRevisions
  <2>2. LinkMoves
    BY <1>1, <2>1 DEF LinkMoves, Replays
  <2>3. ReplicaInv' /\ Over(j)
    BY <1>1, <1>2, <2>1, <2>2, OverStep
  <2> HIDE DEF ReplicaInv
  <2> QED BY <1>1, <2>3
<1>4. CASE ~(cover # NoCover /\ cover.sum = job[j].sum)
  <2> DEFINE step == IF job[j].through <= cover.known THEN "commit" ELSE "range"
             next == [job[j] EXCEPT !.from = cover.known, !.step = step]
  <2>1. Become(j, next) /\ phase' = phase
    BY <1>4 DEF CompareRevisions
  <2>2. LinkMoves
    BY <1>1, <2>1 DEF LinkMoves
  <2>3. cover.known \in Nat
    BY CoverType DEF ReplicaInv
  <2>4. job[j] \in JobRecords /\ Genuine(job[j].got) /\ Genuine(job[j].page)
    BY JobIs
  <2>5. /\ next \in JobRecords /\ next.got = job[j].got /\ next.page = job[j].page
        /\ next.step = step /\ next.from = cover.known /\ next.through = job[j].through
        /\ next.sum = job[j].sum
    <3> DEFINE r == job[j]
               k == cover.known
    <3>1. next = [r EXCEPT !.from = k, !.step = step] /\ r \in JobRecords /\ k \in Nat
      BY <2>3, <2>4
    <3>2. step \in Steps
      BY DEF Steps
    <3> HIDE DEF next, r, k, step, Pages, Steps
    <3>3. /\ next \in JobRecords /\ next.got = r.got /\ next.page = r.page
          /\ next.step = step /\ next.from = k /\ next.through = r.through /\ next.sum = r.sum
      BY <3>1, <3>2 DEF JobRecords
    <3> QED BY <3>3 DEF r, k
  <2> HIDE DEF next
  <2>6. Genuine(next.got) /\ Genuine(next.page)
    BY <2>4, <2>5
  <2>7. ReplicaInv' /\ job'[j] = next
    BY <1>1, <1>2, <2>1, <2>2, <2>5, <2>6, RequestKeeps, JobBecomes
  <2>8. job' = [job EXCEPT ![j] = job'[j]]
    BY <2>1, <2>7 DEF Become
  <2> HIDE DEF ReplicaInv
  <2> QED BY <1>1, <2>5, <2>7, <2>8
<1> QED
  BY <1>3, <1>4

LEMMA RevalidateIs ==
    ASSUME ReplicaInv, NEW j \in Jobs, Revalidate(j)
    PROVE  /\ ReplicaInv' /\ UNCHANGED <<serverVars, linkVars, diskVars>> /\ job[j].step = "idle"
           /\ job' = [job EXCEPT ![j] = job'[j]] /\ job'[j].step = "range"
           /\ job'[j].through <= clock /\ job'[j].sum = NoSum
           /\ job'[j].from <= cover.known \/ "aheadOfCursor" \in Admits
<1>1. PICK through \in 1..clock : \E applied \in 0..(through - 1) :
          /\ applied <= cover.known \/ "aheadOfCursor" \in Admits
          /\ Become(j, [IdleJob EXCEPT !.step = "range", !.from = applied, !.through = through])
  BY DEF Revalidate
<1>2. PICK applied \in 0..(through - 1) :
          /\ applied <= cover.known \/ "aheadOfCursor" \in Admits
          /\ Become(j, [IdleJob EXCEPT !.step = "range", !.from = applied, !.through = through])
  BY <1>1
<1>3. clock \in Nat
  BY ReplicaAssumption DEF ReplicaInv, ServerTypes, Revisions, ReplicaAssumption
<1>4. through \in Nat /\ through <= clock /\ applied \in Nat
  BY <1>3
<1> DEFINE next == [IdleJob EXCEPT !.step = "range", !.from = applied, !.through = through]
<1>5. /\ next \in JobRecords /\ next.got = IdleJob.got /\ next.page = IdleJob.page /\ next.sum = NoSum
      /\ next.step = "range" /\ next.through = through /\ next.from = applied
  BY <1>4, IdleType DEF JobRecords, Steps, IdleJob
<1>6. Become(j, next) /\ UNCHANGED diskVars /\ PageFrame /\ job[j].step = "idle"
  BY <1>2 DEF Revalidate
<1> HIDE DEF next
<1>7. UNCHANGED serverVars /\ LinkMoves /\ UNCHANGED linkVars
  BY <1>6, FrameMoves DEF PageFrame
<1>8. Genuine(next.got) /\ Genuine(next.page)
  BY <1>5, IdleGenuine
<1>9. ReplicaInv'
  BY <1>5, <1>6, <1>7, <1>8, SameStep
<1>10. job'[j] = next
  BY <1>5, <1>6, <1>8, JobBecomes
<1>11. job' = [job EXCEPT ![j] = job'[j]]
  BY <1>6, <1>10 DEF Become
<1> HIDE DEF ReplicaInv
<1> QED
  BY <1>2, <1>4, <1>5, <1>6, <1>7, <1>9, <1>10, <1>11

\* The posts a page of the range of request j is taken from.
ChangedFor(j) == {s \in 1..head : rev[s] > job[j].from /\ rev[s] <= job[j].through}

LEMMA AnswerRangeIs ==
    ASSUME ReplicaInv, NEW j \in Jobs, AnswerRange(j)
    PROVE  /\ ReplicaInv' /\ UNCHANGED <<serverVars, linkVars, diskVars>> /\ job[j].step = "range"
           /\ job' = [job EXCEPT ![j] = job'[j]] /\ job'[j].step = "page"
           /\ job'[j].through = job[j].through /\ job'[j].sum = job[j].sum
           /\ job'[j].from = job[j].from /\ job'[j].got = job[j].got
           /\ DOMAIN job'[j].page = CutByRevision(ChangedFor(j))
           /\ \A s \in DOMAIN job'[j].page : job'[j].page[s].rev = rev[s]
<1> DEFINE cut == CutByRevision(ChangedFor(j))
           p == PageOf(cut)
           next == [job[j] EXCEPT !.step = "page", !.page = p]
<1>1. cut \subseteq 1..head
  BY DEF CutByRevision, ChangedFor
<1> HIDE DEF cut
<1>2. /\ p \in Pages /\ Genuine(p) /\ DOMAIN p = cut
      /\ \A s \in cut : p[s].rev = rev[s]
  BY <1>1, PageRows DEF ReplicaInv
<1>3. /\ job[j].step = "range" /\ UNCHANGED diskVars /\ PageFrame
      /\ Become(j, next)
  BY DEF AnswerRange, cut, ChangedFor
<1>4. job[j] \in JobRecords /\ Genuine(job[j].got)
  BY JobIs
<1>5. /\ next \in JobRecords /\ next.got = job[j].got /\ next.page = p
      /\ next.step = "page" /\ next.from = job[j].from /\ next.through = job[j].through
      /\ next.sum = job[j].sum
  <2> DEFINE r == job[j]
  <2>1. next = [r EXCEPT !.step = "page", !.page = p] /\ r \in JobRecords
    BY <1>4
  <2>2. "page" \in Steps
    BY DEF Steps
  <2> HIDE DEF next, r, p, Pages, Steps
  <2>3. /\ next \in JobRecords /\ next.got = r.got /\ next.page = p
        /\ next.step = "page" /\ next.from = r.from /\ next.through = r.through /\ next.sum = r.sum
    BY <1>2, <2>1, <2>2 DEF JobRecords
  <2> QED BY <2>3 DEF r
<1> HIDE DEF next, p
<1>6. UNCHANGED serverVars /\ LinkMoves /\ UNCHANGED linkVars
  BY <1>3, FrameMoves DEF PageFrame
<1>7. Genuine(next.got) /\ Genuine(next.page)
  BY <1>2, <1>4, <1>5
<1>8. ReplicaInv'
  BY <1>3, <1>5, <1>6, <1>7, SameStep
<1>9. job'[j] = next
  BY <1>3, <1>5, <1>7, JobBecomes
<1>10. job' = [job EXCEPT ![j] = job'[j]]
  BY <1>3, <1>9 DEF Become
<1> HIDE DEF ReplicaInv
<1> QED
  BY <1>2, <1>3, <1>5, <1>6, <1>8, <1>9, <1>10 DEF cut

\* Two sets of rows, those of page first.
Merged(got, page) == [s \in DOMAIN got \cup DOMAIN page |-> IF s \in DOMAIN page THEN page[s] ELSE got[s]]

LEMMA MergedType ==
    ASSUME NEW got \in Pages, NEW page \in Pages, Genuine(got), Genuine(page)
    PROVE  Merged(got, page) \in Pages /\ Genuine(Merged(got, page))
<1>1. /\ DOMAIN got \cup DOMAIN page \subseteq Posts
      /\ \A s \in DOMAIN got : got[s] \in Rows
      /\ \A s \in DOMAIN page : page[s] \in Rows
  BY PageType
<1>2. Merged(got, page) \in [DOMAIN got \cup DOMAIN page -> Rows]
  <2> HIDE DEF Rows
  <2> QED BY <1>1 DEF Merged
<1>3. Merged(got, page) \in Pages
  BY <1>1, <1>2, PageIs
<1>4. \A s \in DOMAIN Merged(got, page) :
         Merged(got, page)[s].rev \in 1..rev[s]
  BY DEF Merged, Genuine
<1> QED
  BY <1>3, <1>4 DEF Genuine

LEMMA StoreRangePageIs ==
    ASSUME ReplicaInv, NEW j \in Jobs, StoreRangePage(j)
    PROVE  /\ ReplicaInv' /\ UNCHANGED <<serverVars, linkVars>> /\ job[j].step = "page"
           /\ Saved(job[j].page, FALSE, FALSE)
           /\ job' = [job EXCEPT ![j] = job'[j]]
           /\ job'[j].through = job[j].through /\ job'[j].sum = job[j].sum
           /\ job'[j].got = Merged(job[j].got, job[j].page)
           /\ \/ /\ job'[j].step = "commit" /\ job'[j].from = job[j].from
                 /\ Cardinality(DOMAIN job[j].page) < RangeLimit
              \/ /\ job'[j].step = "range" /\ DOMAIN job[j].page # {}
                 /\ \A s \in DOMAIN job[j].page : job[j].page[s].rev <= job'[j].from
                 /\ \E s \in DOMAIN job[j].page : job[j].page[s].rev = job'[j].from
<1> DEFINE r == job[j]
           last == Cardinality(DOMAIN r.page) < RangeLimit
           revs == {r.page[s].rev : s \in DOMAIN r.page}
           step == IF last THEN "commit" ELSE "range"
           from == IF last THEN r.from ELSE Max(revs)
           g == Merged(r.got, r.page)
           next == [r EXCEPT !.step = step, !.from = from, !.got = g, !.page = NoRows]
<1>1. /\ r.step = "page" /\ PageFrame /\ SavePosts(r.page, FALSE, FALSE, FALSE) /\ Become(j, next)
  BY DEF StoreRangePage, Merged
<1>2. r \in JobRecords /\ r.got \in Pages /\ r.page \in Pages /\ Genuine(r.got) /\ Genuine(r.page)
      /\ r.from \in Nat
  BY JobIs
<1>3. /\ Saved(r.page, FALSE, FALSE) /\ DiskTypes' /\ WindowClosed'
      /\ \A s \in Posts : rows'[s].rev <= rev[s]
  BY <1>1, <1>2, SaveGenuine
<1>4. ~last => /\ Max(revs) \in revs /\ \A y \in revs : y <= Max(revs)
               /\ DOMAIN r.page # {} /\ revs \subseteq Nat
  <2> SUFFICES ASSUME ~last
               PROVE  /\ Max(revs) \in revs /\ \A y \in revs : y <= Max(revs)
                      /\ DOMAIN r.page # {} /\ revs \subseteq Nat
    OBVIOUS
  <2>1. RangeLimit \in Nat \ {0}
    BY ReplicaAssumption DEF ReplicaAssumption
  <2>2. DOMAIN r.page \subseteq Posts /\ \A s \in DOMAIN r.page : r.page[s] \in Rows
    BY <1>2, PageType
  <2>3. IsFiniteSet(DOMAIN r.page)
    BY <2>2, PostsFinite, FS_Subset
  <2>4. DOMAIN r.page # {}
    <3>1. Cardinality({}) = 0
      BY FS_EmptySet
    <3> QED BY <2>1, <3>1
  <2>5. \A s \in DOMAIN r.page : r.page[s].rev \in Nat
    BY <2>2, RowType
  <2>6. IsFiniteSet(revs)
    <3> DEFINE f == [s \in DOMAIN r.page |-> r.page[s].rev]
    <3>1. f \in Surjection(DOMAIN r.page, revs)
      BY DEF Surjection
    <3> HIDE DEF f, revs
    <3> QED BY <2>3, <3>1, FS_Surjection
  <2>7. revs \subseteq Nat /\ revs # {}
    BY <2>4, <2>5
  <2>8. revs \subseteq Int
    BY <2>7
  <2> HIDE DEF revs, last, r
  <2> QED BY <2>4, <2>6, <2>7, <2>8, Greatest
<1>5. g \in Pages /\ Genuine(g)
  BY <1>2, MergedType
<1>6. from \in Nat
  BY <1>2, <1>4
<1>7. /\ next \in JobRecords /\ next.got = g /\ next.page = NoRows
      /\ next.step = step /\ next.from = from /\ next.through = r.through /\ next.sum = r.sum
  <2>1. next = [r EXCEPT !.step = step, !.from = from, !.got = g, !.page = NoRows]
    OBVIOUS
  <2>2. step \in Steps
    BY DEF Steps
  <2>3. NoRows \in Pages
    BY NoRowsPage
  <2> HIDE DEF next, r, g, from, step, Pages, Steps, NoRows
  <2> QED BY <1>2, <1>5, <1>6, <2>1, <2>2, <2>3 DEF JobRecords
<1> HIDE DEF next
<1>8. UNCHANGED serverVars /\ LinkMoves /\ UNCHANGED linkVars
  BY <1>1, FrameMoves DEF PageFrame
<1>9. Genuine(next.got) /\ Genuine(next.page)
  BY <1>5, <1>7, NoRowsPage
<1>10. ReplicaInv' /\ job'[j] = next
  BY <1>1, <1>3, <1>7, <1>8, <1>9, RequestKeeps, JobBecomes
<1>11. job' = [job EXCEPT ![j] = job'[j]]
  BY <1>1, <1>10 DEF Become
<1>12. \/ step = "commit" /\ from = r.from /\ last
       \/ /\ step = "range" /\ DOMAIN r.page # {}
          /\ \A s \in DOMAIN r.page : r.page[s].rev <= from
          /\ \E s \in DOMAIN r.page : r.page[s].rev = from
  BY <1>4
<1> HIDE DEF ReplicaInv, Saved, step, from, g
<1> QED
  BY <1>1, <1>3, <1>7, <1>8, <1>10, <1>11, <1>12 DEF g

\* The end of a pull.
LEMMA EndsIs ==
    ASSUME ReplicaInv, NEW j \in Jobs, Ends(j), UNCHANGED <<serverVars, connected, wire>>,
           DiskTypes', WindowClosed', \A s \in Posts : rows'[s].rev <= rev[s]
    PROVE  ReplicaInv' /\ Over(j)
<1>1. Become(j, IdleJob) /\ LinkMoves
  BY DEF Ends, LinkMoves, Replays
<1> QED
  BY <1>1, OverStep

LEMMA CommitReadsIs ==
    ASSUME ReplicaInv, NEW j \in Jobs, CommitReads(j)
    PROVE  /\ ReplicaInv' /\ UNCHANGED <<serverVars, diskVars, connected, wire>>
           /\ job[j].step = "commit"
           /\ \/ Over(j)
              \/ /\ job' = [job EXCEPT ![j] = job'[j]] /\ cover # NoCover
                 /\ job'[j].step = "merge" /\ job'[j].newest = cover.newest
                 /\ job'[j].atEnd = cover.reachedNewest
                 /\ job'[j].through = job[j].through /\ job'[j].sum = job[j].sum
                 /\ job'[j].from = job[j].from /\ job'[j].got = job[j].got
<1>1. job[j].step = "commit" /\ UNCHANGED <<serverVars, diskVars, connected, wire>>
  BY DEF CommitReads
<1>2. DiskTypes' /\ WindowClosed' /\ \A s \in Posts : rows'[s].rev <= rev[s]
  BY <1>1, DiskStays
<1>3. CASE cover = NoCover
  <2>1. Ends(j)
    BY <1>3 DEF CommitReads
  <2>2. ReplicaInv' /\ Over(j)
    BY <1>1, <1>2, <2>1, EndsIs
  <2> HIDE DEF ReplicaInv
  <2> QED BY <1>1, <2>2
<1>4. CASE cover # NoCover
  <2> DEFINE n == cover.newest
             b == cover.reachedNewest
             r == job[j]
             next == [r EXCEPT !.step = "merge", !.newest = n, !.atEnd = b]
  <2>1. Become(j, next) /\ phase' = phase
    BY <1>4 DEF CommitReads
  <2>2. LinkMoves
    BY <1>1, <2>1 DEF LinkMoves
  <2>3. n \in 0..MaxPosts /\ b \in BOOLEAN
    BY DEF ReplicaInv, DiskTypes, CoverRecords
  <2>4. r \in JobRecords /\ Genuine(r.got) /\ Genuine(r.page)
    BY JobIs
  <2>5. "merge" \in Steps
    BY DEF Steps
  <2>6. next = [r EXCEPT !.step = "merge", !.newest = n, !.atEnd = b]
    OBVIOUS
  <2> HIDE DEF next, r, n, b
  <2>7. /\ next \in JobRecords /\ next.got = r.got /\ next.page = r.page
        /\ next.step = "merge" /\ next.from = r.from /\ next.through = r.through
        /\ next.sum = r.sum /\ next.newest = n /\ next.atEnd = b
    <3> HIDE DEF Pages, Steps
    <3> QED BY <2>3, <2>4, <2>5, <2>6 DEF JobRecords
  <2>8. Genuine(next.got) /\ Genuine(next.page)
    BY <2>4, <2>7
  <2>9. ReplicaInv' /\ job'[j] = next
    BY <1>1, <1>2, <2>1, <2>2, <2>7, <2>8, RequestKeeps, JobBecomes
  <2>10. job' = [job EXCEPT ![j] = job'[j]]
    BY <2>1, <2>9 DEF Become
  <2> HIDE DEF ReplicaInv
  <2> QED BY <1>1, <1>4, <2>7, <2>9, <2>10 DEF n, b, r
<1> QED
  BY <1>3, <1>4

LEMMA CommitMergesIs ==
    ASSUME ReplicaInv, NEW j \in Jobs, CommitMerges(j)
    PROVE  /\ ReplicaInv' /\ UNCHANGED <<serverVars, connected, wire>> /\ job[j].step = "merge"
           /\ Saved(job[j].got, FALSE, FALSE)
           /\ \/ Over(j)
              \/ /\ ~Collides(job[j].got, FALSE)
                 /\ MovesTo(j, "append") /\ job[j].atEnd
              \/ /\ ~Collides(job[j].got, FALSE)
                 /\ MovesTo(j, "publish") /\ (~job[j].atEnd \/ Beyond(job[j]) = {})
<1> DEFINE r == job[j]
           step == IF r.atEnd /\ Beyond(r) # {} THEN "append" ELSE "publish"
<1>1. /\ r.step = "merge" /\ SavePosts(r.got, FALSE, FALSE, FALSE)
      /\ UNCHANGED <<serverVars, connected, wire>>
      /\ IF Collides(r.got, FALSE) THEN Ends(j)
         ELSE Become(j, [job[j] EXCEPT !.step = step]) /\ UNCHANGED phase
  BY DEF CommitMerges
<1>2. r.got \in Pages /\ Genuine(r.got)
  BY JobIs
<1>3. /\ Saved(r.got, FALSE, FALSE) /\ DiskTypes' /\ WindowClosed'
      /\ \A s \in Posts : rows'[s].rev <= rev[s]
  BY <1>1, <1>2, SaveGenuine
<1>4. CASE Collides(r.got, FALSE)
  <2>1. ReplicaInv' /\ Over(j)
    BY <1>1, <1>3, <1>4, EndsIs
  <2> HIDE DEF ReplicaInv, Saved
  <2> QED BY <1>1, <1>3, <2>1
<1>5. CASE ~Collides(r.got, FALSE)
  <2>1. Become(j, [job[j] EXCEPT !.step = step]) /\ step \in Steps
    BY <1>1, <1>5 DEF Steps
  <2>2. LinkMoves
    BY <1>1, <1>5 DEF LinkMoves
  <2> HIDE DEF step
  <2>3. ReplicaInv' /\ MovesTo(j, step)
    BY <1>1, <1>3, <2>1, <2>2, MovesStep
  <2>4. \/ step = "append" /\ r.atEnd
        \/ step = "publish" /\ (~r.atEnd \/ Beyond(r) = {})
    BY DEF step
  <2> HIDE DEF ReplicaInv, Saved, MovesTo, Collides, Beyond
  <2> QED BY <1>1, <1>3, <1>5, <2>3, <2>4
<1> QED
  BY <1>4, <1>5

\* The posts CommitAppends adds after the end of the window.
More(r) == [s \in Beyond(r) |-> r.got[s]]

LEMMA MoreType ==
    ASSUME ReplicaInv, NEW j \in Jobs
    PROVE  More(job[j]) \in Pages /\ Genuine(More(job[j])) /\ DOMAIN More(job[j]) = Beyond(job[j])
<1>1. job[j].got \in Pages /\ Genuine(job[j].got)
  BY JobIs
<1>2. Beyond(job[j]) \subseteq DOMAIN job[j].got
  BY DEF Beyond
<1>3. DOMAIN job[j].got \subseteq Posts /\ \A s \in DOMAIN job[j].got : job[j].got[s] \in Rows
  BY <1>1, PageType
<1>4. More(job[j]) \in [Beyond(job[j]) -> Rows] /\ DOMAIN More(job[j]) = Beyond(job[j])
  <2> HIDE DEF Rows, Beyond
  <2> QED BY <1>2, <1>3 DEF More
<1> QED
  BY <1>1, <1>2, <1>3, <1>4, PageIs DEF Genuine, More

LEMMA CommitAppendsIs ==
    ASSUME ReplicaInv, NEW j \in Jobs, CommitAppends(j)
    PROVE  /\ ReplicaInv' /\ UNCHANGED <<serverVars, connected, wire>> /\ job[j].step = "append"
           /\ Saved(More(job[j]), TRUE, TRUE)
           /\ \/ Over(j)
              \/ MovesTo(j, "publish") /\ ~Collides(More(job[j]), TRUE)
<1> DEFINE more == More(job[j])
<1>1. /\ job[j].step = "append" /\ SavePosts(more, TRUE, FALSE, TRUE)
      /\ UNCHANGED <<serverVars, connected, wire>>
      /\ IF Collides(more, TRUE) THEN Ends(j)
         ELSE Become(j, [job[j] EXCEPT !.step = "publish"]) /\ UNCHANGED phase
  BY DEF CommitAppends, More
<1>2. more \in Pages /\ Genuine(more)
  BY MoreType
<1> HIDE DEF more
<1>3. /\ Saved(more, TRUE, TRUE) /\ DiskTypes' /\ WindowClosed'
      /\ \A s \in Posts : rows'[s].rev <= rev[s]
  BY <1>1, <1>2, SaveGenuine
<1>4. CASE Collides(more, TRUE)
  <2>1. ReplicaInv' /\ Over(j)
    BY <1>1, <1>3, <1>4, EndsIs
  <2> HIDE DEF ReplicaInv, Saved
  <2> QED BY <1>1, <1>3, <2>1 DEF more
<1>5. CASE ~Collides(more, TRUE)
  <2>1. Become(j, [job[j] EXCEPT !.step = "publish"]) /\ "publish" \in Steps
    BY <1>1, <1>5 DEF Steps
  <2>2. LinkMoves
    BY <1>1, <1>5 DEF LinkMoves
  <2>3. ReplicaInv' /\ MovesTo(j, "publish")
    BY <1>1, <1>3, <2>1, <2>2, MovesStep
  <2> HIDE DEF ReplicaInv, Saved, MovesTo, Collides
  <2> QED BY <1>1, <1>3, <1>5, <2>3 DEF more
<1> QED
  BY <1>4, <1>5

LEMMA CommitPublishesIs ==
    ASSUME ReplicaInv, NEW j \in Jobs, CommitPublishes(j)
    PROVE  /\ ReplicaInv' /\ UNCHANGED <<serverVars, connected, wire>> /\ job[j].step = "publish"
           /\ Advanced(job[j].through, job[j].sum) /\ Over(j)
<1>1. /\ job[j].step = "publish" /\ Advance(job[j].through, job[j].sum) /\ Ends(j)
      /\ UNCHANGED <<serverVars, connected, wire>> /\ rows' = rows
  BY DEF CommitPublishes
<1>2. job[j].through \in Nat /\ job[j].sum \in Int
  BY JobIs
<1>3. /\ DiskTypes' /\ WindowClosed' /\ \A s \in Posts : rows'[s].rev <= rev[s]
      /\ Advanced(job[j].through, job[j].sum)
  BY <1>1, <1>2, AdvanceKeeps DEF Advanced
<1>4. ReplicaInv' /\ Over(j)
  BY <1>1, <1>3, EndsIs
<1> HIDE DEF ReplicaInv, Advanced
<1> QED
  BY <1>1, <1>3, <1>4

LEMMA RequestFailsIs ==
    ASSUME ReplicaInv, NEW j \in Jobs, RequestFails(j)
    PROVE  /\ ReplicaInv' /\ UNCHANGED <<serverVars, diskVars, connected, wire>> /\ Over(j)
<1>1. Ends(j) /\ UNCHANGED <<serverVars, diskVars, connected, wire>>
  BY DEF RequestFails
<1>2. DiskTypes' /\ WindowClosed' /\ \A s \in Posts : rows'[s].rev <= rev[s]
  BY <1>1, DiskStays
<1>3. ReplicaInv' /\ Over(j)
  BY <1>1, <1>2, EndsIs
<1> HIDE DEF ReplicaInv
<1> QED
  BY <1>1, <1>3

LEMMA NextReplica == ReplicaInv /\ [ReplicaNext]_replicaVars => ReplicaInv'
<1> SUFFICES ASSUME ReplicaInv, [ReplicaNext]_replicaVars PROVE ReplicaInv'
  OBVIOUS
<1>1. CASE ServerNext
  BY <1>1, ServerReplica
<1>2. CASE LinkNext
  BY <1>2, LinkReplica
<1>3. CASE HandleEvent
  BY <1>3, EventReplica
<1>4. CASE EvictPrefix
  BY <1>4, EvictReplica
<1>5. ASSUME NEW j \in Jobs, PageNext(j) PROVE ReplicaInv'
  BY <1>5, AskPageIs, AnswerPageIs, ConnectPageIs, StorePageIs, AdvanceAfterPageIs DEF PageNext
<1>6. ASSUME NEW j \in Jobs, PullNext(j) PROVE ReplicaInv'
  BY <1>6, AskRevisionsIs, CompareRevisionsIs, RevalidateIs, AnswerRangeIs, StoreRangePageIs,
     CommitReadsIs, CommitMergesIs, CommitAppendsIs, CommitPublishesIs DEF PullNext
<1>7. ASSUME NEW j \in Jobs, RequestFails(j) PROVE ReplicaInv'
  BY <1>7, RequestFailsIs
<1>8. CASE UNCHANGED replicaVars
  <2>1. UNCHANGED <<serverVars, diskVars, linkVars, job>>
    BY <1>8 DEF replicaVars
  <2>2. DiskTypes' /\ WindowClosed' /\ \A s \in Posts : rows'[s].rev <= rev[s]
    BY <2>1, DiskStays
  <2>3. LinkTypes' /\ wire' \subseteq wire
    BY <2>1, LinkStays DEF linkVars
  <2>4. JobTypes' /\ \A i \in Jobs : Genuine(job'[i].got) /\ Genuine(job'[i].page)
    BY <2>1, JobsStay
  <2> QED BY <2>1, <2>2, <2>3, <2>4, ClientKeeps
<1> QED
  BY <1>1, <1>2, <1>3, <1>4, <1>5, <1>6, <1>7, <1>8 DEF ReplicaNext

LEMMA ReplicaInvariant == ReplicaSpec => []ReplicaInv
<1>1. ReplicaInit => ReplicaInv
  BY InitReplica
<1>2. ReplicaInv /\ [ReplicaNext]_replicaVars => ReplicaInv'
  BY NextReplica
<1> QED
  BY <1>1, <1>2, PTL DEF ReplicaSpec

\* Whatever requests, events and evictions interleave, the published window has
\* both its ends stored and no row outside it (savePosts, postCoverageAfterPrefixDelete).
THEOREM WindowClosedHolds == ReplicaSpec => []WindowClosed
<1>1. ReplicaInv => WindowClosed
  BY DEF ReplicaInv
<1> QED
  BY <1>1, ReplicaInvariant, PTL

-----------------------------------------------------------------------------
(***************************************************************************)
(* What the cursor certifies, with one request at a time and no eviction   *)
(* under it.                                                               *)
(***************************************************************************)
Alone(j) == Jobs = {j} /\ Admits = {}

PageSteps == {"asked", "answered", "store", "advance"}

Pulling == {"range", "page", "commit", "merge", "append"}

\* The revisions the cursor is good for: those it has reached, and those it will
\* claim when the request ends, from the step on at which they are all there.
Due(j) == {r \in Revisions : \/ r <= cover.known
                             \/ job[j].step \in PageSteps \cup {"publish"} /\ r <= job[j].through}

Certified(j) == \A s \in Posts : s <= head /\ Covers(cover, s) /\ rev[s] \in Due(j) => Current(s)

EndKnown(j) ==
    cover # NoCover /\ cover.reachedNewest =>
        \A s \in Posts : s <= head /\ s > cover.newest => rev[s] \notin Due(j)

Dated(j) ==
    /\ cover.known <= clock /\ job[j].through <= clock
    /\ job[j].step \in Pulling => job[j].from <= clock
    /\ job[j].step \in PageSteps => job[j].anchor <= head

\* The events on the way are newer than the revision a page was asked with.
Past(j) == job[j].step \in PageSteps => \A e \in wire : e.row.rev > job[j].through

\* A page holds the due posts as they are.
Exact(j) == job[j].step \in {"answered", "store"} =>
    \A s \in DOMAIN job[j].got : rev[s] \in Due(j) => job[j].got[s].rev = rev[s]

\* A page is an interval next to its anchor.
Shaped(r) ==
    /\ \A s, t \in DOMAIN r.got, u \in Posts : s <= u /\ u <= t => u \in DOMAIN r.got
    /\ r.way = "before" =>
          /\ \A s \in DOMAIN r.got : s < r.anchor
          /\ \A s \in DOMAIN r.got, u \in Posts : s <= u /\ u < r.anchor => u \in DOMAIN r.got
    /\ r.way = "after" =>
          /\ \A s \in DOMAIN r.got : s > r.anchor
          /\ \A s \in DOMAIN r.got, u \in Posts : r.anchor < u /\ u <= s => u \in DOMAIN r.got

\* A page that claims to reach the end, and the posts it then denies.
AtEnd(r)   == r.way = "latest" \/ (r.way = "after" /\ r.atEnd)
Denies(r, s) == (\A t \in DOMAIN r.got : t < s) /\ (r.way = "after" => s > r.anchor)

\* Beyond a page that reaches the end nothing is due.
Whole(j) == job[j].step \in {"answered", "store"} =>
    /\ Shaped(job[j])
    /\ AtEnd(job[j]) => \A s \in Posts : s <= head /\ Denies(job[j], s) => rev[s] \notin Due(j)

\* A page about to be stored touches the window, or starts it afresh.
Joined(j) == job[j].step = "store" =>
    /\ DOMAIN job[j].got # {}
    /\ job[j].way # "latest" =>
          /\ cover # NoCover /\ job[j].anchor <= cover.newest
          /\ job[j].anchor >= cover.oldest \/ Full
    /\ job[j].way = "latest" => \/ cover = NoCover \/ cover.reachedNewest
                                \/ \E s \in DOMAIN job[j].got : s <= cover.newest

\* A pull has the changes of the range so far.
Pulled(j) == job[j].step \in Pulling =>
    \A s \in Posts :
        /\ s <= head /\ rev[s] > cover.known
        /\ \/ rev[s] <= job[j].from
           \/ job[j].step \in {"commit", "merge", "append"} /\ rev[s] <= job[j].through
        => s \in DOMAIN job[j].got /\ job[j].got[s].rev = rev[s]

\* A page of the range has its first changes.
Paged(j) == job[j].step = "page" =>
    /\ \A s \in Posts : s <= head /\ rev[s] > job[j].from /\ rev[s] <= job[j].through =>
          \/ s \in DOMAIN job[j].page /\ job[j].page[s].rev = rev[s]
          \/ /\ Cardinality(DOMAIN job[j].page) >= RangeLimit
             /\ \A t \in DOMAIN job[j].page : job[j].page[t].rev < rev[s]
    /\ \A s \in DOMAIN job[j].page : /\ job[j].page[s].rev > job[j].from
                                     /\ job[j].page[s].rev <= job[j].through

\* The end of a pull: what the window still lacks lies beyond its end.
Merging(j) == job[j].step \in {"merge", "append", "publish"} =>
    /\ cover # NoCover /\ job[j].newest <= cover.newest
    /\ job[j].atEnd <=> cover.reachedNewest
    /\ job[j].step # "publish" => cover.oldest <= job[j].newest \/ Full
    /\ job[j].step = "append" =>
          /\ job[j].atEnd
          /\ \A s \in Posts : s <= head /\ Covers(cover, s) /\ rev[s] <= job[j].through =>
                Current(s) \/ s > job[j].newest

TaskInv(j) == Past(j) /\ Exact(j) /\ Whole(j) /\ Joined(j) /\ Pulled(j) /\ Paged(j) /\ Merging(j)

CertInv(j) == ReplicaInv /\ Certified(j) /\ EndKnown(j) /\ Dated(j) /\ TaskInv(j)

LEMMA ServerFacts ==
    ASSUME ReplicaInv
    PROVE  /\ head \in Nat /\ clock \in Nat
           /\ \A s \in Posts : /\ s \in Nat /\ s > 0 /\ rev[s] \in Nat /\ rev[s] \in Revisions
                               /\ rev[s] <= clock
                               /\ (s <= head => rev[s] > 0)
                               /\ rows[s].rev \in Nat /\ rows[s].rev <= rev[s]
<1>1. MaxPosts \in Nat /\ MaxRevision \in Nat
  BY ReplicaAssumption DEF ReplicaAssumption
<1>2. \A s \in Posts : rows[s] \in Rows
  BY DEF ReplicaInv, DiskTypes
<1> QED
  BY <1>1, <1>2, RowType DEF ReplicaInv, ServerTypes, Revisions, Posts, AllGenuine

LEMMA CoverFacts ==
    ASSUME ReplicaInv
    PROVE  /\ cover.oldest \in Nat /\ cover.newest \in Nat /\ cover.known \in Nat /\ cover.sum \in Int
           /\ cover.reachedNewest \in BOOLEAN
           /\ cover = NoCover => /\ cover.newest = 0 /\ cover.known = 0 /\ cover.sum = 0
                                 /\ cover.reachedNewest = FALSE /\ Stored = {}
           /\ cover # NoCover => /\ cover.oldest \in Stored /\ cover.newest \in Stored
                                 /\ cover.oldest \in Posts /\ cover.newest \in Posts
                                 /\ cover.oldest <= cover.newest
                                 /\ \A s \in Stored : cover.oldest <= s /\ s <= cover.newest
<1>1. DiskTypes /\ WindowClosed
  BY DEF ReplicaInv
<1> QED
  BY <1>1, CoverType

LEMMA CoveredIs ==
    ASSUME ReplicaInv, NEW s \in Posts
    PROVE  Covers(cover, s) <=> cover # NoCover /\ cover.oldest <= s /\ s <= cover.newest
  BY CoverFacts, PostsFinite DEF Covers

LEMMA EventFacts ==
    ASSUME ReplicaInv, NEW e \in wire
    PROVE  /\ e.seq \in Posts /\ e.row.rev \in Nat /\ e.row.rev > 0 /\ e.row.rev <= rev[e.seq]
           /\ e.created => \A s \in Posts : s > e.seq /\ s <= head => rev[s] > e.row.rev
           /\ e.created \in BOOLEAN
<1>1. e.seq \in Posts /\ e.row \in Rows /\ e.created \in BOOLEAN
  BY DEF ReplicaInv, LinkTypes
<1> QED
  BY <1>1, RowType DEF ReplicaInv, AllGenuine

LEMMA JobFacts ==
    ASSUME ReplicaInv, NEW j \in Jobs
    PROVE  /\ job[j].from \in Nat /\ job[j].through \in Nat /\ job[j].anchor \in Nat
           /\ job[j].newest \in Nat /\ job[j].atEnd \in BOOLEAN
           /\ DOMAIN job[j].got \subseteq Posts /\ DOMAIN job[j].page \subseteq Posts
           /\ \A s \in DOMAIN job[j].got : job[j].got[s].rev \in Nat /\ job[j].got[s].rev <= rev[s]
           /\ \A s \in DOMAIN job[j].page : job[j].page[s].rev \in Nat /\ job[j].page[s].rev <= rev[s]
<1>1. MaxPosts \in Nat
  BY ReplicaAssumption DEF ReplicaAssumption
<1>2. /\ job[j].got \in Pages /\ job[j].page \in Pages
      /\ job[j].anchor \in 0..MaxPosts /\ job[j].newest \in 0..MaxPosts
      /\ job[j].from \in Nat /\ job[j].through \in Nat
      /\ job[j].atEnd \in BOOLEAN /\ Genuine(job[j].got) /\ Genuine(job[j].page)
  BY JobIs
<1>3. /\ DOMAIN job[j].got \subseteq Posts /\ DOMAIN job[j].page \subseteq Posts
      /\ \A s \in DOMAIN job[j].got : job[j].got[s] \in Rows
      /\ \A s \in DOMAIN job[j].page : job[j].page[s] \in Rows
  BY <1>2, PageType
<1>4. /\ \A s \in DOMAIN job[j].got : job[j].got[s].rev \in 1..rev[s]
      /\ \A s \in DOMAIN job[j].page : job[j].page[s].rev \in 1..rev[s]
  BY <1>2 DEF Genuine
<1>5. \A s \in Posts : rev[s] \in Nat
  BY ServerFacts
<1> QED
  BY <1>1, <1>2, <1>3, <1>4, <1>5

LEMMA DueIs ==
    ASSUME ReplicaInv, NEW j, NEW s \in Posts
    PROVE  rev[s] \in Due(j) <=>
              \/ rev[s] <= cover.known
              \/ job[j].step \in PageSteps \cup {"publish"} /\ rev[s] <= job[j].through
  BY ServerFacts DEF Due

LEMMA OverIs == ASSUME ReplicaInv, NEW j \in Jobs, Over(j) PROVE job'[j] = IdleJob
  BY DEF Over, ReplicaInv, JobTypes

\* A request that is over promises nothing.
LEMMA IdleTask ==
    ASSUME NEW j \in Jobs, job'[j].step = "idle"
    PROVE  TaskInv(j)'
  BY DEF TaskInv, Past, Exact, Whole, Joined, Pulled, Paged, Merging, PageSteps, Pulling

\* Steps that leave the server and the disk alone.
LEMMA CertStays ==
    ASSUME NEW j \in Jobs, CertInv(j), UNCHANGED <<serverVars, diskVars>>,
           \/ cover = NoCover
           \/ \A s \in Posts : s <= head /\ rev[s] \in Due(j)' => rev[s] \in Due(j)
    PROVE  Certified(j)' /\ EndKnown(j)'
<1>1. head' = head /\ rev' = rev /\ clock' = clock /\ rows' = rows /\ cover' = cover
  BY DEF serverVars, diskVars
<1>2. Certified(j)'
  BY <1>1 DEF CertInv, Certified, Current, Covers
<1>3. EndKnown(j)'
  BY <1>1 DEF CertInv, EndKnown
<1> QED
  BY <1>2, <1>3

\* What changes on the server is newer than anything promised.
LEMMA ServerCert ==
    ASSUME NEW j \in Jobs, CertInv(j), ServerNext
    PROVE  CertInv(j)'
<1>1. ReplicaInv
  BY DEF CertInv
<1>2. PICK s \in Posts : \E created \in BOOLEAN :
              /\ Changes(s, created)
              /\ \/ created /\ s = head + 1 /\ head' = head + 1
                 \/ ~created /\ s <= head /\ head' = head
  BY <1>1, ServerIs
<1>3. PICK created \in BOOLEAN :
              /\ Changes(s, created)
              /\ \/ created /\ s = head + 1 /\ head' = head + 1
                 \/ ~created /\ s <= head /\ head' = head
  BY <1>2
<1>4. /\ ReplicaInv' /\ UNCHANGED <<diskVars, connected, phase, job>>
      /\ clock' = clock + 1
      /\ \A t \in Posts : rev'[t] = rev[t] \/ (t = s /\ rev'[t] = clock + 1)
      /\ \A e \in wire' : e \in wire \/ e.row.rev = clock + 1
  BY <1>1, <1>3, ChangesReplica
<1>5. rows' = rows /\ cover' = cover /\ job' = job
  BY <1>4 DEF diskVars
<1>6. /\ head \in Nat /\ clock \in Nat /\ head' \in {head, head + 1} /\ (head' = head + 1 => s = head + 1)
      /\ \A t \in Posts : t \in Nat /\ rev[t] \in Nat /\ rev[t] <= clock
  BY <1>1, <1>3, ServerFacts
<1>7. /\ cover.known \in Nat /\ cover.known <= clock
      /\ job[j].through \in Nat /\ job[j].through <= clock
      /\ job[j].from \in Nat /\ (job[j].step \in Pulling => job[j].from <= clock)
      /\ job[j].anchor \in Nat /\ (job[j].step \in PageSteps => job[j].anchor <= head)
  BY <1>1, CoverFacts, JobFacts DEF CertInv, Dated
<1>8. \A t \in Posts : /\ rev'[t] = rev[t] \/ (rev'[t] > clock /\ rev'[t] \in Nat)
                       /\ t <= head' => t <= head \/ rev'[t] > clock
                       /\ rev'[t] <= clock => (t <= head' => t <= head)
  <2> SUFFICES ASSUME NEW t \in Posts
               PROVE  /\ rev'[t] = rev[t] \/ (rev'[t] > clock /\ rev'[t] \in Nat)
                      /\ t <= head' => t <= head \/ rev'[t] > clock
    BY <1>6
  <2>1. rev'[t] = rev[t] \/ (t = s /\ rev'[t] = clock + 1)
    BY <1>4
  <2>2. ASSUME t <= head', t > head PROVE rev'[t] > clock
    <3>1. t = s /\ t = head + 1
      BY <1>6, <2>2
    <3>2. rev[t] = 0 /\ rev'[t] > 0
      BY <1>1, <1>4, <1>6, <2>2, <3>1, ServerFacts DEF ReplicaInv, ServerTypes
    <3> QED BY <1>6, <2>1, <3>2
  <2> QED BY <1>6, <2>1, <2>2
<1>9. \A t \in Posts : rev'[t] \in Due(j)' => rev'[t] = rev[t] /\ rev[t] \in Due(j) /\ (t <= head' => t <= head)
  <2> SUFFICES ASSUME NEW t \in Posts, rev'[t] \in Due(j)'
               PROVE  rev'[t] = rev[t] /\ rev[t] \in Due(j) /\ (t <= head' => t <= head)
    OBVIOUS
  <2>1. rev'[t] \in Due(j)
    BY <1>5 DEF Due
  <2>2. rev'[t] <= clock
    BY <1>6, <1>7, <2>1, <1>8 DEF Due
  <2> QED BY <1>6, <1>8, <2>1, <2>2
<1>10. Certified(j)'
  BY <1>5, <1>9 DEF CertInv, Certified, Current, Covers
<1>11. EndKnown(j)'
  BY <1>5, <1>9 DEF CertInv, EndKnown
<1>12. Dated(j)'
  BY <1>4, <1>5, <1>6, <1>7 DEF Dated
<1>13. Past(j)'
  <2> SUFFICES ASSUME job[j].step \in PageSteps, NEW e \in wire' PROVE e.row.rev > job[j].through
    BY <1>5 DEF Past
  <2> QED BY <1>4, <1>6, <1>7 DEF CertInv, TaskInv, Past
<1>14. DOMAIN job[j].got \subseteq Posts /\ DOMAIN job[j].page \subseteq Posts
  BY <1>1, JobFacts
<1>15. Exact(j)'
  <2> SUFFICES ASSUME job[j].step \in {"answered", "store"}, NEW t \in DOMAIN job[j].got, rev'[t] \in Due(j)'
               PROVE  job[j].got[t].rev = rev'[t]
    BY <1>5 DEF Exact
  <2> QED BY <1>9, <1>14 DEF CertInv, TaskInv, Exact
<1>16. Whole(j)'
  <2>1. Whole(j)
    BY DEF CertInv, TaskInv
  <2>2. ASSUME job[j].step \in {"answered", "store"}, AtEnd(job[j]), NEW t \in Posts, t <= head',
               Denies(job[j], t), rev'[t] \in Due(j)'
        PROVE  FALSE
    <3>1. t <= head /\ rev[t] \in Due(j)
      BY <1>9, <2>2
    <3> QED BY <2>1, <2>2, <3>1 DEF Whole
  <2> QED BY <1>5, <2>1, <2>2 DEF Whole
<1>17. Joined(j)'
  BY <1>5 DEF CertInv, TaskInv, Joined, Full, Stored
<1>18. Pulled(j)'
  <2> SUFFICES ASSUME job[j].step \in Pulling, NEW t \in Posts, t <= head', rev'[t] > cover.known,
                      \/ rev'[t] <= job[j].from
                      \/ job[j].step \in {"commit", "merge", "append"} /\ rev'[t] <= job[j].through
               PROVE  t \in DOMAIN job[j].got /\ job[j].got[t].rev = rev'[t]
    BY <1>5 DEF Pulled
  <2>1. rev'[t] <= clock
    BY <1>6, <1>7, <1>8
  <2>2. rev'[t] = rev[t] /\ t <= head
    BY <1>6, <1>8, <2>1
  <2> QED BY <2>2 DEF CertInv, TaskInv, Pulled
<1>19. Paged(j)'
  <2>1. Paged(j)
    BY DEF CertInv, TaskInv
  <2>2. ASSUME job[j].step = "page", NEW t \in Posts, t <= head', rev'[t] > job[j].from,
               rev'[t] <= job[j].through
        PROVE  \/ t \in DOMAIN job[j].page /\ job[j].page[t].rev = rev'[t]
               \/ /\ Cardinality(DOMAIN job[j].page) >= RangeLimit
                  /\ \A u \in DOMAIN job[j].page : job[j].page[u].rev < rev'[t]
    <3>1. rev'[t] <= clock
      BY <1>6, <1>7, <1>8, <2>2
    <3>2. rev'[t] = rev[t] /\ t <= head
      BY <1>6, <1>8, <2>2, <3>1
    <3> QED BY <2>1, <2>2, <3>2 DEF Paged
  <2> QED BY <1>5, <2>1, <2>2 DEF Paged
<1>20. Merging(j)'
  <2>1. Merging(j)
    BY DEF CertInv, TaskInv
  <2>2. ASSUME job[j].step = "append", NEW t \in Posts, t <= head', Covers(cover, t),
               rev'[t] <= job[j].through
        PROVE  rows[t].rev = rev'[t] \/ t > job[j].newest
    <3>1. rev'[t] <= clock
      BY <1>6, <1>7, <1>8, <2>2
    <3>2. rev'[t] = rev[t] /\ t <= head
      BY <1>6, <1>8, <2>2, <3>1
    <3> QED BY <2>1, <2>2, <3>2 DEF Merging, Current
  <2> QED BY <1>5, <2>1, <2>2 DEF Merging, Full, Stored, Current, Covers
<1> QED
  BY <1>4, <1>10, <1>11, <1>12, <1>13, <1>15, <1>16, <1>17, <1>18, <1>19, <1>20 DEF CertInv, TaskInv

-----------------------------------------------------------------------------
(***************************************************************************)
(* What a save leaves certified.                                           *)
(***************************************************************************)
LEMMA CurrentStays ==
    ASSUME ReplicaInv, ReplicaInv', NEW inc, NEW ext, NEW rn, Saved(inc, ext, rn), UNCHANGED serverVars,
           NEW s \in Posts, s <= head, Current(s), Covers(cover', s)
    PROVE  rows'[s].rev = rev[s]
<1>1. rows[s].rev = rev[s] /\ rev[s] \in Nat /\ rev[s] > 0
  BY ServerFacts DEF Current
<1>2. s \in Stored
  BY <1>1 DEF Stored, StoredIn
<1>3. rows'[s].rev > 0
  BY <1>2 DEF Saved
<1>4. rows'[s].rev \in Nat /\ rows'[s].rev <= rev[s]
  <2>1. rev' = rev
    BY DEF serverVars
  <2>2. rows' \in [Posts -> Rows] /\ \A t \in Posts : rows'[t].rev <= rev'[t]
    BY DEF ReplicaInv, DiskTypes, AllGenuine
  <2>3. rows'[s] \in Rows
    BY <2>2
  <2> QED BY <2>1, <2>2, <2>3, RowType
<1>5. rows'[s] = rows[s] \/ (rows'[s].rev >= rows[s].rev)
  BY <1>3 DEF Saved
<1> QED
  BY <1>1, <1>4, <1>5

LEMMA CurrentBecomes ==
    ASSUME ReplicaInv, NEW inc, NEW ext, NEW rn, Saved(inc, ext, rn), ~Collides(inc, ext),
           NEW s \in Posts, s \in DOMAIN inc, inc[s].rev = rev[s], ext \/ Covers(cover, s), Covers(cover', s)
    PROVE  rows'[s].rev = rev[s]
<1>1. rows[s].rev <= inc[s].rev
  BY ServerFacts
<1>2. s \in Accepted(inc, ext)
  BY <1>1 DEF Accepted
<1> QED
  BY <1>2 DEF Saved

\* Every due post of the new window was current in the old one or comes as it is now.
LEMMA SavedCertifies ==
    ASSUME ReplicaInv, ReplicaInv', NEW inc, NEW ext, NEW rn, Saved(inc, ext, rn), UNCHANGED serverVars,
           NEW D,
           \A s \in Posts : s <= head /\ Covers(cover', s) /\ rev[s] \in D =>
              \/ Current(s)
              \/ /\ ~Collides(inc, ext) /\ s \in DOMAIN inc /\ inc[s].rev = rev[s]
                 /\ ext \/ Covers(cover, s)
    PROVE  \A s \in Posts : s <= head /\ Covers(cover', s) /\ rev[s] \in D => rows'[s].rev = rev[s]
<1> SUFFICES ASSUME NEW s \in Posts, s <= head, Covers(cover', s), rev[s] \in D
             PROVE  rows'[s].rev = rev[s]
  OBVIOUS
<1>1. CASE Current(s)
  BY <1>1, CurrentStays
<1>2. CASE /\ ~Collides(inc, ext) /\ s \in DOMAIN inc /\ inc[s].rev = rev[s]
           /\ ext \/ Covers(cover, s)
  BY <1>2, CurrentBecomes
<1> QED
  BY <1>1, <1>2

LEMMA SavedEnds ==
    ASSUME ReplicaInv, ReplicaInv', NEW inc, NEW ext, NEW rn, Saved(inc, ext, rn), UNCHANGED serverVars,
           NEW D, DOMAIN inc \subseteq Posts,
           cover.reachedNewest =>
              \A s \in Posts : s <= head /\ s > cover.newest /\ rev[s] \in D => s \in DOMAIN inc /\ ext /\ ~Collides(inc, ext),
           ext /\ rn /\ ~cover.reachedNewest =>
              \A s \in Posts : s <= head /\ (\A u \in DOMAIN inc : u < s) /\ (cover # NoCover => s > cover.newest)
                               => rev[s] \notin D
    PROVE  cover' # NoCover /\ cover'.reachedNewest =>
              \A s \in Posts : s <= head /\ s > cover'.newest => rev[s] \notin D
<1> SUFFICES ASSUME cover' # NoCover, cover'.reachedNewest, NEW s \in Posts, s <= head, s > cover'.newest,
                    rev[s] \in D
             PROVE  FALSE
  OBVIOUS
<1>1. s \in Nat /\ cover.newest \in Nat /\ cover'.newest \in Nat
  <2>1. DiskTypes'
    BY DEF ReplicaInv
  <2>2. cover' \in CoverRecords
    BY <2>1 DEF DiskTypes
  <2> QED BY <2>2, ServerFacts, CoverFacts DEF CoverRecords
<1>2. cover # NoCover => s > cover.newest
  BY <1>1 DEF Saved
<1>3. ext /\ ~Collides(inc, ext) => \A u \in DOMAIN inc : u <= cover'.newest
  BY DEF Saved
<1>4. CASE cover.reachedNewest
  <2>1. cover # NoCover
    BY <1>4, CoverFacts
  <2>2. s \in DOMAIN inc /\ ext /\ ~Collides(inc, ext)
    BY <1>2, <1>4, <2>1
  <2> QED BY <1>1, <1>3, <2>2
<1>5. CASE ~cover.reachedNewest
  <2>1. ext /\ rn
    BY <1>5 DEF Saved
  <2>2. ~Collides(inc, ext)
    BY <1>5 DEF Saved
  <2>3. \A u \in DOMAIN inc : u <= cover'.newest /\ cover'.newest < s
    BY <1>3, <2>1, <2>2
  <2>4. ASSUME NEW u \in DOMAIN inc PROVE u < s
    <3>1. u \in Nat
      BY PostsFinite
    <3> QED BY ONLY <1>1, <2>3, <3>1
  <2> QED BY <1>2, <1>5, <2>1, <2>4
<1> QED
  BY <1>4, <1>5


-----------------------------------------------------------------------------
(***************************************************************************)
(* Events, evictions and the link.                                         *)
(***************************************************************************)
LEMMA OverCert ==
    ASSUME NEW j \in Jobs, CertInv(j), ReplicaInv', UNCHANGED <<serverVars, diskVars>>, job'[j] = IdleJob
    PROVE  CertInv(j)'
<1>1. ReplicaInv /\ Dated(j)
  BY DEF CertInv
<1>2. job'[j].step = "idle" /\ job'[j].from = 0 /\ job'[j].through = 0
  BY DEF IdleJob
<1>3. head' = head /\ rev' = rev /\ clock' = clock /\ rows' = rows /\ cover' = cover
  BY DEF serverVars, diskVars
<1>4. TaskInv(j)'
  BY <1>2, IdleTask
<1>5. Due(j)' \subseteq Due(j)
  BY <1>2, <1>3 DEF Due, PageSteps
<1>6. Certified(j)' /\ EndKnown(j)'
  BY <1>5, CertStays
<1>7. Dated(j)'
  BY <1>1, <1>2, <1>3, ServerFacts DEF Dated, PageSteps, Pulling
<1> QED
  BY <1>4, <1>6, <1>7 DEF CertInv

LEMMA SameCert ==
    ASSUME NEW j \in Jobs, CertInv(j), ReplicaInv', UNCHANGED <<serverVars, diskVars>>, job'[j] = job[j],
           wire' \subseteq wire
    PROVE  CertInv(j)'
<1>1. head' = head /\ rev' = rev /\ clock' = clock /\ rows' = rows /\ cover' = cover
  BY DEF serverVars, diskVars
<1>2. Due(j)' = Due(j)
  BY <1>1 DEF Due
<1>3. Certified(j)' /\ EndKnown(j)'
  BY <1>2, CertStays
<1>4. Dated(j)' /\ Past(j)'
  BY <1>1 DEF CertInv, TaskInv, Dated, Past
<1>5. Exact(j)'
  BY <1>1, <1>2 DEF CertInv, TaskInv, Exact
<1>6. Whole(j)'
  BY <1>1, <1>2 DEF CertInv, TaskInv, Whole
<1>7. Joined(j)' /\ Pulled(j)' /\ Paged(j)'
  BY <1>1 DEF CertInv, TaskInv, Joined, Full, Stored, Pulled, Paged
<1>8. Merging(j)'
  BY <1>1 DEF CertInv, TaskInv, Merging, Full, Stored, Covers, Current
<1> QED
  BY <1>3, <1>4, <1>5, <1>6, <1>7, <1>8 DEF CertInv, TaskInv

LEMMA LinkIs ==
    ASSUME ReplicaInv, NEW j \in Jobs, LinkNext
    PROVE  /\ UNCHANGED <<serverVars, diskVars>> /\ wire' \subseteq wire
           /\ job'[j] = job[j] \/ job'[j] = IdleJob
<1> USE DEF ReplicaInv, JobTypes
<1>1. CASE Disconnect BY <1>1 DEF Disconnect
<1>2. CASE Reconnect BY <1>2 DEF Reconnect
<1>3. CASE Resubscribe BY <1>3 DEF Resubscribe
<1>4. CASE RevisionsRefused BY <1>4 DEF RevisionsRefused
<1>5. CASE ReplayEnds BY <1>5 DEF ReplayEnds
<1>6. CASE Reload BY <1>6 DEF Reload
<1> QED BY <1>1, <1>2, <1>3, <1>4, <1>5, <1>6 DEF LinkNext

LEMMA LinkCert ==
    ASSUME NEW j \in Jobs, CertInv(j), LinkNext
    PROVE  CertInv(j)'
<1>1. ReplicaInv
  BY DEF CertInv
<1>2. ReplicaInv'
  BY <1>1, LinkReplica
<1> QED
  BY <1>1, <1>2, LinkIs, OverCert, SameCert

LEMMA EvictCert ==
    ASSUME NEW j \in Jobs, Alone(j), CertInv(j), EvictPrefix
    PROVE  CertInv(j)'
<1>1. ReplicaInv
  BY DEF CertInv
<1>2. ReplicaInv'
  BY <1>1, EvictReplica
<1>3. job[j].step = "idle"
  BY DEF EvictPrefix, Alone
<1>4. /\ head' = head /\ rev' = rev /\ clock' = clock /\ job' = job
      /\ \A s \in Posts : rows'[s] = rows[s] \/ rows'[s].rev = 0
      /\ \/ cover' = NoCover
         \/ /\ cover # NoCover /\ cover'.newest = cover.newest /\ cover'.oldest >= cover.oldest
            /\ cover'.known = cover.known /\ cover'.sum = cover.sum
            /\ cover'.reachedNewest = cover.reachedNewest
            /\ \A s \in Stored : s >= cover'.oldest => rows'[s] = rows[s]
  BY <1>1, EvictShrinks DEF serverVars
<1>5. TaskInv(j)'
  BY <1>3, <1>4, IdleTask
<1>6. CASE cover' = NoCover
  <2>1. cover'.known = 0
    BY <1>6 DEF NoCover
  <2>2. Certified(j)' /\ EndKnown(j)'
    BY <1>6 DEF Certified, EndKnown, Covers
  <2>3. Dated(j)'
    BY <1>1, <1>3, <1>4, <2>1, ServerFacts DEF CertInv, Dated, PageSteps, Pulling
  <2> QED BY <1>2, <1>5, <2>2, <2>3 DEF CertInv
<1>7. CASE cover' # NoCover
  <2>1. /\ cover # NoCover /\ cover'.newest = cover.newest /\ cover'.oldest >= cover.oldest
        /\ cover'.known = cover.known /\ cover'.reachedNewest = cover.reachedNewest
        /\ \A s \in Stored : s >= cover'.oldest => rows'[s] = rows[s]
    BY <1>4, <1>7
  <2>2. Due(j)' = Due(j)
    BY <1>4, <2>1 DEF Due
  <2>3. ASSUME NEW s \in Posts, s <= head, Covers(cover', s), rev[s] \in Due(j)
        PROVE  rows'[s].rev = rev[s]
    <3>1. cover'.oldest <= s /\ s <= cover'.newest
      <4>1. DiskTypes'
        BY <1>2 DEF ReplicaInv
      <4>2. cover' \in CoverRecords
        BY <4>1 DEF DiskTypes
      <4> QED BY <2>3, <4>2, PostsFinite, ReplicaAssumption DEF Covers, CoverRecords, ReplicaAssumption
    <3>2. cover'.oldest \in Nat /\ cover.oldest \in Nat /\ s \in Nat
      <4>1. cover' \in CoverRecords
        BY <1>2 DEF ReplicaInv, DiskTypes
      <4> QED BY <1>1, <4>1, CoverFacts, ServerFacts DEF CoverRecords
    <3>3. cover.oldest <= s
      BY <2>1, <3>1, <3>2
    <3>4. Covers(cover, s)
      BY <1>1, <2>1, <3>1, <3>3, CoveredIs
    <3>5. rows[s].rev = rev[s]
      BY <2>3, <3>4 DEF CertInv, Certified, Current
    <3>6. s \in Stored
      BY <1>1, <2>3, <3>5, ServerFacts DEF Stored, StoredIn
    <3>7. rows'[s] = rows[s]
      BY <2>1, <3>1, <3>2, <3>6
    <3> QED BY <3>5, <3>7
  <2>4. Certified(j)'
    BY <1>4, <2>2, <2>3 DEF Certified, Current
  <2>5. EndKnown(j)' /\ Dated(j)'
    BY <1>4, <2>1, <2>2 DEF CertInv, EndKnown, Dated
  <2> QED BY <1>2, <1>5, <2>4, <2>5 DEF CertInv
<1> QED
  BY <1>6, <1>7


LEMMA FirstCover ==
    ASSUME ReplicaInv, ReplicaInv', NEW inc, NEW ext, NEW rn, Saved(inc, ext, rn),
           cover = NoCover, cover' # NoCover
    PROVE  ext
<1>1. cover' \in CoverRecords /\ WindowClosed'
  BY DEF ReplicaInv, DiskTypes
<1>2. cover'.oldest \in Stored' /\ cover'.newest \in Stored' /\ Stored' \subseteq cover'.oldest..cover'.newest
  BY <1>1 DEF WindowClosed
<1>3. cover'.oldest \in Posts
  BY <1>2 DEF Stored, StoredIn
<1>4. Covers(cover', cover'.oldest)
  BY <1>2 DEF Covers
<1>5. ~Covers(cover, cover'.oldest)
  BY DEF Covers
<1> QED
  BY <1>3, <1>4, <1>5 DEF Saved

\* The end of the window and what touches it survive a save.
LEMMA SavedTouches ==
    ASSUME ReplicaInv, ReplicaInv', NEW inc, NEW ext, NEW rn, Saved(inc, ext, rn), cover # NoCover, NEW a \in Nat
    PROVE  /\ cover' # NoCover
           /\ a <= cover.newest => a <= cover'.newest
           /\ a >= cover.oldest \/ Full => a >= cover'.oldest \/ Full'
<1>1. cover' \in CoverRecords
  BY DEF ReplicaInv, DiskTypes
<1>2. cover'.oldest \in Nat /\ cover'.newest \in Nat
  BY <1>1 DEF CoverRecords
<1>3. cover.oldest \in Nat /\ cover.newest \in Nat
  BY CoverFacts
<1>4. cover' # NoCover /\ cover'.newest >= cover.newest /\ (cover'.oldest <= cover.oldest \/ Full') /\ (Full => Full')
  BY DEF Saved
<1> QED
  BY ONLY <1>2, <1>3, <1>4, a \in Nat

\* A live event: what it adds to the window is beyond what is promised.
LEMMA EventCert ==
    ASSUME NEW j \in Jobs, CertInv(j), HandleEvent
    PROVE  CertInv(j)'
<1>1. ReplicaInv
  BY DEF CertInv
<1>2. ReplicaInv'
  BY <1>1, EventReplica
<1>3. PICK e \in wire :
              /\ wire' = wire \ {e} /\ UNCHANGED <<serverVars, connected, job>>
              /\ Saved([s \in {e.seq} |-> e.row], AppendsLive(e), e.created)
  BY <1>1, EventSaves
<1> DEFINE inc == [s \in {e.seq} |-> e.row]
           ext == AppendsLive(e)
<1>4. DOMAIN inc = {e.seq} /\ Saved(inc, ext, e.created)
  BY <1>3
<1> HIDE DEF inc
<1>5. head' = head /\ rev' = rev /\ clock' = clock /\ job' = job /\ wire' \subseteq wire
  BY <1>3 DEF serverVars
<1>6. cover'.known = cover.known
  BY <1>4 DEF Saved
<1>7. Due(j)' = Due(j)
  BY <1>5, <1>6 DEF Due
<1>8. /\ e.seq \in Posts /\ e.row.rev \in Nat /\ e.row.rev > 0 /\ e.row.rev <= rev[e.seq]
      /\ e.created => \A s \in Posts : s > e.seq /\ s <= head => rev[s] > e.row.rev
      /\ e.created \in BOOLEAN
  BY <1>1, EventFacts
<1>9. ext => e.created /\ (cover = NoCover \/ (cover.reachedNewest /\ e.seq > cover.newest))
  BY DEF AppendsLive
<1> HIDE DEF ext
<1>10. /\ cover.oldest \in Nat /\ cover.newest \in Nat
       /\ cover = NoCover => cover.known = 0 /\ cover.reachedNewest = FALSE
       /\ cover # NoCover => cover.oldest <= cover.newest
  BY <1>1, CoverFacts
\* Before there is a window, what is as new as the event is not promised.
<1>11. ASSUME cover = NoCover, NEW s \in Posts, s <= head, rev[s] >= e.row.rev PROVE rev[s] \notin Due(j)
  <2>1. rev[s] \in Nat /\ rev[s] > 0
    BY <1>1, <1>11, ServerFacts
  <2>2. job[j].step # "publish"
    BY <1>11 DEF CertInv, TaskInv, Merging
  <2>3. job[j].step \in PageSteps => e.row.rev > job[j].through
    BY DEF CertInv, TaskInv, Past
  <2>4. job[j].through \in Nat
    BY <1>1, JobFacts
  <2> QED BY <1>8, <1>10, <1>11, <2>1, <2>2, <2>3, <2>4 DEF Due
<1>12. ASSUME NEW s \in Posts, Covers(cover', s), ~Covers(cover, s)
       PROVE  ext /\ IF cover = NoCover THEN s = e.seq ELSE cover.reachedNewest /\ s > cover.newest
  <2>1. s \in Nat /\ e.seq \in Nat
    BY <1>8, PostsFinite
  <2>2. ext /\ IF cover = NoCover THEN \E t \in DOMAIN inc, u \in DOMAIN inc : t <= s /\ s <= u
               ELSE \/ s > cover.newest
                    \/ s < cover.oldest /\ \E t \in DOMAIN inc : t <= s
    BY <1>4, <1>12 DEF Saved
  <2> QED BY ONLY <1>4, <1>9, <1>10, <2>1, <2>2
<1>13. Certified(j)'
  <2>1. ASSUME NEW s \in Posts, s <= head, Covers(cover', s), rev[s] \in Due(j) PROVE Current(s)
    <3>1. CASE Covers(cover, s)
      BY <2>1, <3>1 DEF CertInv, Certified
    <3>2. CASE ~Covers(cover, s)
      <4>1. CASE cover = NoCover
        <5>1. s = e.seq
          BY <1>12, <2>1, <3>2, <4>1
        <5>2. rev[s] >= e.row.rev
          BY <1>1, <1>8, <5>1, ServerFacts
        <5> QED BY <1>11, <2>1, <4>1, <5>2
      <4>2. CASE cover # NoCover
        <5>1. cover.reachedNewest /\ s > cover.newest
          BY <1>12, <2>1, <3>2, <4>2
        <5> QED BY <2>1, <4>2, <5>1 DEF CertInv, EndKnown
      <4> QED BY <4>1, <4>2
    <3> QED BY <3>1, <3>2
  <2>2. \A s \in Posts : s <= head /\ Covers(cover', s) /\ rev[s] \in Due(j) => rows'[s].rev = rev[s]
    <3> DEFINE D == Due(j)
    <3> HIDE DEF D
    <3>1. \A s \in Posts : s <= head /\ Covers(cover', s) /\ rev[s] \in D => Current(s)
      BY <2>1 DEF D
    <3>2. \A s \in Posts : s <= head /\ Covers(cover', s) /\ rev[s] \in D => rows'[s].rev = rev[s]
      BY <1>1, <1>2, <1>3, <1>4, <3>1, SavedCertifies
    <3> QED BY <3>2 DEF D
  <2> QED BY <1>5, <1>7, <2>2 DEF Certified, Current
<1>14. EndKnown(j)'
  <2> DEFINE D == Due(j)
  <2>1. cover.reachedNewest => \A s \in Posts : s <= head /\ s > cover.newest => rev[s] \notin D
    BY <1>10 DEF CertInv, EndKnown
  <2>2. ext /\ ~cover.reachedNewest => \A s \in Posts : s <= head /\ (\A u \in DOMAIN inc : u < s) => rev[s] \notin D
    <3> SUFFICES ASSUME ext, ~cover.reachedNewest, NEW s \in Posts, s <= head, \A u \in DOMAIN inc : u < s
                 PROVE  rev[s] \notin Due(j)
      OBVIOUS
    <3>1. cover = NoCover /\ e.created
      BY <1>9
    <3>2. s > e.seq
      BY <1>4, <1>8, PostsFinite
    <3>3. rev[s] > e.row.rev
      BY <1>8, <3>1, <3>2
    <3>4. rev[s] >= e.row.rev
      BY <1>1, <1>8, <3>3, ServerFacts
    <3> QED BY <1>11, <3>1, <3>4
  <2> HIDE DEF D
  <2>3. DOMAIN inc \subseteq Posts
    BY <1>4, <1>8
  <2>4. cover.reachedNewest =>
           \A s \in Posts : s <= head /\ s > cover.newest /\ rev[s] \in D =>
              s \in DOMAIN inc /\ ext /\ ~Collides(inc, ext)
    BY <2>1
  <2>5. ext /\ e.created /\ ~cover.reachedNewest =>
           \A s \in Posts : s <= head /\ (\A u \in DOMAIN inc : u < s) /\ (cover # NoCover => s > cover.newest)
                            => rev[s] \notin D
    BY <2>2
  <2>6. cover' # NoCover /\ cover'.reachedNewest =>
              \A s \in Posts : s <= head /\ s > cover'.newest => rev[s] \notin D
    BY ONLY <1>1, <1>2, <1>3, <1>4, <2>3, <2>4, <2>5, SavedEnds
  <2> QED BY <1>5, <1>7, <2>6 DEF EndKnown, D
<1>15. Dated(j)' /\ Past(j)'
  BY <1>5, <1>6 DEF CertInv, TaskInv, Dated, Past
<1>16. Exact(j)' /\ Whole(j)'
  BY <1>5, <1>7 DEF CertInv, TaskInv, Exact, Whole
<1>17. Pulled(j)' /\ Paged(j)'
  BY <1>5, <1>6 DEF CertInv, TaskInv, Pulled, Paged
<1>18. job[j].anchor \in Nat /\ job[j].newest \in Nat /\ DOMAIN job[j].got \subseteq Posts
  BY <1>1, JobFacts
<1>19. cover' # NoCover => cover'.reachedNewest = (cover.reachedNewest \/ cover = NoCover)
  <2>1. cover'.reachedNewest => cover.reachedNewest \/ ext
    BY <1>4 DEF Saved
  <2>2. cover.reachedNewest => cover'.reachedNewest
    BY <1>4 DEF Saved
  <2>3. cover = NoCover /\ cover' # NoCover => ext
    BY <1>1, <1>2, <1>4, FirstCover
  <2>4. cover = NoCover /\ cover' # NoCover /\ e.created => cover'.reachedNewest
    BY <1>4 DEF Saved
  <2>5. cover.reachedNewest \in BOOLEAN
    BY <1>1, CoverFacts
  <2>6. cover' \in CoverRecords
    BY <1>2 DEF ReplicaInv, DiskTypes
  <2>7. cover'.reachedNewest \in BOOLEAN
    BY <2>6 DEF CoverRecords
  <2> QED BY <1>9, <2>1, <2>2, <2>3, <2>4, <2>5, <2>7
<1>20. Joined(j)'
  <2> SUFFICES ASSUME job[j].step = "store"
               PROVE  /\ DOMAIN job[j].got # {}
                      /\ job[j].way # "latest" =>
                            /\ cover' # NoCover /\ job[j].anchor <= cover'.newest
                            /\ job[j].anchor >= cover'.oldest \/ Full'
                      /\ job[j].way = "latest" => \/ cover' = NoCover \/ cover'.reachedNewest
                                                  \/ \E s \in DOMAIN job[j].got : s <= cover'.newest
    BY <1>5 DEF Joined
  <2>1. Joined(j)
    BY DEF CertInv, TaskInv
  <2>2. DOMAIN job[j].got # {}
    BY <2>1 DEF Joined
  <2>3. ASSUME job[j].way # "latest" 
        PROVE  cover' # NoCover /\ job[j].anchor <= cover'.newest /\ (job[j].anchor >= cover'.oldest \/ Full')
    <3>1. cover # NoCover /\ job[j].anchor <= cover.newest /\ (job[j].anchor >= cover.oldest \/ Full)
      BY <2>1, <2>3 DEF Joined
    <3> QED BY <1>1, <1>2, <1>4, <1>18, <3>1, SavedTouches
  <2>4. ASSUME job[j].way = "latest", cover' # NoCover
        PROVE  cover'.reachedNewest \/ \E s \in DOMAIN job[j].got : s <= cover'.newest
    <3>1. CASE cover = NoCover \/ cover.reachedNewest
      BY <1>19, <2>4, <3>1
    <3>2. CASE cover # NoCover /\ \E s \in DOMAIN job[j].got : s <= cover.newest
      <4>1. PICK s \in DOMAIN job[j].got : s <= cover.newest
        BY <3>2
      <4>2. s \in Nat
        BY <1>18, PostsFinite
      <4>3. s <= cover'.newest
        BY <1>1, <1>2, <1>4, <3>2, <4>1, <4>2, SavedTouches
      <4> QED BY <4>3
    <3> QED BY <2>1, <2>4, <3>1, <3>2 DEF Joined
  <2> QED BY <2>2, <2>3, <2>4
<1>21. Merging(j)'
  <2> SUFFICES ASSUME job[j].step \in {"merge", "append", "publish"}
               PROVE  /\ cover' # NoCover /\ job[j].newest <= cover'.newest
                      /\ job[j].atEnd <=> cover'.reachedNewest
                      /\ job[j].step # "publish" => cover'.oldest <= job[j].newest \/ Full'
                      /\ job[j].step = "append" =>
                            /\ job[j].atEnd
                            /\ \A s \in Posts : s <= head /\ Covers(cover', s) /\ rev[s] <= job[j].through =>
                                  rows'[s].rev = rev[s] \/ s > job[j].newest
    BY <1>5 DEF Merging, Current
  <2>1. /\ cover # NoCover /\ job[j].newest <= cover.newest
        /\ job[j].atEnd <=> cover.reachedNewest
        /\ job[j].step # "publish" => cover.oldest <= job[j].newest \/ Full
        /\ job[j].step = "append" =>
              /\ job[j].atEnd
              /\ \A s \in Posts : s <= head /\ Covers(cover, s) /\ rev[s] <= job[j].through =>
                    Current(s) \/ s > job[j].newest
    BY DEF CertInv, TaskInv, Merging
  <2>2. cover' # NoCover /\ job[j].newest <= cover'.newest
    BY <1>1, <1>2, <1>4, <1>18, <2>1, SavedTouches
  <2>3. job[j].atEnd <=> cover'.reachedNewest
    BY <1>19, <2>1, <2>2
  <2>4. job[j].step # "publish" => cover'.oldest <= job[j].newest \/ Full'
    <3>1. job[j].newest >= cover.oldest \/ Full => job[j].newest >= cover'.oldest \/ Full'
      BY <1>1, <1>2, <1>4, <1>18, <2>1, SavedTouches
    <3>2. cover' \in CoverRecords
      BY <1>2 DEF ReplicaInv, DiskTypes
    <3>3. cover'.oldest \in Nat
      BY <3>2 DEF CoverRecords
    <3> QED BY <1>10, <1>18, <2>1, <3>1, <3>3
  <2>5. ASSUME job[j].step = "append", NEW s \in Posts, s <= head, Covers(cover', s), rev[s] <= job[j].through
        PROVE  rows'[s].rev = rev[s] \/ s > job[j].newest
    <3>1. CASE ~Covers(cover, s)
      <4>1. s > cover.newest /\ s \in Nat
        BY <1>12, <2>1, <2>5, <3>1, PostsFinite
      <4> QED BY <1>10, <1>18, <2>1, <4>1
    <3>2. CASE Covers(cover, s)
      <4>1. Current(s) \/ s > job[j].newest
        BY <2>1, <2>5, <3>2
      <4>2. Current(s) => rows'[s].rev = rev[s]
        BY <1>1, <1>2, <1>3, <1>4, <2>5, CurrentStays
      <4> QED BY <4>1, <4>2
    <3> QED BY <3>1, <3>2
  <2> QED BY <2>1, <2>2, <2>3, <2>4, <2>5
<1> QED
  BY <1>2, <1>13, <1>14, <1>15, <1>16, <1>17, <1>20, <1>21 DEF CertInv, TaskInv


-----------------------------------------------------------------------------
(***************************************************************************)
(* History pages.                                                          *)
(***************************************************************************)
LEMMA AskPageCert ==
    ASSUME NEW j \in Jobs, Alone(j), CertInv(j), AskPage(j)
    PROVE  CertInv(j)'
<1>1. ReplicaInv /\ Dated(j)
  BY DEF CertInv
<1>2. /\ ReplicaInv' /\ UNCHANGED <<serverVars, diskVars, linkVars>>
      /\ job'[j].step = "asked" /\ job[j].step = "idle"
      /\ job'[j].through <= clock /\ job'[j].anchor <= head
      /\ job'[j].through = 0 \/ Shown(job'[j].through)
      /\ \/ job'[j].through = 0
         \/ phase = "live" /\ job'[j].through <= cover.known
         \/ phase = "live" /\ cover = NoCover
  BY <1>1, AskPageIs DEF Alone
<1>3. head' = head /\ rev' = rev /\ clock' = clock /\ rows' = rows /\ cover' = cover /\ wire' = wire
  BY <1>2 DEF serverVars, diskVars, linkVars
<1>4. job'[j].through \in Nat
  <2>1. job' \in [Jobs -> JobRecords]
    BY <1>2 DEF ReplicaInv, JobTypes
  <2>2. job'[j] \in JobRecords
    BY <2>1
  <2> QED BY <2>2 DEF JobRecords
<1>5. cover.known \in Nat
  BY <1>1, CoverFacts
<1>6. \/ cover = NoCover
      \/ \A s \in Posts : s <= head /\ rev[s] \in Due(j)' => rev[s] \in Due(j)
  <2> SUFFICES ASSUME cover # NoCover, NEW s \in Posts, rev[s] \in Due(j)' PROVE rev[s] \in Due(j)
    OBVIOUS
  <2>1. rev[s] \in Nat /\ rev[s] \in Revisions
    BY <1>1, ServerFacts
  <2>2. rev[s] <= cover.known \/ rev[s] <= job'[j].through
    BY <1>3 DEF Due
  <2>3. job'[j].through <= cover.known
    BY <1>2, <1>4, <1>5
  <2>4. rev[s] <= cover.known
    BY <1>4, <1>5, <2>1, <2>2, <2>3
  <2> QED BY <2>1, <2>4 DEF Due
<1>7. Certified(j)' /\ EndKnown(j)'
  BY <1>2, <1>6, CertStays
<1>8. Past(j)'
  <2>1. \A e \in wire : e.row.rev > job'[j].through
    <3>1. \A e \in wire : e.row.rev > 0
      BY <1>1, EventFacts
    <3>2. CASE job'[j].through = 0
      BY <3>1, <3>2
    <3>3. CASE Shown(job'[j].through) /\ phase = "live"
      BY <3>3 DEF Shown
    <3> QED BY <1>2, <3>2, <3>3
  <2> QED BY <1>3, <2>1 DEF Past
<1>9. TaskInv(j)'
  BY <1>2, <1>8 DEF TaskInv, Exact, Whole, Joined, Pulled, Paged, Merging, Pulling
<1>10. Dated(j)'
  BY <1>1, <1>2, <1>3 DEF Dated, Pulling
<1> QED
  BY <1>2, <1>7, <1>9, <1>10 DEF CertInv

\* A page of the server is an interval that reaches as far as it says.
LEMMA PageForShape ==
    ASSUME ReplicaInv, NEW r, r.way \in {"latest", "before", "after"}, r.anchor \in Nat, r.anchor <= head,
           DOMAIN r.got = PageFor(r.way, r.anchor),
           r.atEnd = (Cardinality(PageFor(r.way, r.anchor)) < PageSize)
    PROVE  /\ Shaped(r)
           /\ AtEnd(r) => \A s \in Posts : s <= head => ~Denies(r, s)
<1> DEFINE got == DOMAIN r.got
           way == r.way
           anchor == r.anchor
<1>1. PageSize \in Nat /\ PageSize > 0 /\ head \in Nat /\ (\A s \in Posts : s \in Nat /\ s > 0) /\ anchor \in Nat
      /\ anchor <= head
  BY ReplicaAssumption, ServerFacts DEF ReplicaAssumption
<1>2. /\ way = "latest" => got = {s \in 1..head : s > head - PageSize}
      /\ way = "before" => got = {s \in 1..head : s < anchor /\ s >= anchor - PageSize}
      /\ way = "after" => got = {s \in 1..head : s > anchor /\ s <= anchor + PageSize}
  BY DEF PageFor
<1>3. way \in {"latest", "before", "after"}
  OBVIOUS
<1>4. AtEnd(r) => way = "latest" \/ (way = "after" /\ Cardinality(got) < PageSize)
  BY DEF AtEnd
<1> HIDE DEF got, way, anchor
<1>5. \A s, t \in got, u \in Posts : s <= u /\ u <= t => u \in got
  BY <1>1, <1>2, <1>3
<1>6. way = "before" => /\ \A s \in got : s < anchor
                        /\ \A s \in got, u \in Posts : s <= u /\ u < anchor => u \in got
  BY <1>1, <1>2
<1>7. way = "after" => /\ \A s \in got : s > anchor
                       /\ \A s \in got, u \in Posts : anchor < u /\ u <= s => u \in got
  BY <1>1, <1>2
<1>8. Shaped(r)
  BY <1>5, <1>6, <1>7 DEF Shaped, got, way, anchor
<1>9. ASSUME AtEnd(r), NEW s \in Posts, s <= head, \A t \in got : t < s, way = "after" => s > anchor
      PROVE  FALSE
  <2>1. CASE way = "latest"
    <3>1. head \in got
      BY <1>1, <1>2, <1>9, <2>1
    <3> QED BY <1>1, <1>9, <3>1
  <2>2. CASE way = "after" /\ Cardinality(got) < PageSize
    <3>1. head < anchor + PageSize
      <4> SUFFICES ASSUME head >= anchor + PageSize PROVE FALSE
        BY <1>1
      <4>1. got = (anchor + 1)..(anchor + PageSize)
        <5>1. got = {u \in 1..head : u > anchor /\ u <= anchor + PageSize}
          BY <1>2, <2>2
        <5>2. \A u : u \in got <=> u \in (anchor + 1)..(anchor + PageSize)
          BY <1>1, <5>1
        <5> HIDE DEF got
        <5> QED BY <5>2
      <4>2. anchor + 1 \in Int /\ anchor + PageSize \in Int /\ anchor + 1 <= anchor + PageSize
        BY <1>1
      <4>3. Cardinality((anchor + 1)..(anchor + PageSize)) = (anchor + PageSize) - (anchor + 1) + 1
        BY <1>1, <4>2, FS_Interval
      <4>4. Cardinality(got) = PageSize
        BY <1>1, <4>1, <4>3
      <4> QED BY <1>1, <2>2, <4>4
    <3>2. s \in got
      BY <1>1, <1>2, <1>9, <2>2, <3>1
    <3> QED BY <1>1, <1>9, <3>2
  <2> QED BY <1>4, <1>9, <2>1, <2>2
<1> QED
  BY <1>8, <1>9 DEF Denies, got, way, anchor

LEMMA AnswerPageCert ==
    ASSUME NEW j \in Jobs, CertInv(j), AnswerPage(j)
    PROVE  CertInv(j)'
<1>1. ReplicaInv /\ Dated(j) /\ Past(j)
  BY DEF CertInv, TaskInv
<1>2. /\ ReplicaInv' /\ UNCHANGED <<serverVars, diskVars, linkVars>>
      /\ job[j].step = "asked" /\ job'[j].step = "answered"
      /\ job'[j].through = job[j].through
      /\ job'[j].way = job[j].way /\ job'[j].anchor = job[j].anchor
      /\ DOMAIN job'[j].got = PageFor(job[j].way, job[j].anchor)
      /\ \A s \in DOMAIN job'[j].got : job'[j].got[s].rev = rev[s]
      /\ job'[j].atEnd = (Cardinality(PageFor(job[j].way, job[j].anchor)) < PageSize)
  BY <1>1, AnswerPageIs
<1>3. head' = head /\ rev' = rev /\ clock' = clock /\ rows' = rows /\ cover' = cover /\ wire' = wire
  BY <1>2 DEF serverVars, diskVars, linkVars
<1>4. Due(j)' = Due(j)
  BY <1>2, <1>3 DEF Due, PageSteps
<1>5. Certified(j)' /\ EndKnown(j)'
  BY <1>2, <1>4, CertStays
<1>6. Dated(j)' /\ Past(j)'
  BY <1>1, <1>2, <1>3 DEF Dated, Past, PageSteps, Pulling
<1>7. Exact(j)'
  BY <1>2, <1>3 DEF Exact
<1>8. Whole(j)'
  <2>1. job[j].way \in {"latest", "before", "after"} /\ job[j].anchor \in Nat /\ job[j].anchor <= head
    BY <1>1, <1>2, JobIs, JobFacts DEF Dated, PageSteps
  <2> DEFINE r == job'[j]
  <2>2. /\ r.way \in {"latest", "before", "after"} /\ r.anchor \in Nat /\ r.anchor <= head
        /\ DOMAIN r.got = PageFor(r.way, r.anchor)
        /\ r.atEnd = (Cardinality(PageFor(r.way, r.anchor)) < PageSize)
    BY <1>2, <2>1
  <2> HIDE DEF r
  <2>3. Shaped(r) /\ (AtEnd(r) => \A s \in Posts : s <= head => ~Denies(r, s))
    BY <1>1, <2>2, PageForShape
  <2> QED BY <1>3, <2>3 DEF Whole, r
<1>9. Joined(j)' /\ Pulled(j)' /\ Paged(j)' /\ Merging(j)'
  BY <1>2 DEF Joined, Pulled, Paged, Merging, Pulling
<1> QED
  BY <1>2, <1>5, <1>6, <1>7, <1>8, <1>9 DEF CertInv, TaskInv

LEMMA ConnectPageCert ==
    ASSUME NEW j \in Jobs, CertInv(j), ConnectPage(j)
    PROVE  CertInv(j)'
<1>1. ReplicaInv /\ Dated(j) /\ Past(j) /\ Exact(j) /\ Whole(j)
  BY DEF CertInv, TaskInv
<1>2. /\ ReplicaInv' /\ UNCHANGED <<serverVars, linkVars>> /\ job[j].step = "answered"
      /\ MovesTo(j, "store") \/ MovesTo(j, "advance")
      /\ MovesTo(j, "store") =>
            /\ DOMAIN job[j].got # {}
            /\ job[j].way # "latest" => UNCHANGED diskVars /\ cover # NoCover /\ job[j].anchor \in Stored
            /\ job[j].way = "latest" =>
                  \/ cover' = NoCover
                  \/ UNCHANGED diskVars /\ DOMAIN job[j].got \cap Stored # {}
      /\ UNCHANGED diskVars \/ cover' = NoCover
  BY <1>1, ConnectPageIs
<1>3. head' = head /\ rev' = rev /\ clock' = clock /\ wire' = wire
  BY <1>2 DEF serverVars, linkVars
<1>4. /\ job'[j].step \in {"store", "advance"} /\ job'[j].through = job[j].through
      /\ job'[j].anchor = job[j].anchor /\ job'[j].way = job[j].way /\ job'[j].atEnd = job[j].atEnd
      /\ job'[j].got = job[j].got
      /\ job'[j].step = "store" => MovesTo(j, "store")
  BY <1>2 DEF MovesTo
<1>5. cover'.known \in {cover.known, 0} /\ cover.known \in Nat
  BY <1>1, <1>2, CoverFacts DEF diskVars, NoCover
<1>6. \A s \in Posts : rev[s] \in Due(j)' => rev[s] \in Due(j)
  <2> SUFFICES ASSUME NEW s \in Posts, rev[s] \in Due(j)' PROVE rev[s] \in Due(j)
    OBVIOUS
  <2>1. rev[s] \in Nat /\ rev[s] \in Revisions
    BY <1>1, ServerFacts
  <2>2. rev[s] <= cover'.known \/ rev[s] <= job[j].through
    BY <1>4 DEF Due
  <2> QED BY <1>2, <1>5, <2>1, <2>2 DEF Due, PageSteps
<1>7. Certified(j)' /\ EndKnown(j)'
  <2>1. CASE cover' = NoCover
    BY <2>1 DEF Certified, EndKnown, Covers
  <2>2. CASE UNCHANGED diskVars
    BY <1>2, <1>6, <2>2, CertStays
  <2> QED BY <1>2, <2>1, <2>2
<1>8. Dated(j)'
  <2>1. clock \in Nat
    BY <1>1, ServerFacts
  <2> QED BY <1>1, <1>2, <1>3, <1>4, <1>5, <2>1 DEF Dated, PageSteps, Pulling
<1>9. Past(j)'
  BY <1>1, <1>2, <1>3, <1>4 DEF Past, PageSteps
<1>10. DOMAIN job[j].got \subseteq Posts
  BY <1>1, JobFacts
<1>11. Exact(j)'
  BY <1>1, <1>2, <1>3, <1>4, <1>6, <1>10 DEF Exact
<1>12. Whole(j)'
  <2>1. job'[j].step = "store" => Shaped(job[j]) /\ (AtEnd(job[j]) =>
              \A s \in Posts : s <= head /\ Denies(job[j], s) => rev[s] \notin Due(j)')
    BY <1>1, <1>2, <1>6 DEF Whole
  <2>2. Shaped(job[j]) => Shaped(job'[j])
    BY <1>4 DEF Shaped
  <2>3. AtEnd(job'[j]) => AtEnd(job[j])
    BY <1>4 DEF AtEnd
  <2>4. \A s \in Posts : Denies(job'[j], s) => Denies(job[j], s)
    BY <1>4 DEF Denies
  <2> QED BY <1>3, <1>4, <2>1, <2>2, <2>3, <2>4 DEF Whole
<1>13. Joined(j)'
  <2> SUFFICES ASSUME job'[j].step = "store"
               PROVE  /\ DOMAIN job[j].got # {}
                      /\ job[j].way # "latest" =>
                            /\ cover' # NoCover /\ job[j].anchor <= cover'.newest
                            /\ job[j].anchor >= cover'.oldest \/ Full'
                      /\ job[j].way = "latest" => \/ cover' = NoCover \/ cover'.reachedNewest
                                                  \/ \E s \in DOMAIN job[j].got : s <= cover'.newest
    BY <1>4 DEF Joined
  <2>1. MovesTo(j, "store")
    BY <1>4
  <2>2. CASE job[j].way # "latest"
    <3>1. UNCHANGED diskVars /\ cover # NoCover /\ job[j].anchor \in Stored
      BY <1>2, <2>1, <2>2
    <3>2. cover.oldest <= job[j].anchor /\ job[j].anchor <= cover.newest
      BY <1>1, <3>1, CoverFacts
    <3>3. cover.oldest \in Nat /\ job[j].anchor \in Nat
      BY <1>1, CoverFacts, JobFacts
    <3> QED BY <1>2, <2>1, <2>2, <3>1, <3>2, <3>3 DEF diskVars
  <2>3. CASE job[j].way = "latest" /\ cover' # NoCover
    <3>1. UNCHANGED diskVars /\ DOMAIN job[j].got \cap Stored # {}
      BY <1>2, <2>1, <2>3
    <3>2. PICK s \in DOMAIN job[j].got : s \in Stored
      BY <3>1
    <3>3. cover # NoCover
      BY <3>1, <2>3 DEF diskVars
    <3>4. s <= cover.newest
      BY <1>1, <3>2, <3>3, CoverFacts
    <3> QED BY <1>2, <2>1, <2>3, <3>1, <3>4 DEF diskVars
  <2> QED BY <1>2, <2>1, <2>2, <2>3
<1>14. Pulled(j)' /\ Paged(j)' /\ Merging(j)'
  BY <1>4 DEF Pulled, Paged, Merging, Pulling
<1> QED
  BY <1>2, <1>7, <1>8, <1>9, <1>11, <1>12, <1>13, <1>14 DEF CertInv, TaskInv


\* A due post that a page brings into the window is on the page: the page is an
\* interval that touches the window, and nothing is due beyond a page or a
\* window that reaches the end.
LEMMA PageBrings ==
    ASSUME NEW j \in Jobs, CertInv(j), ReplicaInv', job[j].step = "store", NEW rn, Saved(job[j].got, TRUE, rn),
           NEW s \in Posts, s <= head, rev[s] \in Due(j), Covers(cover', s), ~Covers(cover, s)
    PROVE  s \in DOMAIN job[j].got /\ ~Collides(job[j].got, TRUE)
<1>1. ReplicaInv /\ EndKnown(j) /\ Whole(j) /\ Joined(j)
  BY DEF CertInv, TaskInv
<1> DEFINE got == DOMAIN job[j].got
           way == job[j].way
           anchor == job[j].anchor
<1>2. /\ got \subseteq Posts /\ (\A t \in got : t \in Nat) /\ s \in Nat /\ anchor \in Nat
      /\ cover.oldest \in Nat /\ cover.newest \in Nat
      /\ cover # NoCover => cover.oldest <= cover.newest
  BY <1>1, JobFacts, CoverFacts, PostsFinite
<1>3. Shaped(job[j]) /\ (AtEnd(job[j]) => ~Denies(job[j], s))
  BY <1>1 DEF Whole
<1>4. /\ \A t, u \in got : t <= s /\ s <= u => s \in got
      /\ way = "before" => /\ \A t \in got : t < anchor
                           /\ \A t \in got : t <= s /\ s < anchor => s \in got
      /\ way = "after" => /\ \A t \in got : t > anchor
                          /\ \A t \in got : anchor < s /\ s <= t => s \in got
  BY <1>3 DEF Shaped
<1>5. way = "latest" => \E t \in got : s <= t
  <2>1. way = "latest" => ~(\A t \in got : t < s)
    BY <1>3 DEF AtEnd, Denies
  <2> QED BY <1>2, <2>1
<1>6. way \in {"latest", "before", "after"}
  BY <1>1, JobIs
<1>7. /\ way # "latest" => /\ cover # NoCover /\ anchor <= cover.newest
                           /\ anchor >= cover.oldest \/ Full
      /\ way = "latest" => \/ cover = NoCover \/ cover.reachedNewest
                           \/ \E t \in got : t <= cover.newest
  BY <1>1 DEF Joined
<1>8. cover # NoCover /\ s > cover.newest => ~cover.reachedNewest
  BY <1>1 DEF EndKnown
<1>9. IF cover = NoCover THEN \E t \in got, u \in got : t <= s /\ s <= u
      ELSE \/ s > cover.newest /\ \E u \in got : s <= u
           \/ s < cover.oldest /\ ~Full /\ \E t \in got : t <= s
  BY DEF Saved
<1> HIDE DEF got, way, anchor
<1>10. s \in got
  <2>1. CASE cover = NoCover
    BY <1>4, <1>9, <2>1
  <2>2. CASE cover # NoCover /\ s > cover.newest /\ \E u \in got : s <= u
    <3>1. PICK u \in got : s <= u
      BY <2>2
    <3>2. u \in Nat
      BY <1>2
    <3>3. CASE way = "latest"
      <4>1. PICK t \in got : t <= cover.newest
        BY <1>7, <1>8, <2>2, <3>3
      <4>2. t <= s
        BY ONLY <1>2, <2>2, <4>1
      <4> QED BY <1>4, <3>1, <4>2
    <3>4. CASE way = "before"
      <4>1. u < anchor /\ anchor <= cover.newest
        BY <1>4, <1>7, <3>4
      <4> QED BY ONLY <1>2, <2>2, <3>1, <3>2, <4>1
    <3>5. CASE way = "after"
      <4>1. anchor <= cover.newest
        BY <1>7, <3>5
      <4>2. anchor < s
        BY ONLY <1>2, <2>2, <4>1
      <4> QED BY <1>4, <3>1, <3>5, <4>2
    <3> QED BY <1>6, <3>3, <3>4, <3>5
  <2>3. CASE cover # NoCover /\ s < cover.oldest /\ ~Full /\ \E t \in got : t <= s
    <3>1. PICK t \in got : t <= s
      BY <2>3
    <3>2. t \in Nat
      BY <1>2
    <3>3. CASE way = "latest"
      BY <1>4, <1>5, <3>1, <3>3
    <3>4. CASE way # "latest"
      <4>1. anchor >= cover.oldest
        BY <1>7, <2>3, <3>4
      <4>2. s < anchor
        BY ONLY <1>2, <2>3, <4>1
      <4>3. CASE way = "before"
        BY <1>4, <3>1, <4>2, <4>3
      <4>4. CASE way = "after"
        <5>1. t > anchor
          BY <1>4, <4>4
        <5> QED BY ONLY <1>2, <3>1, <3>2, <4>2, <5>1
      <4> QED BY <1>6, <3>4, <4>3, <4>4
    <3> QED BY <3>3, <3>4
  <2> QED BY <1>9, <2>1, <2>2, <2>3
<1>11. ~Collides(job[j].got, TRUE)
  <2> SUFFICES ASSUME Collides(job[j].got, TRUE) PROVE FALSE
    OBVIOUS
  <2>1. cover' = cover
    BY DEF Saved
  <2> QED BY <2>1
<1> QED
  BY <1>10, <1>11 DEF got

LEMMA StorePageCert ==
    ASSUME NEW j \in Jobs, CertInv(j), StorePage(j)
    PROVE  CertInv(j)'
<1>1. ReplicaInv /\ Dated(j) /\ Past(j) /\ Certified(j) /\ EndKnown(j) /\ Exact(j) /\ Whole(j) /\ Joined(j)
  BY DEF CertInv, TaskInv
<1> DEFINE inc == job[j].got
           rn == AtEnd(job[j])
           D == Due(j)
<1>2. /\ ReplicaInv' /\ UNCHANGED <<serverVars, linkVars>> /\ job[j].step = "store"
      /\ Saved(inc, TRUE, rn)
      /\ Over(j) \/ MovesTo(j, "advance")
  BY <1>1, StorePageIs DEF AtEnd
<1>3. head' = head /\ rev' = rev /\ clock' = clock /\ wire' = wire
  BY <1>2 DEF serverVars, linkVars
<1>4. \/ job'[j].step = "advance" /\ job'[j].through = job[j].through /\ job'[j].anchor = job[j].anchor
      \/ job'[j].step = "idle" /\ job'[j].through = 0
  BY <1>1, <1>2, OverIs DEF MovesTo, IdleJob
<1>5. cover'.known = cover.known
  BY <1>2 DEF Saved
<1>6. Due(j)' \subseteq D
  BY <1>2, <1>3, <1>4, <1>5 DEF Due, PageSteps
<1>7. DOMAIN inc \subseteq Posts
  BY <1>1, JobFacts
<1>8. \A s \in Posts : s <= head /\ Covers(cover', s) /\ rev[s] \in D =>
              \/ Current(s)
              \/ /\ ~Collides(inc, TRUE) /\ s \in DOMAIN inc /\ inc[s].rev = rev[s]
                 /\ TRUE \/ Covers(cover, s)
  <2> SUFFICES ASSUME NEW s \in Posts, s <= head, Covers(cover', s), rev[s] \in D, ~Current(s)
               PROVE  ~Collides(inc, TRUE) /\ s \in DOMAIN inc /\ inc[s].rev = rev[s]
    OBVIOUS
  <2>1. ~Covers(cover, s)
    BY <1>1 DEF Certified
  <2>2. s \in DOMAIN inc /\ ~Collides(inc, TRUE)
    BY <1>2, <2>1, PageBrings
  <2> QED BY <1>1, <1>2, <2>2 DEF Exact
<1>9. cover.reachedNewest =>
              \A s \in Posts : s <= head /\ s > cover.newest /\ rev[s] \in D => s \in DOMAIN inc /\ TRUE /\ ~Collides(inc, TRUE)
  <2>1. cover.reachedNewest => cover # NoCover
    BY <1>1, CoverFacts
  <2> QED BY <1>1, <2>1 DEF EndKnown
<1>10. TRUE /\ rn /\ ~cover.reachedNewest =>
              \A s \in Posts : s <= head /\ (\A u \in DOMAIN inc : u < s) /\ (cover # NoCover => s > cover.newest)
                               => rev[s] \notin D
  <2> SUFFICES ASSUME AtEnd(job[j]), NEW s \in Posts, s <= head, \A u \in DOMAIN inc : u < s,
                      cover # NoCover => s > cover.newest
               PROVE  rev[s] \notin D
    OBVIOUS
  <2>1. job[j].way = "after" => s > job[j].anchor
    <3> SUFFICES ASSUME job[j].way = "after" PROVE s > job[j].anchor
      OBVIOUS
    <3>1. cover # NoCover /\ job[j].anchor <= cover.newest
      BY <1>1, <1>2 DEF Joined
    <3>2. job[j].anchor \in Nat /\ cover.newest \in Nat /\ s \in Nat
      BY <1>1, JobFacts, CoverFacts, PostsFinite
    <3> QED BY ONLY <3>1, <3>2, cover # NoCover => s > cover.newest
  <2>2. Denies(job[j], s)
    BY <2>1 DEF Denies
  <2> QED BY <1>1, <1>2, <2>2 DEF Whole
<1> HIDE DEF inc, rn, D
<1>11. \A s \in Posts : s <= head /\ Covers(cover', s) /\ rev[s] \in D => rows'[s].rev = rev[s]
  BY <1>1, <1>2, <1>8, SavedCertifies
<1>12. cover' # NoCover /\ cover'.reachedNewest =>
              \A s \in Posts : s <= head /\ s > cover'.newest => rev[s] \notin D
  BY <1>1, <1>2, <1>7, <1>9, <1>10, SavedEnds
<1>13. Certified(j)' /\ EndKnown(j)'
  BY <1>3, <1>6, <1>11, <1>12 DEF Certified, EndKnown, Current
<1>14. Dated(j)'
  <2>1. clock \in Nat
    BY <1>1, ServerFacts
  <2> QED BY <1>1, <1>2, <1>3, <1>4, <1>5, <2>1 DEF Dated, PageSteps, Pulling
<1>15. Past(j)'
  BY <1>1, <1>2, <1>3, <1>4 DEF Past, PageSteps
<1>16. Exact(j)' /\ Whole(j)' /\ Joined(j)' /\ Pulled(j)' /\ Paged(j)' /\ Merging(j)'
  BY <1>4 DEF Exact, Whole, Joined, Pulled, Paged, Merging, Pulling
<1> QED
  BY <1>2, <1>13, <1>14, <1>15, <1>16 DEF CertInv, TaskInv

\* The cursor moves to what the request was good for.
LEMMA AdvanceCert ==
    ASSUME NEW j \in Jobs, CertInv(j), ReplicaInv', UNCHANGED serverVars, NEW sum,
           job[j].step \in PageSteps \cup {"publish"}, Advanced(job[j].through, sum), Over(j)
    PROVE  CertInv(j)'
<1>1. ReplicaInv /\ Dated(j) /\ Certified(j) /\ EndKnown(j)
  BY DEF CertInv
<1>2. head' = head /\ rev' = rev /\ clock' = clock
  BY DEF serverVars
<1>3. /\ rows' = rows /\ (cover = NoCover <=> cover' = NoCover)
      /\ cover'.oldest = cover.oldest /\ cover'.newest = cover.newest
      /\ cover'.reachedNewest = cover.reachedNewest
      /\ cover # NoCover =>
            cover'.known = IF job[j].through > cover.known THEN job[j].through ELSE cover.known
      /\ cover = NoCover => cover' = cover
  BY DEF Advanced
<1>4. job'[j].step = "idle" /\ job'[j].through = 0
  BY <1>1, OverIs DEF IdleJob
<1>5. TaskInv(j)'
  BY <1>4, IdleTask
<1>6. \A s \in Posts : cover # NoCover /\ rev[s] \in Due(j)' => rev[s] \in Due(j)
  BY <1>2, <1>3, <1>4 DEF Due, PageSteps
<1>7. \A s \in Posts : Covers(cover', s) <=> Covers(cover, s)
  BY <1>3 DEF Covers
<1>8. Certified(j)'
  BY <1>1, <1>2, <1>3, <1>6, <1>7 DEF Certified, Current, Covers
<1>9. EndKnown(j)'
  BY <1>1, <1>2, <1>3, <1>6 DEF EndKnown
<1>10. Dated(j)'
  <2>1. clock \in Nat /\ cover.known \in Nat
    BY <1>1, ServerFacts, CoverFacts
  <2>2. cover'.known <= clock
    BY <1>1, <1>3, <2>1 DEF Dated
  <2> QED BY <1>2, <1>4, <2>1, <2>2 DEF Dated, PageSteps, Pulling
<1> QED
  BY <1>5, <1>8, <1>9, <1>10 DEF CertInv

LEMMA AdvanceAfterPageCert ==
    ASSUME NEW j \in Jobs, CertInv(j), AdvanceAfterPage(j)
    PROVE  CertInv(j)'
<1>1. ReplicaInv
  BY DEF CertInv
<1>2. /\ ReplicaInv' /\ UNCHANGED serverVars /\ job[j].step = "advance"
      /\ Advanced(job[j].through, NoSum) /\ Over(j)
  BY <1>1, AdvanceAfterPageIs
<1> QED
  BY <1>2, AdvanceCert DEF PageSteps


-----------------------------------------------------------------------------
(***************************************************************************)
(* Revision catch-up: pulling the range.                                   *)
(***************************************************************************)
LEMMA AskRevisionsCert ==
    ASSUME NEW j \in Jobs, CertInv(j), AskRevisions(j)
    PROVE  CertInv(j)'
<1>1. ReplicaInv /\ Dated(j)
  BY DEF CertInv
<1>2. /\ ReplicaInv' /\ UNCHANGED <<serverVars, linkVars, diskVars>>
      /\ job'[j].step = "compare" /\ job'[j].through = clock
  BY <1>1, AskRevisionsIs
<1>3. head' = head /\ rev' = rev /\ clock' = clock /\ cover' = cover
  BY <1>2 DEF serverVars, diskVars
<1>4. Due(j)' \subseteq Due(j)
  BY <1>2, <1>3 DEF Due, PageSteps
<1>5. Certified(j)' /\ EndKnown(j)'
  BY <1>2, <1>4, CertStays
<1>6. TaskInv(j)'
  BY <1>2 DEF TaskInv, Past, Exact, Whole, Joined, Pulled, Paged, Merging, Pulling, PageSteps
<1>7. Dated(j)'
  <2>1. clock \in Nat
    BY <1>1, ServerFacts
  <2> QED BY <1>1, <1>2, <1>3, <2>1 DEF Dated, PageSteps, Pulling
<1> QED
  BY <1>2, <1>5, <1>6, <1>7 DEF CertInv

\* A pull that begins at the cursor, or behind it, lacks nothing yet.
LEMMA PullBegins ==
    ASSUME NEW j \in Jobs, CertInv(j), ReplicaInv', UNCHANGED <<serverVars, diskVars>>,
           job'[j].step \in {"range", "commit"}, job'[j].from <= cover.known, job'[j].through <= clock,
           job'[j].step = "commit" => job'[j].through <= cover.known
    PROVE  CertInv(j)'
<1>1. ReplicaInv /\ Dated(j)
  BY DEF CertInv
<1>2. head' = head /\ rev' = rev /\ clock' = clock /\ cover' = cover
  BY DEF serverVars, diskVars
<1>3. Due(j)' \subseteq Due(j)
  BY <1>2 DEF Due, PageSteps
<1>4. Certified(j)' /\ EndKnown(j)'
  BY <1>3, CertStays
<1>5. job'[j].from \in Nat /\ job'[j].through \in Nat
  <2>1. job' \in [Jobs -> JobRecords]
    BY DEF ReplicaInv, JobTypes
  <2>2. job'[j] \in JobRecords
    BY <2>1
  <2> QED BY <2>2 DEF JobRecords
<1>6. cover.known \in Nat /\ clock \in Nat /\ \A s \in Posts : rev[s] \in Nat
  BY <1>1, CoverFacts, ServerFacts
<1>7. Pulled(j)'
  BY <1>2, <1>5, <1>6 DEF Pulled
<1>8. Past(j)' /\ Exact(j)' /\ Whole(j)' /\ Joined(j)' /\ Paged(j)' /\ Merging(j)'
  BY DEF Past, Exact, Whole, Joined, Paged, Merging, PageSteps
<1>9. Dated(j)'
  BY <1>1, <1>2, <1>5, <1>6 DEF Dated, PageSteps
<1> QED
  BY <1>4, <1>7, <1>8, <1>9 DEF CertInv, TaskInv

LEMMA CompareRevisionsCert ==
    ASSUME NEW j \in Jobs, CertInv(j), CompareRevisions(j)
    PROVE  CertInv(j)'
<1>1. ReplicaInv /\ Dated(j)
  BY DEF CertInv
<1>2. /\ ReplicaInv' /\ UNCHANGED <<serverVars, diskVars>>
      /\ \/ Over(j)
         \/ /\ job'[j].from = cover.known /\ job'[j].step \in {"commit", "range"}
            /\ job'[j].step = "commit" => job[j].through <= cover.known
            /\ job'[j].through = job[j].through
  BY <1>1, CompareRevisionsIs
<1>3. CASE Over(j)
  BY <1>1, <1>2, <1>3, OverIs, OverCert
<1>4. CASE ~Over(j)
  <2>1. cover.known \in Nat
    BY <1>1, CoverFacts
  <2>2. /\ job'[j].step \in {"range", "commit"} /\ job'[j].from <= cover.known /\ job'[j].through <= clock
        /\ job'[j].step = "commit" => job'[j].through <= cover.known
    BY <1>1, <1>2, <1>4, <2>1 DEF Dated
  <2> QED BY <1>2, <2>2, PullBegins
<1> QED
  BY <1>3, <1>4

LEMMA RevalidateCert ==
    ASSUME NEW j \in Jobs, Alone(j), CertInv(j), Revalidate(j)
    PROVE  CertInv(j)'
<1>1. ReplicaInv
  BY DEF CertInv
<1>2. /\ ReplicaInv' /\ UNCHANGED <<serverVars, diskVars>>
      /\ job'[j].step = "range" /\ job'[j].through <= clock /\ job'[j].from <= cover.known
  BY <1>1, RevalidateIs DEF Alone
<1> QED
  BY <1>2, PullBegins

\* ORDER BY revision LIMIT: what is cut off comes after a full page.
LEMMA CutKeepsFirst ==
    ASSUME ReplicaInv, NEW S, S \subseteq Posts, NEW s \in S, s \notin CutByRevision(S)
    PROVE  /\ Cardinality(CutByRevision(S)) >= RangeLimit
           /\ \A t \in CutByRevision(S) : rev[t] < rev[s]
<1> DEFINE Under(t) == {u \in S : rev[u] < rev[t]}
           cut == CutByRevision(S)
<1>1. cut = {t \in S : Cardinality(Under(t)) < RangeLimit}
  BY DEF CutByRevision
<1>2. RangeLimit \in Nat /\ \A t \in S : rev[t] \in Nat
  BY ServerFacts, ReplicaAssumption DEF ReplicaAssumption
<1>3. IsFiniteSet(S)
  BY PostsFinite, FS_Subset
<1>4. ASSUME NEW T, T \subseteq S PROVE IsFiniteSet(T) /\ Cardinality(T) \in Nat
  BY <1>3, <1>4, FS_Subset, FS_CardinalityType
<1>5. ASSUME NEW T, T \subseteq S, NEW R, R \subseteq T PROVE Cardinality(R) <= Cardinality(T)
  <2>1. IsFiniteSet(T)
    BY <1>4, <1>5
  <2> QED BY <1>5, <2>1, FS_Subset
<1> HIDE DEF cut
<1>6. ASSUME NEW t \in S PROVE Under(t) \subseteq S /\ Cardinality(Under(t)) \in Nat
  BY <1>4
<1>7. \A t \in S \ cut : Cardinality(Under(t)) >= RangeLimit
  <2> SUFFICES ASSUME NEW t \in S, t \notin cut PROVE Cardinality(Under(t)) >= RangeLimit
    OBVIOUS
  <2>1. ~(Cardinality(Under(t)) < RangeLimit)
    BY <1>1
  <2>2. Cardinality(Under(t)) \in Nat
    BY <1>6
  <2> HIDE DEF Under
  <2> QED BY <1>2, <2>1, <2>2
<1>8. ASSUME NEW t \in cut PROVE rev[t] < rev[s]
  <2>1. t \in S /\ Cardinality(Under(t)) < RangeLimit
    BY <1>1
  <2> SUFFICES ASSUME rev[s] <= rev[t] PROVE FALSE
    BY <1>2, <2>1
  <2>2. Under(s) \subseteq Under(t)
    BY <1>2, <2>1
  <2>3. Cardinality(Under(s)) <= Cardinality(Under(t))
    BY <1>5, <2>2
  <2>4. Cardinality(Under(s)) >= RangeLimit
    BY <1>7 DEF cut
  <2>5. Cardinality(Under(s)) \in Nat /\ Cardinality(Under(t)) \in Nat
    BY <1>6, <2>1
  <2> HIDE DEF Under
  <2> QED BY ONLY <1>2, <2>1, <2>3, <2>4, <2>5
<1>9. Cardinality(cut) >= RangeLimit
  <2> DEFINE left == {rev[t] : t \in S \ cut}
  <2>1. left \subseteq Nat /\ rev[s] \in left
    BY <1>2 DEF cut
  <2>2. PICK n \in left : \A m \in left : n <= m
    <3>1. clock \in Nat /\ \A t \in S : rev[t] \in 0..clock
      BY ServerFacts
    <3>2. left \subseteq 0..clock
      BY <3>1
    <3> HIDE DEF left
    <3>3. IsFiniteSet(0..clock)
      BY <3>1, FS_Interval
    <3>4. IsFiniteSet(left)
      BY <3>2, <3>3, FS_Subset
    <3>5. left # {} /\ left \subseteq Int
      BY <2>1
    <3>6. Min(left) \in left /\ \A m \in left : Min(left) <= m
      BY <3>4, <3>5, Smallest
    <3> QED BY <3>6
  <2>3. PICK t \in S \ cut : rev[t] = n
    BY <2>2
  <2>4. Under(t) \subseteq cut
    <3> SUFFICES ASSUME NEW u \in S, rev[u] < rev[t], u \notin cut PROVE FALSE
      OBVIOUS
    <3>1. rev[u] \in left
      OBVIOUS
    <3>2. rev[t] <= rev[u]
      BY <2>2, <2>3, <3>1
    <3> QED BY <1>2, <3>2
  <2>5. cut \subseteq S
    BY <1>1
  <2>6. Cardinality(Under(t)) <= Cardinality(cut)
    BY <1>5, <2>4, <2>5
  <2>7. Cardinality(Under(t)) >= RangeLimit /\ Cardinality(Under(t)) \in Nat /\ Cardinality(cut) \in Nat
    BY <1>4, <1>6, <1>7, <2>5
  <2> HIDE DEF Under
  <2> QED BY ONLY <1>2, <2>6, <2>7
<1> QED
  BY <1>8, <1>9 DEF cut

LEMMA AnswerRangeCert ==
    ASSUME NEW j \in Jobs, CertInv(j), AnswerRange(j)
    PROVE  CertInv(j)'
<1>1. ReplicaInv /\ Dated(j) /\ Pulled(j)
  BY DEF CertInv, TaskInv
<1>2. /\ ReplicaInv' /\ UNCHANGED <<serverVars, linkVars, diskVars>> /\ job[j].step = "range"
      /\ job'[j].step = "page" /\ job'[j].through = job[j].through
      /\ job'[j].from = job[j].from /\ job'[j].got = job[j].got
      /\ DOMAIN job'[j].page = CutByRevision(ChangedFor(j))
      /\ \A s \in DOMAIN job'[j].page : job'[j].page[s].rev = rev[s]
  BY <1>1, AnswerRangeIs
<1>3. head' = head /\ rev' = rev /\ clock' = clock /\ cover' = cover
  BY <1>2 DEF serverVars, diskVars
<1>4. Due(j)' = Due(j)
  BY <1>2, <1>3 DEF Due, PageSteps
<1>5. Certified(j)' /\ EndKnown(j)'
  BY <1>2, <1>4, CertStays
<1>6. Dated(j)'
  BY <1>1, <1>2, <1>3 DEF Dated, PageSteps, Pulling
<1>7. Pulled(j)'
  BY <1>1, <1>2, <1>3 DEF Pulled, Pulling
<1>8. head \in Nat /\ head <= MaxPosts /\ MaxPosts \in Nat /\ \A s \in Posts : s \in Nat /\ s > 0
  BY <1>1, ServerFacts, ReplicaAssumption DEF ReplicaInv, ServerTypes, ReplicaAssumption
<1>9. ChangedFor(j) \subseteq Posts
  BY <1>8 DEF ChangedFor, Posts
<1>10. CutByRevision(ChangedFor(j)) \subseteq ChangedFor(j)
  BY DEF CutByRevision
<1>11. Paged(j)'
  <2>1. ASSUME NEW s \in Posts, s <= head, rev[s] > job[j].from, rev[s] <= job[j].through
        PROVE  \/ s \in DOMAIN job'[j].page /\ job'[j].page[s].rev = rev[s]
               \/ /\ Cardinality(DOMAIN job'[j].page) >= RangeLimit
                  /\ \A t \in DOMAIN job'[j].page : job'[j].page[t].rev < rev[s]
    <3>1. s \in ChangedFor(j)
      BY <1>8, <2>1 DEF ChangedFor
    <3>2. CASE s \in CutByRevision(ChangedFor(j))
      BY <1>2, <3>2
    <3>3. CASE s \notin CutByRevision(ChangedFor(j))
      <4>1. /\ Cardinality(CutByRevision(ChangedFor(j))) >= RangeLimit
            /\ \A t \in CutByRevision(ChangedFor(j)) : rev[t] < rev[s]
        BY <1>1, <1>9, <3>1, <3>3, CutKeepsFirst
      <4> QED BY <1>2, <4>1
    <3> QED BY <3>2, <3>3
  <2>2. \A s \in DOMAIN job'[j].page : job'[j].page[s].rev > job[j].from /\ job'[j].page[s].rev <= job[j].through
    BY <1>2, <1>10 DEF ChangedFor
  <2> QED BY <1>2, <1>3, <2>1, <2>2 DEF Paged
<1>12. Past(j)' /\ Exact(j)' /\ Whole(j)' /\ Joined(j)' /\ Merging(j)'
  BY <1>2 DEF Past, Exact, Whole, Joined, Merging, PageSteps
<1> QED
  BY <1>2, <1>5, <1>6, <1>7, <1>11, <1>12 DEF CertInv, TaskInv

\* A save that does not widen the window covers no new post.
LEMMA InsideCovers ==
    ASSUME NEW inc, NEW rn, Saved(inc, FALSE, rn), NEW s \in Posts, Covers(cover', s)
    PROVE  Covers(cover, s)
  BY DEF Saved

\* Such a save leaves what was certified.
LEMMA InsideCert ==
    ASSUME NEW j \in Jobs, CertInv(j), ReplicaInv', NEW inc, NEW rn, Saved(inc, FALSE, rn), UNCHANGED serverVars,
           DOMAIN inc \subseteq Posts, Due(j)' \subseteq Due(j)
    PROVE  Certified(j)' /\ EndKnown(j)'
<1>1. ReplicaInv /\ Certified(j) /\ EndKnown(j)
  BY DEF CertInv
<1>2. head' = head /\ rev' = rev
  BY DEF serverVars
<1>3. Certified(j)'
  <2> SUFFICES ASSUME NEW s \in Posts, s <= head, Covers(cover', s), rev[s] \in Due(j)'
               PROVE  rows'[s].rev = rev[s]
    BY <1>2 DEF Certified, Current
  <2>1. Covers(cover, s)
    BY InsideCovers
  <2>2. Current(s)
    BY <1>1, <2>1 DEF Certified
  <2> QED BY <1>1, <2>2, CurrentStays
<1>4. EndKnown(j)'
  <2> SUFFICES ASSUME cover' # NoCover, cover'.reachedNewest, NEW s \in Posts, s <= head, s > cover'.newest,
                      rev[s] \in Due(j)'
               PROVE  FALSE
    BY <1>2 DEF EndKnown
  <2>1. cover.reachedNewest
    BY DEF Saved
  <2>2. cover # NoCover
    BY <1>1, <2>1, CoverFacts
  <2>3. cover'.newest >= cover.newest
    BY <2>2 DEF Saved
  <2>4. cover' \in CoverRecords
    BY DEF ReplicaInv, DiskTypes
  <2>5. cover'.newest \in Nat /\ cover.newest \in Nat /\ s \in Nat
    BY <1>1, <2>4, CoverFacts, PostsFinite DEF CoverRecords
  <2>6. s > cover.newest
    BY <2>3, <2>5
  <2> QED BY <1>1, <2>1, <2>2, <2>6 DEF EndKnown
<1> QED
  BY <1>3, <1>4

LEMMA StoreRangePageCert ==
    ASSUME NEW j \in Jobs, CertInv(j), StoreRangePage(j)
    PROVE  CertInv(j)'
<1>1. ReplicaInv /\ Dated(j) /\ Pulled(j) /\ Paged(j)
  BY DEF CertInv, TaskInv
<1>2. /\ ReplicaInv' /\ UNCHANGED <<serverVars, linkVars>> /\ job[j].step = "page"
      /\ Saved(job[j].page, FALSE, FALSE)
      /\ job'[j].through = job[j].through
      /\ job'[j].got = Merged(job[j].got, job[j].page)
      /\ \/ /\ job'[j].step = "commit" /\ job'[j].from = job[j].from
            /\ Cardinality(DOMAIN job[j].page) < RangeLimit
         \/ /\ job'[j].step = "range" /\ DOMAIN job[j].page # {}
            /\ \A s \in DOMAIN job[j].page : job[j].page[s].rev <= job'[j].from
            /\ \E s \in DOMAIN job[j].page : job[j].page[s].rev = job'[j].from
  BY <1>1, StoreRangePageIs
<1> DEFINE page == job[j].page
           got == job[j].got
<1>3. head' = head /\ rev' = rev /\ clock' = clock
  BY <1>2 DEF serverVars
<1>4. cover'.known = cover.known
  BY <1>2 DEF Saved
<1>5. Due(j)' = Due(j)
  BY <1>2, <1>3, <1>4 DEF Due, PageSteps
<1>6. /\ DOMAIN page \subseteq Posts /\ DOMAIN got \subseteq Posts
      /\ \A s \in DOMAIN page : page[s].rev \in Nat /\ page[s].rev <= rev[s]
      /\ job[j].from \in Nat /\ job[j].through \in Nat
  BY <1>1, JobFacts
<1>7. Certified(j)' /\ EndKnown(j)'
  BY <1>2, <1>5, <1>6, InsideCert
<1>8. clock \in Nat /\ cover.known \in Nat /\ RangeLimit \in Nat /\ \A s \in Posts : rev[s] \in Nat
  BY <1>1, ServerFacts, CoverFacts, ReplicaAssumption DEF ReplicaAssumption
<1>9. /\ \A s \in Posts : s <= head /\ rev[s] > job[j].from /\ rev[s] <= job[j].through =>
            \/ s \in DOMAIN page /\ page[s].rev = rev[s]
            \/ /\ Cardinality(DOMAIN page) >= RangeLimit
               /\ \A t \in DOMAIN page : page[t].rev < rev[s]
      /\ \A s \in DOMAIN page : page[s].rev > job[j].from /\ page[s].rev <= job[j].through
  BY <1>1, <1>2 DEF Paged
<1>10. \A s \in Posts : s <= head /\ rev[s] > cover.known /\ rev[s] <= job[j].from =>
          s \in DOMAIN got /\ got[s].rev = rev[s]
  BY <1>1, <1>2 DEF Pulled, Pulling
<1>11. Cardinality(DOMAIN page) \in Nat
  BY <1>6, PostsFinite, FS_Subset, FS_CardinalityType
<1>12. job'[j].from \in Nat /\ job'[j].from <= clock
  <2>1. CASE job'[j].from = job[j].from
    BY <1>1, <1>2, <1>6, <2>1 DEF Dated, Pulling
  <2>2. CASE \E s \in DOMAIN page : page[s].rev = job'[j].from
    <3>1. PICK s \in DOMAIN page : page[s].rev = job'[j].from
      BY <2>2
    <3>2. page[s].rev \in Nat /\ page[s].rev <= job[j].through
      BY <1>6, <1>9
    <3>3. job[j].through <= clock
      BY <1>1 DEF Dated
    <3> QED BY <1>6, <1>8, <3>1, <3>2, <3>3
  <2> QED BY <1>2, <2>1, <2>2
<1>13. ASSUME NEW s \in Posts, s <= head, rev[s] > cover.known, s \notin DOMAIN page \/ page[s].rev # rev[s],
              \/ rev[s] <= job'[j].from
              \/ job'[j].step = "commit" /\ rev[s] <= job[j].through
       PROVE  s \in DOMAIN got \ DOMAIN page /\ got[s].rev = rev[s]
  <2>1. rev[s] <= job[j].from
    <3> SUFFICES ASSUME rev[s] > job[j].from PROVE FALSE
      BY <1>6, <1>8
    <3>1. CASE rev[s] <= job[j].through
      <4>1. /\ Cardinality(DOMAIN page) >= RangeLimit
            /\ \A t \in DOMAIN page : page[t].rev < rev[s]
        BY <1>9, <1>13, <3>1
      <4>2. \E t \in DOMAIN page : page[t].rev = job'[j].from
        BY <1>2, <1>8, <1>11, <4>1
      <4>3. job'[j].step # "commit"
        BY <1>2, <1>8, <1>11, <4>1
      <4>4. rev[s] <= job'[j].from
        BY <1>13, <4>3
      <4> QED BY <1>8, <1>12, <4>1, <4>2, <4>4
    <3>2. CASE rev[s] > job[j].through
      <4>1. rev[s] <= job'[j].from
        BY <1>6, <1>8, <1>13, <3>2
      <4>2. CASE job'[j].from = job[j].from
        BY <1>6, <1>8, <4>1, <4>2
      <4>3. CASE \E t \in DOMAIN page : page[t].rev = job'[j].from
        <5>1. job'[j].from <= job[j].through
          BY <1>9, <4>3
        <5> QED BY <1>6, <1>8, <1>12, <3>2, <4>1, <5>1
      <4> QED BY <1>2, <4>2, <4>3
    <3> QED BY <1>6, <1>8, <3>1, <3>2
  <2>2. s \in DOMAIN got /\ got[s].rev = rev[s]
    BY <1>10, <1>13, <2>1
  <2>3. s \notin DOMAIN page
    <3> SUFFICES ASSUME s \in DOMAIN page PROVE FALSE
      OBVIOUS
    <3>1. page[s].rev > job[j].from /\ page[s].rev <= rev[s] /\ page[s].rev \in Nat
      BY <1>6, <1>9
    <3> QED BY <1>6, <1>8, <2>1, <3>1
  <2> QED BY <2>2, <2>3
<1> DEFINE merged == job'[j].got
<1>14. /\ DOMAIN merged = DOMAIN got \cup DOMAIN page
       /\ \A s \in DOMAIN page : merged[s] = page[s]
       /\ \A s \in DOMAIN got \ DOMAIN page : merged[s] = got[s]
  BY <1>2 DEF Merged
<1> HIDE DEF page, got, merged
<1>15. ASSUME NEW s \in Posts, s <= head, rev[s] > cover.known,
              \/ rev[s] <= job'[j].from
              \/ job'[j].step = "commit" /\ rev[s] <= job[j].through
       PROVE  s \in DOMAIN merged /\ merged[s].rev = rev[s]
  BY <1>13, <1>14, <1>15
<1>16. Pulled(j)'
  BY <1>2, <1>3, <1>4, <1>15 DEF Pulled, merged
<1>17. Dated(j)'
  BY <1>1, <1>2, <1>3, <1>4, <1>12 DEF Dated, PageSteps
<1>18. Past(j)' /\ Exact(j)' /\ Whole(j)' /\ Joined(j)' /\ Paged(j)' /\ Merging(j)'
  BY <1>2 DEF Past, Exact, Whole, Joined, Paged, Merging, PageSteps
<1> QED
  BY <1>2, <1>7, <1>16, <1>17, <1>18 DEF CertInv, TaskInv


-----------------------------------------------------------------------------
(***************************************************************************)
(* Revision catch-up: the end of a pull.                                   *)
(***************************************************************************)
LEMMA CommitReadsCert ==
    ASSUME NEW j \in Jobs, CertInv(j), CommitReads(j)
    PROVE  CertInv(j)'
<1>1. ReplicaInv /\ Dated(j) /\ Pulled(j)
  BY DEF CertInv, TaskInv
<1>2. /\ ReplicaInv' /\ UNCHANGED <<serverVars, diskVars, connected, wire>> /\ job[j].step = "commit"
      /\ \/ Over(j)
         \/ /\ cover # NoCover
            /\ job'[j].step = "merge" /\ job'[j].newest = cover.newest
            /\ job'[j].atEnd = cover.reachedNewest
            /\ job'[j].through = job[j].through /\ job'[j].from = job[j].from /\ job'[j].got = job[j].got
  BY <1>1, CommitReadsIs
<1>3. head' = head /\ rev' = rev /\ clock' = clock /\ rows' = rows /\ cover' = cover
  BY <1>2 DEF serverVars, diskVars
<1>4. CASE Over(j)
  BY <1>1, <1>2, <1>4, OverIs, OverCert
<1>5. CASE ~Over(j)
  <2>1. Due(j)' = Due(j)
    BY <1>2, <1>3, <1>5 DEF Due, PageSteps
  <2>2. Certified(j)' /\ EndKnown(j)'
    BY <1>2, <2>1, CertStays
  <2>3. Dated(j)'
    BY <1>1, <1>2, <1>3, <1>5 DEF Dated, PageSteps, Pulling
  <2>4. Pulled(j)'
    BY <1>1, <1>2, <1>3, <1>5 DEF Pulled, Pulling
  <2>5. Past(j)' /\ Exact(j)' /\ Whole(j)' /\ Joined(j)' /\ Paged(j)'
    BY <1>2, <1>5 DEF Past, Exact, Whole, Joined, Paged, PageSteps
  <2>6. Merging(j)'
    <3>1. cover.oldest \in Nat /\ cover.newest \in Nat /\ (cover # NoCover => cover.oldest <= cover.newest)
      BY <1>1, CoverFacts
    <3> QED BY <1>2, <1>3, <1>5, <3>1 DEF Merging
  <2> QED BY <1>2, <2>2, <2>3, <2>4, <2>5, <2>6 DEF CertInv, TaskInv
<1> QED
  BY <1>4, <1>5

LEMMA CommitMergesCert ==
    ASSUME NEW j \in Jobs, CertInv(j), CommitMerges(j)
    PROVE  CertInv(j)'
<1>1. ReplicaInv /\ Dated(j) /\ Pulled(j) /\ Merging(j) /\ Certified(j) /\ EndKnown(j)
  BY DEF CertInv, TaskInv
<1>2. /\ ReplicaInv' /\ UNCHANGED <<serverVars, connected, wire>> /\ job[j].step = "merge"
      /\ Saved(job[j].got, FALSE, FALSE)
      /\ \/ Over(j)
         \/ /\ ~Collides(job[j].got, FALSE)
            /\ MovesTo(j, "append") /\ job[j].atEnd
         \/ /\ ~Collides(job[j].got, FALSE)
            /\ MovesTo(j, "publish") /\ (~job[j].atEnd \/ Beyond(job[j]) = {})
  BY <1>1, CommitMergesIs
<1> DEFINE inc == job[j].got
<1>3. head' = head /\ rev' = rev /\ clock' = clock
  BY <1>2 DEF serverVars
<1>4. cover'.known = cover.known
  BY <1>2 DEF Saved
<1>5. /\ DOMAIN inc \subseteq Posts /\ job[j].newest \in Nat /\ job[j].through \in Nat /\ job[j].atEnd \in BOOLEAN
      /\ cover.known \in Nat /\ clock \in Nat /\ cover.oldest \in Nat /\ cover.newest \in Nat
      /\ cover.reachedNewest \in BOOLEAN
      /\ \A s \in Posts : rev[s] \in Nat /\ s \in Nat
  BY <1>1, JobFacts, CoverFacts, ServerFacts
<1>6. cover' \in CoverRecords
  BY <1>2 DEF ReplicaInv, DiskTypes
<1>7. cover'.oldest \in Nat /\ cover'.newest \in Nat /\ cover'.reachedNewest \in BOOLEAN
  BY <1>6 DEF CoverRecords
<1>8. CASE Over(j)
  <2>1. job'[j].step = "idle" /\ job'[j].through = 0
    BY <1>1, <1>8, OverIs DEF IdleJob
  <2>2. Due(j)' \subseteq Due(j)
    BY <1>3, <1>4, <2>1 DEF Due, PageSteps
  <2>3. Certified(j)' /\ EndKnown(j)'
    BY <1>2, <1>5, <2>2, InsideCert
  <2>4. Dated(j)'
    BY <1>1, <1>3, <1>4, <1>5, <2>1 DEF Dated, PageSteps, Pulling
  <2> QED BY <1>2, <2>1, <2>3, <2>4, IdleTask DEF CertInv
<1>9. CASE ~Over(j)
  <2>1. ~Collides(inc, FALSE) /\ job'[j].step \in {"append", "publish"}
        /\ job'[j].through = job[j].through /\ job'[j].got = job[j].got /\ job'[j].from = job[j].from
        /\ job'[j].newest = job[j].newest /\ job'[j].atEnd = job[j].atEnd
        /\ (job'[j].step = "append" => job[j].atEnd)
        /\ (job'[j].step = "publish" /\ job[j].atEnd => Beyond(job[j]) = {})
    BY <1>2, <1>9 DEF MovesTo
  <2>2. /\ cover # NoCover /\ job[j].newest <= cover.newest
        /\ job[j].atEnd <=> cover.reachedNewest
        /\ cover.oldest <= job[j].newest \/ Full
    BY <1>1, <1>2 DEF Merging
\* What the pull was to bring is there, or lies beyond the window.
  <2>3. ASSUME NEW s \in Posts, s <= head, rev[s] > cover.known, rev[s] <= job[j].through
        PROVE  s \in DOMAIN inc /\ inc[s].rev = rev[s]
    BY <1>1, <1>2, <2>3 DEF Pulled, Pulling
  <2>4. ASSUME NEW s \in Posts, s <= head, Covers(cover', s), rev[s] <= cover.known \/ rev[s] <= job[j].through
        PROVE  rows'[s].rev = rev[s]
    <3>1. Covers(cover, s)
      BY <1>2, <2>4, InsideCovers
    <3>2. CASE rev[s] <= cover.known
      <4>1. Current(s)
        BY <1>1, <1>5, <2>4, <3>1, <3>2, DueIs DEF Certified
      <4> QED BY <1>1, <1>2, <2>4, <4>1, CurrentStays
    <3>3. CASE rev[s] > cover.known /\ rev[s] <= job[j].through
      <4>1. s \in DOMAIN inc /\ inc[s].rev = rev[s]
        BY <2>3, <2>4, <3>3
      <4> QED BY <1>1, <1>2, <2>1, <2>4, <3>1, <4>1, CurrentBecomes
    <3> QED BY <1>5, <2>4, <3>2, <3>3
  <2>5. Certified(j)'
    <3> SUFFICES ASSUME NEW s \in Posts, s <= head, Covers(cover', s), rev[s] \in Due(j)'
                 PROVE  rows'[s].rev = rev[s]
      BY <1>3 DEF Certified, Current
    <3>1. rev[s] <= cover.known \/ rev[s] <= job[j].through
      BY <1>3, <1>4, <2>1 DEF Due
    <3> QED BY <2>4, <3>1
  <2>6. EndKnown(j)'
    <3> SUFFICES ASSUME cover' # NoCover, cover'.reachedNewest, NEW s \in Posts, s <= head, s > cover'.newest,
                        rev[s] \in Due(j)'
                 PROVE  FALSE
      BY <1>3 DEF EndKnown
    <3>1. cover.reachedNewest /\ cover'.newest >= cover.newest
      BY <1>2, <2>2 DEF Saved
    <3>2. s > cover.newest /\ s > job[j].newest
      BY <1>5, <1>7, <2>2, <3>1
    <3>3. rev[s] \in Revisions
      BY <1>1, ServerFacts
    <3>4. ~(rev[s] <= cover.known)
      BY <1>1, <2>2, <3>1, <3>2, <3>3 DEF EndKnown, Due
    <3>5. job'[j].step = "publish" /\ rev[s] <= job[j].through
      BY <1>3, <1>4, <2>1, <3>4 DEF Due, PageSteps
    <3>6. s \in DOMAIN inc
      BY <1>5, <2>3, <3>4, <3>5
    <3>7. s \in Beyond(job[j])
      BY <3>2, <3>6 DEF Beyond
    <3> QED BY <2>1, <2>2, <3>1, <3>5, <3>7
  <2>7. Dated(j)'
    BY <1>1, <1>2, <1>3, <1>4, <2>1 DEF Dated, PageSteps, Pulling
  <2>8. Past(j)' /\ Exact(j)' /\ Whole(j)' /\ Joined(j)' /\ Paged(j)'
    BY <2>1 DEF Past, Exact, Whole, Joined, Paged, PageSteps
  <2>9. Pulled(j)'
    BY <1>1, <1>2, <1>3, <1>4, <2>1 DEF Pulled, Pulling
  <2>10. Merging(j)'
    <3>1. /\ cover' # NoCover /\ job[j].newest <= cover'.newest
          /\ job[j].newest >= cover.oldest \/ Full => job[j].newest >= cover'.oldest \/ Full'
      BY <1>1, <1>2, <1>5, <2>2, SavedTouches
    <3>2. cover'.oldest <= job[j].newest \/ Full'
      BY <1>5, <1>7, <2>2, <3>1
    <3>3. job[j].atEnd <=> cover'.reachedNewest
      BY <1>2, <2>2 DEF Saved
    <3>4. \A s \in Posts : s <= head /\ Covers(cover', s) /\ rev[s] <= job[j].through => rows'[s].rev = rev[s]
      BY <2>4
    <3> QED BY <1>3, <2>1, <3>1, <3>2, <3>3, <3>4 DEF Merging, Current
  <2> QED BY <1>2, <2>5, <2>6, <2>7, <2>8, <2>9, <2>10 DEF CertInv, TaskInv
<1> QED
  BY <1>8, <1>9

\* Appending covers posts beyond the end of the window only.
LEMMA AppendsBeyond ==
    ASSUME NEW j \in Jobs, CertInv(j), ReplicaInv', job[j].step = "append",
           NEW rn, Saved(More(job[j]), TRUE, rn), NEW s \in Posts, Covers(cover', s), ~Covers(cover, s)
    PROVE  cover # NoCover /\ s > cover.newest /\ s > job[j].newest
<1>1. ReplicaInv /\ Merging(j)
  BY DEF CertInv, TaskInv
<1>2. /\ cover # NoCover /\ job[j].newest <= cover.newest /\ (cover.oldest <= job[j].newest \/ Full)
  BY <1>1 DEF Merging
<1>3. \/ s > cover.newest
      \/ s < cover.oldest /\ ~Full /\ \E t \in DOMAIN More(job[j]) : t <= s
  BY <1>2 DEF Saved
<1>4. /\ s \in Nat /\ cover.oldest \in Nat /\ cover.newest \in Nat /\ job[j].newest \in Nat
      /\ DOMAIN job[j].got \subseteq Posts
  BY <1>1, CoverFacts, JobFacts, PostsFinite
<1>5. \A t \in DOMAIN More(job[j]) : t \in Nat /\ t > job[j].newest
  BY <1>1, <1>4, MoreType, PostsFinite DEF Beyond
<1>6. ~(s < cover.oldest /\ ~Full /\ \E t \in DOMAIN More(job[j]) : t <= s)
  BY <1>2, <1>4, <1>5
<1> QED
  BY <1>2, <1>3, <1>4, <1>6

LEMMA CommitAppendsCert ==
    ASSUME NEW j \in Jobs, CertInv(j), CommitAppends(j)
    PROVE  CertInv(j)'
<1>1. ReplicaInv /\ Dated(j) /\ Pulled(j) /\ Merging(j) /\ Certified(j) /\ EndKnown(j)
  BY DEF CertInv, TaskInv
<1> DEFINE inc == More(job[j])
<1>2. /\ ReplicaInv' /\ UNCHANGED <<serverVars, connected, wire>> /\ job[j].step = "append"
      /\ Saved(inc, TRUE, TRUE)
      /\ \/ Over(j)
         \/ MovesTo(j, "publish") /\ ~Collides(inc, TRUE)
  BY <1>1, CommitAppendsIs
<1>3. head' = head /\ rev' = rev /\ clock' = clock
  BY <1>2 DEF serverVars
<1>4. cover'.known = cover.known
  BY <1>2 DEF Saved
<1>5. /\ job[j].newest \in Nat /\ job[j].through \in Nat /\ job[j].atEnd \in BOOLEAN
      /\ cover.known \in Nat /\ clock \in Nat /\ cover.newest \in Nat /\ cover.reachedNewest \in BOOLEAN
      /\ \A s \in Posts : rev[s] \in Nat /\ rev[s] \in Revisions /\ s \in Nat
  BY <1>1, JobFacts, CoverFacts, ServerFacts
<1>6. /\ cover # NoCover /\ job[j].newest <= cover.newest /\ job[j].atEnd /\ cover.reachedNewest
      /\ \A s \in Posts : s <= head /\ Covers(cover, s) /\ rev[s] <= job[j].through =>
            Current(s) \/ s > job[j].newest
  BY <1>1, <1>2 DEF Merging
<1>7. DOMAIN inc = Beyond(job[j]) /\ DOMAIN inc \subseteq Posts /\ \A s \in DOMAIN inc : inc[s] = job[j].got[s]
  <2>1. DOMAIN inc = Beyond(job[j]) /\ inc \in Pages
    BY <1>1, MoreType
  <2>2. DOMAIN inc \subseteq Posts
    BY <2>1, PageType
  <2> QED BY <2>1, <2>2 DEF More
<1> HIDE DEF inc
<1>8. ASSUME NEW s \in Posts, s <= head, rev[s] > cover.known, rev[s] <= job[j].through, s > job[j].newest
      PROVE  s \in DOMAIN inc /\ inc[s].rev = rev[s]
  <2>1. s \in DOMAIN job[j].got /\ job[j].got[s].rev = rev[s]
    BY <1>1, <1>2, <1>8 DEF Pulled, Pulling
  <2>2. s \in Beyond(job[j])
    BY <1>8, <2>1 DEF Beyond
  <2> QED BY <1>7, <2>1, <2>2
<1>9. ASSUME NEW s \in Posts, s <= head, rev[s] <= cover.known
      PROVE  /\ Covers(cover, s) => Current(s)
             /\ ~(s > cover.newest)
  <2>1. rev[s] \in Due(j)
    BY <1>5, <1>9 DEF Due
  <2> QED BY <1>1, <1>6, <1>9, <2>1 DEF Certified, EndKnown
<1>10. ASSUME NEW s \in Posts, Covers(cover', s), ~Covers(cover, s)
       PROVE  s > cover.newest /\ s > job[j].newest
  BY <1>2, <1>10, AppendsBeyond DEF inc
<1>11. \/ job'[j].step = "idle" /\ job'[j].through = 0
       \/ /\ ~Collides(inc, TRUE) /\ job'[j].step = "publish" /\ job'[j].through = job[j].through
          /\ job'[j].newest = job[j].newest /\ job'[j].atEnd = job[j].atEnd
  <2>1. CASE Over(j)
    <3>1. job'[j] = IdleJob
      BY <1>1, <2>1, OverIs
    <3> QED BY <3>1 DEF IdleJob
  <2>2. CASE MovesTo(j, "publish") /\ ~Collides(inc, TRUE)
    BY <2>2 DEF MovesTo
  <2> QED BY <1>2, <2>1, <2>2
<1> DEFINE D == Due(j)'
<1>12. ASSUME NEW s \in Posts, rev[s] \in D
       PROVE  \/ rev[s] <= cover.known
              \/ rev[s] > cover.known /\ rev[s] <= job[j].through /\ ~Collides(inc, TRUE)
  <2>1. \/ rev[s] <= cover.known
        \/ job'[j].step = "publish" /\ rev[s] <= job'[j].through
    BY <1>3, <1>4, <1>12, <1>11 DEF Due, PageSteps
  <2>2. CASE rev[s] <= cover.known
    BY <2>2
  <2>3. CASE ~(rev[s] <= cover.known)
    <3>1. job'[j].step = "publish" /\ rev[s] <= job'[j].through
      BY <2>1, <2>3
    <3>2. ~Collides(inc, TRUE) /\ job'[j].through = job[j].through
      BY <1>11, <3>1
    <3>3. rev[s] > cover.known
      BY <1>5, <2>3
    <3> QED BY <3>1, <3>2, <3>3
  <2> QED BY <2>2, <2>3
<1> HIDE DEF D
<1>13. \A s \in Posts : s <= head /\ Covers(cover', s) /\ rev[s] \in D =>
              \/ Current(s)
              \/ /\ ~Collides(inc, TRUE) /\ s \in DOMAIN inc /\ inc[s].rev = rev[s]
                 /\ TRUE \/ Covers(cover, s)
  <2> SUFFICES ASSUME NEW s \in Posts, s <= head, Covers(cover', s), rev[s] \in D, ~Current(s)
               PROVE  ~Collides(inc, TRUE) /\ s \in DOMAIN inc /\ inc[s].rev = rev[s]
    OBVIOUS
  <2>1. ~(rev[s] <= cover.known)
    BY <1>9, <1>10
  <2>2. rev[s] > cover.known /\ rev[s] <= job[j].through /\ ~Collides(inc, TRUE)
    BY <1>12, <2>1
  <2>3. s > job[j].newest
    BY <1>6, <1>10, <2>2
  <2> QED BY <1>8, <2>2, <2>3
<1>14. cover.reachedNewest =>
              \A s \in Posts : s <= head /\ s > cover.newest /\ rev[s] \in D => s \in DOMAIN inc /\ TRUE /\ ~Collides(inc, TRUE)
  <2> SUFFICES ASSUME NEW s \in Posts, s <= head, s > cover.newest, rev[s] \in D
               PROVE  s \in DOMAIN inc /\ ~Collides(inc, TRUE)
    OBVIOUS
  <2>1. rev[s] > cover.known /\ rev[s] <= job[j].through /\ ~Collides(inc, TRUE)
    BY <1>9, <1>12
  <2>2. s > job[j].newest
    BY <1>5, <1>6
  <2> QED BY <1>8, <2>1, <2>2
<1>15. TRUE /\ TRUE /\ ~cover.reachedNewest =>
              \A s \in Posts : s <= head /\ (\A u \in DOMAIN inc : u < s) /\ (cover # NoCover => s > cover.newest)
                               => rev[s] \notin D
  BY <1>6
<1>16. \A s \in Posts : s <= head /\ Covers(cover', s) /\ rev[s] \in D => rows'[s].rev = rev[s]
  BY <1>1, <1>2, <1>13, SavedCertifies
<1>17. cover' # NoCover /\ cover'.reachedNewest =>
              \A s \in Posts : s <= head /\ s > cover'.newest => rev[s] \notin D
  BY <1>1, <1>2, <1>7, <1>14, <1>15, SavedEnds
<1>18. Certified(j)' /\ EndKnown(j)'
  BY <1>3, <1>16, <1>17 DEF Certified, EndKnown, Current, D
<1>19. Dated(j)'
  <2>1. job'[j].step \in {"idle", "publish"} /\ job'[j].through \in {0, job[j].through}
    BY <1>11
  <2> QED BY <1>1, <1>3, <1>4, <1>5, <2>1 DEF Dated, PageSteps, Pulling
<1>20. Past(j)' /\ Exact(j)' /\ Whole(j)' /\ Joined(j)' /\ Pulled(j)' /\ Paged(j)'
  BY <1>11 DEF Past, Exact, Whole, Joined, Pulled, Paged, PageSteps, Pulling
<1>21. Merging(j)'
  <2>1. cover' # NoCover /\ job[j].newest <= cover'.newest
    BY <1>1, <1>2, <1>5, <1>6, SavedTouches
  <2>2. cover'.reachedNewest
    BY <1>2, <1>6 DEF Saved
  <2> QED BY <1>6, <1>11, <2>1, <2>2 DEF Merging
<1> QED
  BY <1>2, <1>18, <1>19, <1>20, <1>21 DEF CertInv, TaskInv

LEMMA CommitPublishesCert ==
    ASSUME NEW j \in Jobs, CertInv(j), CommitPublishes(j)
    PROVE  CertInv(j)'
<1>1. ReplicaInv
  BY DEF CertInv
<1>2. /\ ReplicaInv' /\ UNCHANGED serverVars /\ job[j].step = "publish"
      /\ Advanced(job[j].through, job[j].sum) /\ Over(j)
  BY <1>1, CommitPublishesIs
<1> QED
  BY <1>2, AdvanceCert

LEMMA RequestFailsCert ==
    ASSUME NEW j \in Jobs, CertInv(j), RequestFails(j)
    PROVE  CertInv(j)'
<1>1. ReplicaInv
  BY DEF CertInv
<1> QED
  BY <1>1, RequestFailsIs, OverIs, OverCert

LEMMA InitCert ==
    ASSUME NEW j \in Jobs, ReplicaInit
    PROVE  CertInv(j)
<1>1. ReplicaInv
  BY InitReplica
<1>2. cover = NoCover /\ cover.known = 0 /\ job[j].step = "idle" /\ job[j].through = 0
  BY DEF ReplicaInit, NoCover, IdleJob
<1>3. Certified(j) /\ EndKnown(j)
  BY <1>2 DEF Certified, EndKnown, Covers
<1>4. Dated(j)
  BY <1>1, <1>2, ServerFacts DEF Dated, PageSteps, Pulling
<1>5. TaskInv(j)
  BY <1>2 DEF TaskInv, Past, Exact, Whole, Joined, Pulled, Paged, Merging, PageSteps, Pulling
<1> QED
  BY <1>1, <1>3, <1>4, <1>5 DEF CertInv

LEMMA NextCert ==
    ASSUME NEW j, Alone(j), CertInv(j), [ReplicaNext]_replicaVars
    PROVE  CertInv(j)'
<1>1. j \in Jobs /\ (\A i \in Jobs : i = j)
  BY DEF Alone
<1>2. ReplicaInv
  BY DEF CertInv
<1>3. CASE ServerNext BY <1>1, <1>3, ServerCert
<1>4. CASE LinkNext BY <1>1, <1>4, LinkCert
<1>5. CASE HandleEvent BY <1>1, <1>5, EventCert
<1>6. CASE EvictPrefix BY <1>1, <1>6, EvictCert
<1>7. CASE PageNext(j)
  <2>1. CASE AskPage(j) BY <1>1, <2>1, AskPageCert
  <2>2. CASE AnswerPage(j) BY <1>1, <2>2, AnswerPageCert
  <2>3. CASE ConnectPage(j) BY <1>1, <2>3, ConnectPageCert
  <2>4. CASE StorePage(j) BY <1>1, <2>4, StorePageCert
  <2>5. CASE AdvanceAfterPage(j) BY <1>1, <2>5, AdvanceAfterPageCert
  <2> QED BY <1>7, <2>1, <2>2, <2>3, <2>4, <2>5 DEF PageNext
<1>8. CASE PullNext(j)
  <2>1. CASE AskRevisions(j) BY <1>1, <2>1, AskRevisionsCert
  <2>2. CASE CompareRevisions(j) BY <1>1, <2>2, CompareRevisionsCert
  <2>3. CASE Revalidate(j) BY <1>1, <2>3, RevalidateCert
  <2>4. CASE AnswerRange(j) BY <1>1, <2>4, AnswerRangeCert
  <2>5. CASE StoreRangePage(j) BY <1>1, <2>5, StoreRangePageCert
  <2>6. CASE CommitReads(j) BY <1>1, <2>6, CommitReadsCert
  <2>7. CASE CommitMerges(j) BY <1>1, <2>7, CommitMergesCert
  <2>8. CASE CommitAppends(j) BY <1>1, <2>8, CommitAppendsCert
  <2>9. CASE CommitPublishes(j) BY <1>1, <2>9, CommitPublishesCert
  <2> QED BY <1>8, <2>1, <2>2, <2>3, <2>4, <2>5, <2>6, <2>7, <2>8, <2>9 DEF PullNext
<1>9. CASE RequestFails(j) BY <1>1, <1>9, RequestFailsCert
<1>10. CASE UNCHANGED replicaVars
  <2>1. UNCHANGED <<serverVars, diskVars>> /\ job' = job /\ wire' = wire
    BY <1>10 DEF replicaVars, linkVars
  <2>2. ReplicaInv'
    BY <1>2, <1>10, NextReplica
  <2> QED BY <1>1, <2>1, <2>2, SameCert
<1> QED
  BY <1>1, <1>3, <1>4, <1>5, <1>6, <1>7, <1>8, <1>9, <1>10 DEF ReplicaNext

LEMMA CertInvariant ==
    ASSUME NEW CONSTANT j, Alone(j)
    PROVE  ReplicaSpec => []CertInv(j)
<1>1. ReplicaInit => CertInv(j)
  BY InitCert DEF Alone
<1>2. CertInv(j) /\ [ReplicaNext]_replicaVars => CertInv(j)'
  BY NextCert
<1> QED
  BY <1>1, <1>2, PTL DEF ReplicaSpec

\* One request at a time, asked for behind the cursor, and no eviction under it.
OneRequest == Admits = {} /\ \E j : Jobs = {j}

LEMMA CertGivesCursor ==
    ASSUME NEW j, CertInv(j)
    PROVE  CursorSound /\ EndSound
<1>1. ReplicaInv
  BY DEF CertInv
<1>2. \A s \in 1..head : s \in Posts /\ s <= head
  <2>1. head \in 0..MaxPosts /\ MaxPosts \in Nat
    BY <1>1, ReplicaAssumption DEF ReplicaInv, ServerTypes, ReplicaAssumption
  <2> QED BY <2>1 DEF Posts
<1>3. \A s \in Posts : rev[s] <= cover.known => rev[s] \in Due(j)
  BY <1>1, DueIs
<1>4. CursorSound
  BY <1>2, <1>3 DEF CursorSound, CertInv, Certified
<1>5. EndSound
  <2> SUFFICES ASSUME cover # NoCover, cover.reachedNewest, NEW s \in (cover.newest + 1)..head
               PROVE  rev[s] > cover.known
    BY DEF EndSound
  <2>1. cover.newest \in Nat /\ cover.known \in Nat /\ head \in Nat
    BY <1>1, CoverFacts, ServerFacts
  <2>2. s \in 1..head /\ s > cover.newest
    BY <2>1
  <2>3. s \in Posts /\ s <= head
    BY <1>2, <2>2
  <2>4. rev[s] \in Nat
    BY <1>1, <2>3, ServerFacts
  <2>5. ~(rev[s] <= cover.known)
    BY <1>3, <2>2, <2>3 DEF CertInv, EndKnown
  <2> QED BY <2>1, <2>4, <2>5
<1> QED
  BY <1>4, <1>5

\* What the cursor claims is in the window is there in its current version: pages,
\* events, pulls, trims and evictions may come between any two steps of the request
\* (advancePostRevision, savePosts, reconcilePostPage, reconcilePostRevisions).
THEOREM CursorSoundHolds == OneRequest => (ReplicaSpec => []CursorSound)
<1> SUFFICES ASSUME OneRequest PROVE ReplicaSpec => []CursorSound
  OBVIOUS
<1>1. PICK j : Alone(j)
  BY DEF OneRequest, Alone
<1>2. ReplicaSpec => []CertInv(j)
  BY <1>1, CertInvariant
<1>3. CertInv(j) => CursorSound
  BY CertGivesCursor
<1> QED
  BY <1>2, <1>3, PTL

\* A window that reaches the end of the conversation lacks only posts the next
\* catch-up asks for (reached_newest against known_revision).
THEOREM EndSoundHolds == OneRequest => (ReplicaSpec => []EndSound)
<1> SUFFICES ASSUME OneRequest PROVE ReplicaSpec => []EndSound
  OBVIOUS
<1>1. PICK j : Alone(j)
  BY DEF OneRequest, Alone
<1>2. ReplicaSpec => []CertInv(j)
  BY <1>1, CertInvariant
<1>3. CertInv(j) => EndSound
  BY CertGivesCursor
<1> QED
  BY <1>2, <1>3, PTL


-----------------------------------------------------------------------------
(***************************************************************************)
(* The revision sums: a sum that agrees was taken when the cursor, or the  *)
(* request, had reached the conversation's revision.                       *)
(***************************************************************************)
LEMMA NextSumIs == RevisionSum' = Total(rev', Posts)
<1>1. RevisionSum = Total(rev, Posts)
  BY RevisionSumIs
<1>2. (RevisionSum = Total(rev, Posts))'
  BY <1>1, PTL
<1> QED
  BY <1>2

LEMMA SumStays == ASSUME UNCHANGED serverVars PROVE RevisionSum' = RevisionSum
<1>1. rev' = rev
  BY DEF serverVars
<1> QED
  BY <1>1, NextSumIs, RevisionSumIs

\* Every change on the server raises the sum above all earlier ones.
LEMMA SumRises ==
    ASSUME ReplicaInv, ServerNext
    PROVE  /\ RevisionSum' > RevisionSum /\ RevisionSum' >= clock' /\ RevisionSum' \in Nat /\ RevisionSum \in Nat
           /\ UNCHANGED <<diskVars, job>>
<1>1. PICK s \in Posts : \E created \in BOOLEAN :
              /\ Changes(s, created)
              /\ \/ created /\ s = head + 1 /\ head' = head + 1
                 \/ ~created /\ s <= head /\ head' = head
  BY ServerIs
<1>2. PICK created \in BOOLEAN :
              /\ Changes(s, created)
              /\ \/ created /\ s = head + 1 /\ head' = head + 1
                 \/ ~created /\ s <= head /\ head' = head
  BY <1>1
<1>3. /\ ReplicaInv' /\ UNCHANGED <<diskVars, connected, phase, job>>
      /\ clock' = clock + 1 /\ rev' = [rev EXCEPT ![s] = clock + 1]
  BY <1>2, ChangesReplica
<1>4. clock \in Nat /\ rev \in [Posts -> Revisions] /\ \A t \in Posts : rev[t] \in Nat /\ rev[t] <= clock
  BY ServerFacts DEF ReplicaInv, ServerTypes
<1>5. /\ \A t \in Posts : t # s => rev'[t] = rev[t]
      /\ rev'[s] = clock + 1
  BY <1>3, <1>4
<1>6. \A t \in Posts : rev[t] \in Nat /\ rev'[t] \in Nat
  BY <1>4, <1>5
<1>7. rev'[s] > rev[s] /\ IsFiniteSet(Posts)
  BY <1>4, <1>5, PostsFinite
<1>8. Total(rev', Posts) > Total(rev, Posts)
  BY <1>5, <1>6, <1>7, TotalGrows
<1>9. Total(rev', Posts) >= rev'[s]
  BY <1>6, <1>7, TotalAtLeast
<1>10. Total(rev', Posts) \in Nat /\ Total(rev, Posts) \in Nat
  BY <1>6, <1>7, SumNat
<1> QED
  BY <1>3, <1>5, <1>8, <1>9, <1>10, NextSumIs, RevisionSumIs

SumTask(i) == job[i].sum <= RevisionSum /\ (job[i].sum = RevisionSum => job[i].through = clock)

Summed ==
    /\ RevisionSum >= clock
    /\ cover.sum <= RevisionSum /\ (cover.sum = RevisionSum => cover.known >= clock)
    /\ \A i \in Jobs : SumTask(i)

SumInv == ReplicaInv /\ Summed

LEMMA SumTypes ==
    ASSUME ReplicaInv
    PROVE  /\ RevisionSum \in Nat /\ clock \in Nat /\ cover.sum \in Int /\ cover.known \in Nat
           /\ \A i \in Jobs : job[i].sum \in Int /\ job[i].through \in Nat
<1>1. RevisionSum \in Nat
  BY RevisionSumNat DEF ReplicaInv
<1>2. \A i \in Jobs : job[i].sum \in Int /\ job[i].through \in Nat
  BY JobIs
<1> QED
  BY <1>1, <1>2, ServerFacts, CoverFacts

LEMMA ServerSummed == ASSUME SumInv, ServerNext PROVE Summed'
<1>1. ReplicaInv /\ Summed
  BY DEF SumInv
<1>2. /\ RevisionSum' > RevisionSum /\ RevisionSum' >= clock' /\ RevisionSum' \in Nat /\ RevisionSum \in Nat
      /\ UNCHANGED <<diskVars, job>>
  BY <1>1, SumRises
<1>3. cover' = cover /\ job' = job
  BY <1>2 DEF diskVars
<1>4. cover.sum \in Int /\ \A i \in Jobs : job[i].sum \in Int
  BY <1>1, SumTypes
<1>5. cover'.sum < RevisionSum' /\ \A i \in Jobs : job'[i].sum < RevisionSum'
  BY <1>1, <1>2, <1>3, <1>4 DEF Summed, SumTask
<1>6. cover'.sum \in Int /\ \A i \in Jobs : job'[i].sum \in Int
  BY <1>3, <1>4
<1>7. \A i \in Jobs : SumTask(i)'
  BY <1>2, <1>5, <1>6 DEF SumTask
<1> QED
  BY <1>2, <1>5, <1>6, <1>7 DEF Summed

\* Other steps: the sum of the record and of the requests come from where they were,
\* or from the server of the moment.
SumMoves(i) ==
    \/ job'[i].sum = NoSum
    \/ job'[i].sum = job[i].sum /\ job'[i].through = job[i].through
    \/ job'[i].sum = RevisionSum /\ job'[i].through = clock

CoverMoves ==
    \/ cover'.sum = 0 /\ cover'.known = 0
    \/ cover'.sum = cover.sum /\ cover'.known >= cover.known
    \/ \E i \in Jobs : cover'.sum = job[i].sum /\ cover'.known >= job[i].through

LEMMA ClientSummed ==
    ASSUME SumInv, ReplicaInv', UNCHANGED serverVars, \A i \in Jobs : SumMoves(i), CoverMoves
    PROVE  Summed'
<1>1. ReplicaInv /\ Summed
  BY DEF SumInv
<1>2. RevisionSum' = RevisionSum /\ clock' = clock
  BY SumStays DEF serverVars
<1>3. /\ RevisionSum \in Nat /\ clock \in Nat /\ cover.sum \in Int /\ cover.known \in Nat
      /\ \A i \in Jobs : job[i].sum \in Int /\ job[i].through \in Nat
  BY <1>1, SumTypes
<1>4. /\ RevisionSum >= clock
      /\ cover.sum <= RevisionSum /\ (cover.sum = RevisionSum => cover.known >= clock)
      /\ \A i \in Jobs : job[i].sum <= RevisionSum /\ (job[i].sum = RevisionSum => job[i].through = clock)
  BY <1>1 DEF Summed, SumTask
<1>5. cover' \in CoverRecords
  BY DEF ReplicaInv, DiskTypes
<1>6. cover'.known \in Nat
  BY <1>5 DEF CoverRecords
<1>7. cover'.sum <= RevisionSum /\ (cover'.sum = RevisionSum => cover'.known >= clock)
  <2>1. CASE cover'.sum = 0 /\ cover'.known = 0
    BY <1>3, <1>4, <2>1
  <2>2. CASE cover'.sum = cover.sum /\ cover'.known >= cover.known
    BY <1>3, <1>4, <1>6, <2>2
  <2>3. CASE \E i \in Jobs : cover'.sum = job[i].sum /\ cover'.known >= job[i].through
    <3>1. PICK i \in Jobs : cover'.sum = job[i].sum /\ cover'.known >= job[i].through
      BY <2>3
    <3>2. job[i].sum <= RevisionSum /\ (job[i].sum = RevisionSum => job[i].through = clock)
      BY <1>4
    <3> QED BY <3>1, <3>2
  <2> QED BY <2>1, <2>2, <2>3 DEF CoverMoves
<1>8. ASSUME NEW i \in Jobs PROVE SumTask(i)'
  <2>1. SumMoves(i)
    OBVIOUS
  <2>2. job'[i].sum <= RevisionSum /\ (job'[i].sum = RevisionSum => job'[i].through = clock)
    <3>1. CASE job'[i].sum = NoSum
      BY <1>3, <3>1 DEF NoSum
    <3>2. CASE job'[i].sum = job[i].sum /\ job'[i].through = job[i].through
      BY <1>4, <3>2
    <3>3. CASE job'[i].sum = RevisionSum /\ job'[i].through = clock
      BY <1>3, <3>3
    <3> QED BY <2>1, <3>1, <3>2, <3>3 DEF SumMoves
  <2> QED BY <1>2, <2>2 DEF SumTask
<1> QED
  BY <1>2, <1>4, <1>7, <1>8 DEF Summed


LEMMA OneMoves ==
    ASSUME ReplicaInv, NEW j \in Jobs, job' = [job EXCEPT ![j] = job'[j]], SumMoves(j)
    PROVE  \A i \in Jobs : SumMoves(i)
<1>1. \A i \in Jobs : i # j => job'[i] = job[i]
  BY DEF ReplicaInv, JobTypes
<1> QED
  BY <1>1 DEF SumMoves

LEMMA OverMoves ==
    ASSUME ReplicaInv, NEW j \in Jobs, Over(j)
    PROVE  \A i \in Jobs : SumMoves(i)
<1>1. job'[j] = IdleJob /\ \A i \in Jobs : i # j => job'[i] = job[i]
  BY DEF Over, ReplicaInv, JobTypes
<1> QED
  BY <1>1 DEF SumMoves, IdleJob

LEMMA ToMoves ==
    ASSUME ReplicaInv, NEW j \in Jobs, NEW step, MovesTo(j, step)
    PROVE  \A i \in Jobs : SumMoves(i)
  BY OneMoves DEF MovesTo, SumMoves

LEMMA SaveMoves == ASSUME ReplicaInv, NEW inc, NEW ext, NEW rn, Saved(inc, ext, rn) PROVE CoverMoves
  BY CoverFacts DEF Saved, CoverMoves

LEMMA DiskMoves == ASSUME ReplicaInv, UNCHANGED diskVars \/ cover' = NoCover PROVE CoverMoves
<1>1. cover.known \in Nat
  BY CoverFacts
<1>2. CASE UNCHANGED diskVars
  BY <1>1, <1>2 DEF diskVars, CoverMoves
<1>3. CASE cover' = NoCover
  BY <1>3 DEF NoCover, CoverMoves
<1> QED
  BY <1>2, <1>3

LEMMA AdvanceMoves ==
    ASSUME ReplicaInv, NEW j \in Jobs, NEW sum, sum \in {NoSum, job[j].sum}, Advanced(job[j].through, sum)
    PROVE  CoverMoves
<1>1. cover.known \in Nat /\ job[j].through \in Nat
  BY CoverFacts, JobFacts
<1>2. CASE cover = NoCover
  <2>1. cover' = cover
    BY <1>2 DEF Advanced
  <2> QED BY <1>1, <2>1 DEF CoverMoves
<1>3. CASE cover # NoCover
  <2>1. /\ cover'.known = IF job[j].through > cover.known THEN job[j].through ELSE cover.known
        /\ cover'.sum = IF sum = NoSum THEN cover.sum ELSE sum
    BY <1>3 DEF Advanced
  <2>2. cover'.known >= cover.known /\ cover'.known >= job[j].through
    BY <1>1, <2>1
  <2> QED BY <2>1, <2>2 DEF CoverMoves
<1> QED
  BY <1>2, <1>3

LEMMA PageSums ==
    ASSUME ReplicaInv, NEW j \in Jobs, PageNext(j)
    PROVE  UNCHANGED serverVars /\ CoverMoves /\ \A i \in Jobs : SumMoves(i)
<1>1. CASE AskPage(j)
  <2>1. UNCHANGED <<serverVars, diskVars>> /\ job' = [job EXCEPT ![j] = job'[j]] /\ job'[j].sum = NoSum
    BY <1>1, AskPageIs
  <2>2. SumMoves(j)
    BY <2>1 DEF SumMoves
  <2> QED BY <2>1, <2>2, OneMoves, DiskMoves
<1>2. CASE AnswerPage(j)
  <2>1. UNCHANGED <<serverVars, diskVars>> /\ job' = [job EXCEPT ![j] = job'[j]]
        /\ job'[j].through = job[j].through /\ job'[j].sum = job[j].sum
    BY <1>2, AnswerPageIs
  <2>2. SumMoves(j)
    BY <2>1 DEF SumMoves
  <2> QED BY <2>1, <2>2, OneMoves, DiskMoves
<1>3. CASE ConnectPage(j)
  <2>1. /\ UNCHANGED serverVars /\ (UNCHANGED diskVars \/ cover' = NoCover)
        /\ MovesTo(j, "store") \/ MovesTo(j, "advance")
    BY <1>3, ConnectPageIs
  <2> QED BY <2>1, ToMoves, DiskMoves
<1>4. CASE StorePage(j)
  <2>1. /\ UNCHANGED serverVars /\ (Over(j) \/ MovesTo(j, "advance"))
        /\ Saved(job[j].got, TRUE, job[j].way = "latest" \/ (job[j].way = "after" /\ job[j].atEnd))
    BY <1>4, StorePageIs
  <2>2. CoverMoves
    BY <2>1, SaveMoves
  <2> QED BY <2>1, <2>2, ToMoves, OverMoves
<1>5. CASE AdvanceAfterPage(j)
  <2>1. UNCHANGED serverVars /\ Advanced(job[j].through, NoSum) /\ Over(j)
    BY <1>5, AdvanceAfterPageIs
  <2> QED BY <2>1, OverMoves, AdvanceMoves
<1> QED
  BY <1>1, <1>2, <1>3, <1>4, <1>5 DEF PageNext

LEMMA PullSums ==
    ASSUME ReplicaInv, NEW j \in Jobs, PullNext(j)
    PROVE  UNCHANGED serverVars /\ CoverMoves /\ \A i \in Jobs : SumMoves(i)
<1>1. CASE AskRevisions(j)
  <2>1. UNCHANGED <<serverVars, diskVars>> /\ job' = [job EXCEPT ![j] = job'[j]]
        /\ job'[j].through = clock /\ job'[j].sum = RevisionSum
    BY <1>1, AskRevisionsIs
  <2>2. SumMoves(j)
    BY <2>1 DEF SumMoves
  <2> QED BY <2>1, <2>2, OneMoves, DiskMoves
<1>2. CASE CompareRevisions(j)
  <2>1. /\ UNCHANGED <<serverVars, diskVars>>
        /\ \/ Over(j)
           \/ job' = [job EXCEPT ![j] = job'[j]] /\ job'[j].through = job[j].through /\ job'[j].sum = job[j].sum
    BY <1>2, CompareRevisionsIs
  <2>2. Over(j) \/ (job' = [job EXCEPT ![j] = job'[j]] /\ SumMoves(j))
    BY <2>1 DEF SumMoves
  <2> QED BY <2>1, <2>2, OneMoves, OverMoves, DiskMoves
<1>3. CASE Revalidate(j)
  <2>1. UNCHANGED <<serverVars, diskVars>> /\ job' = [job EXCEPT ![j] = job'[j]] /\ job'[j].sum = NoSum
    BY <1>3, RevalidateIs
  <2>2. SumMoves(j)
    BY <2>1 DEF SumMoves
  <2> QED BY <2>1, <2>2, OneMoves, DiskMoves
<1>4. CASE AnswerRange(j)
  <2>1. UNCHANGED <<serverVars, diskVars>> /\ job' = [job EXCEPT ![j] = job'[j]]
        /\ job'[j].through = job[j].through /\ job'[j].sum = job[j].sum
    BY <1>4, AnswerRangeIs
  <2>2. SumMoves(j)
    BY <2>1 DEF SumMoves
  <2> QED BY <2>1, <2>2, OneMoves, DiskMoves
<1>5. CASE StoreRangePage(j)
  <2>1. UNCHANGED serverVars /\ Saved(job[j].page, FALSE, FALSE) /\ job' = [job EXCEPT ![j] = job'[j]]
        /\ job'[j].through = job[j].through /\ job'[j].sum = job[j].sum
    BY <1>5, StoreRangePageIs
  <2>2. SumMoves(j)
    BY <2>1 DEF SumMoves
  <2>3. CoverMoves
    BY <2>1, SaveMoves
  <2> QED BY <2>1, <2>2, <2>3, OneMoves
<1>6. CASE CommitReads(j)
  <2>1. /\ UNCHANGED <<serverVars, diskVars>>
        /\ \/ Over(j)
           \/ job' = [job EXCEPT ![j] = job'[j]] /\ job'[j].through = job[j].through /\ job'[j].sum = job[j].sum
    BY <1>6, CommitReadsIs
  <2>2. Over(j) \/ (job' = [job EXCEPT ![j] = job'[j]] /\ SumMoves(j))
    BY <2>1 DEF SumMoves
  <2> QED BY <2>1, <2>2, OneMoves, OverMoves, DiskMoves
<1>7. CASE CommitMerges(j)
  <2>1. UNCHANGED serverVars /\ Saved(job[j].got, FALSE, FALSE)
        /\ (Over(j) \/ MovesTo(j, "append") \/ MovesTo(j, "publish"))
    BY <1>7, CommitMergesIs
  <2>2. CoverMoves
    BY <2>1, SaveMoves
  <2> QED BY <2>1, <2>2, ToMoves, OverMoves
<1>8. CASE CommitAppends(j)
  <2>1. UNCHANGED serverVars /\ Saved(More(job[j]), TRUE, TRUE) /\ (Over(j) \/ MovesTo(j, "publish"))
    BY <1>8, CommitAppendsIs
  <2>2. CoverMoves
    BY <2>1, SaveMoves
  <2> QED BY <2>1, <2>2, ToMoves, OverMoves
<1>9. CASE CommitPublishes(j)
  <2>1. UNCHANGED serverVars /\ Advanced(job[j].through, job[j].sum) /\ Over(j)
    BY <1>9, CommitPublishesIs
  <2> QED BY <2>1, OverMoves, AdvanceMoves
<1> QED
  BY <1>1, <1>2, <1>3, <1>4, <1>5, <1>6, <1>7, <1>8, <1>9 DEF PullNext

LEMMA NextSummed == SumInv /\ [ReplicaNext]_replicaVars => SumInv'
<1> SUFFICES ASSUME SumInv, [ReplicaNext]_replicaVars PROVE SumInv'
  OBVIOUS
<1>1. ReplicaInv /\ ReplicaInv'
  BY NextReplica DEF SumInv
<1>2. CASE ServerNext
  BY <1>1, <1>2, ServerSummed DEF SumInv
<1>3. ASSUME UNCHANGED serverVars, CoverMoves, \A i \in Jobs : SumMoves(i) PROVE SumInv'
  BY <1>1, <1>3, ClientSummed DEF SumInv
<1>4. CASE LinkNext
  <2>1. ASSUME NEW i \in Jobs
        PROVE  UNCHANGED <<serverVars, diskVars>> /\ SumMoves(i)
    <3>1. UNCHANGED <<serverVars, diskVars>> /\ (job'[i] = job[i] \/ job'[i] = IdleJob)
      BY <1>1, <1>4, LinkIs
    <3> QED BY <3>1 DEF SumMoves, IdleJob
  <2>2. UNCHANGED <<serverVars, diskVars>>
    BY <1>4 DEF LinkNext, Disconnect, Reconnect, Resubscribe, RevisionsRefused, ReplayEnds, Reload
  <2>3. CoverMoves
    BY <1>1, <2>2, DiskMoves
  <2> QED BY <1>3, <2>1, <2>2, <2>3
<1>5. CASE HandleEvent
  <2>1. PICK e \in wire : /\ UNCHANGED <<serverVars, connected, job>>
                          /\ Saved([s \in {e.seq} |-> e.row], AppendsLive(e), e.created)
    BY <1>1, <1>5, EventSaves
  <2>2. CoverMoves
    BY <1>1, <2>1, SaveMoves
  <2>3. \A i \in Jobs : SumMoves(i)
    BY <2>1 DEF SumMoves
  <2> QED BY <1>3, <2>1, <2>2, <2>3
<1>6. CASE EvictPrefix
  <2>1. /\ UNCHANGED <<serverVars, job>>
        /\ cover' = NoCover \/ (cover'.known = cover.known /\ cover'.sum = cover.sum)
    BY <1>1, <1>6, EvictShrinks
  <2>2. CoverMoves
    BY <1>1, <2>1, CoverFacts DEF CoverMoves, NoCover
  <2>3. \A i \in Jobs : SumMoves(i)
    BY <2>1 DEF SumMoves
  <2> QED BY <1>3, <2>1, <2>2, <2>3
<1>7. CASE \E j \in Jobs : PageNext(j) \/ PullNext(j)
  BY <1>1, <1>3, <1>7, PageSums, PullSums
<1>8. CASE \E j \in Jobs : RequestFails(j)
  <2>1. PICK j \in Jobs : RequestFails(j)
    BY <1>8
  <2>2. UNCHANGED <<serverVars, diskVars>> /\ Over(j)
    BY <1>1, <2>1, RequestFailsIs
  <2>3. CoverMoves /\ \A i \in Jobs : SumMoves(i)
    BY <1>1, <2>2, OverMoves, DiskMoves
  <2> QED BY <1>3, <2>2, <2>3
<1>9. CASE UNCHANGED replicaVars
  <2>1. UNCHANGED <<serverVars, diskVars, job>>
    BY <1>9 DEF replicaVars
  <2>2. CoverMoves /\ \A i \in Jobs : SumMoves(i)
    BY <1>1, <2>1, DiskMoves DEF SumMoves
  <2> QED BY <1>3, <2>1, <2>2
<1> QED
  BY <1>2, <1>4, <1>5, <1>6, <1>7, <1>8, <1>9 DEF ReplicaNext

\* The posts there at the start have the revisions 1 to Opening.
LEMMA InitSummed == ReplicaInit => SumInv
<1> SUFFICES ASSUME ReplicaInit PROVE SumInv
  OBVIOUS
<1>1. ReplicaInv
  BY InitReplica
<1>2. RevisionSum \in Nat /\ clock \in Nat /\ \A s \in Posts : rev[s] \in Nat
  BY <1>1, SumTypes, ServerFacts
<1>3. RevisionSum >= clock
  <2>1. CASE clock = 0
    BY <1>2, <2>1
  <2>2. CASE clock > 0
    <3>1. clock = Opening /\ clock \in 1..MaxPosts
      BY <1>2, <2>2, ReplicaAssumption DEF ReplicaInit, ReplicaAssumption
    <3>2. clock \in Posts /\ rev[clock] = clock
      BY <3>1, ReplicaAssumption DEF ReplicaInit, Posts, ReplicaAssumption
    <3>3. Total(rev, Posts) >= rev[clock]
      BY <1>2, <3>2, PostsFinite, TotalAtLeast
    <3> QED BY <3>2, <3>3, RevisionSumIs
  <2> QED BY <1>2, <2>1, <2>2
<1>4. cover.sum = 0 /\ cover.known = 0
  BY DEF ReplicaInit, NoCover
<1>5. \A i \in Jobs : job[i].sum = -1
  BY DEF ReplicaInit, IdleJob, NoSum
<1>6. \A i \in Jobs : SumTask(i)
  BY <1>2, <1>5 DEF SumTask
<1> QED
  BY <1>1, <1>2, <1>3, <1>4, <1>6 DEF SumInv, Summed

LEMMA SumInvariant == ReplicaSpec => []SumInv
<1>1. ReplicaInit => SumInv
  BY InitSummed
<1>2. SumInv /\ [ReplicaNext]_replicaVars => SumInv'
  BY NextSummed
<1> QED
  BY <1>1, <1>2, PTL DEF ReplicaSpec

LEMMA SumsAgree ==
    ASSUME SumInv, CursorSound, EndSound
    PROVE  SumSound
<1>1. ReplicaInv /\ Summed
  BY DEF SumInv
<1> SUFFICES ASSUME cover # NoCover, cover.sum = RevisionSum
             PROVE  /\ \A s \in cover.oldest..cover.newest : Current(s)
                    /\ cover.reachedNewest => cover.newest = head
  BY DEF SumSound
<1>2. cover.known >= clock /\ cover.known \in Nat /\ clock \in Nat
  BY <1>1, SumTypes DEF Summed
<1>3. /\ head \in Nat /\ head <= MaxPosts /\ MaxPosts \in Nat
      /\ \A s \in Posts : s \in Nat /\ rev[s] \in Nat /\ rev[s] <= clock /\ (rev[s] > 0 => s <= head)
  BY <1>1, ServerFacts, ReplicaAssumption DEF ReplicaInv, ServerTypes, ReplicaAssumption
<1>4. /\ cover.oldest \in Nat /\ cover.newest \in Nat /\ cover.oldest \in Posts /\ cover.newest \in Stored
      /\ cover.newest \in Posts
  BY <1>1, CoverFacts
<1>5. cover.newest <= head
  <2>1. rows[cover.newest].rev > 0 /\ rows[cover.newest].rev \in Nat /\ rows[cover.newest].rev <= rev[cover.newest]
    BY <1>1, <1>4, ServerFacts DEF Stored, StoredIn
  <2> QED BY <1>3, <1>4, <2>1
<1>6. ASSUME NEW s \in cover.oldest..cover.newest PROVE Current(s)
  <2>1. s \in 1..head /\ s \in Posts /\ Covers(cover, s)
    BY <1>3, <1>4, <1>5, <1>6 DEF Posts, Covers
  <2>2. rev[s] <= cover.known
    BY <1>2, <1>3, <2>1
  <2> QED BY <2>1, <2>2 DEF CursorSound
<1>7. ASSUME cover.reachedNewest, cover.newest # head PROVE FALSE
  <2>1. head \in (cover.newest + 1)..head /\ head \in Posts
    BY <1>3, <1>4, <1>5, <1>7 DEF Posts
  <2>2. rev[head] > cover.known
    BY <1>7, <2>1 DEF EndSound
  <2> QED BY <1>2, <1>3, <2>1, <2>2
<1> QED
  BY <1>6, <1>7

\* Skipping the pull when the revision sums agree misses nothing (reconcilePostRevisions):
\* every change raises the sum, so a sum that agrees is the one of this moment.
THEOREM SumSoundHolds == OneRequest => (ReplicaSpec => []SumSound)
<1> SUFFICES ASSUME OneRequest PROVE ReplicaSpec => []SumSound
  OBVIOUS
<1>1. ReplicaSpec => []CursorSound
  BY CursorSoundHolds
<1>2. ReplicaSpec => []EndSound
  BY EndSoundHolds
<1>3. SumInv /\ CursorSound /\ EndSound => SumSound
  BY SumsAgree
<1> QED
  BY <1>1, <1>2, <1>3, SumInvariant, PTL
=============================================================================
