---------------------------- MODULE MediaAssets ----------------------------
(***************************************************************************)
(* The server's media cache: rows of media_assets in SQLite, blobs on      *)
(* disk, the quota ledger, and the process that ties them together - the   *)
(* materialization jobs, the audio session a job shares with live relays,  *)
(* the HTTP requests with their leases, and the eviction sweep.            *)
(*                                                                         *)
(* SQLite and the file system share no transaction.  Every await of the    *)
(* code is a point where another handler runs, so a step here is what the  *)
(* code does between two awaits.                                           *)
(*                                                                         *)
(* Every ready asset weighs one unit.  Heat and touched_at of a ledger row *)
(* only matter as "has the row changed since the sweep read it", which is  *)
(* sweep.list for the listed candidates and sweep.stirred for the one      *)
(* under eviction.  The maintenance timer is modelled as one sweep at a    *)
(* time.  The stop of the server is the same step as a crash.              *)
(***************************************************************************)
EXTENDS Naturals, FiniteSets

CONSTANTS
    Tracks,     \* rows of media_tracks
    Requests,   \* audio and cover requests in flight
    Chunks,     \* chunks of an audio stream
    Room,       \* max_weight of the media pool
    Target,     \* max_weight * target_ratio
    MaxBlobs,   \* bound on the blob ids handed out
    MaxStops,   \* bound on the stops of the server
    None

ASSUME MediaAssumption ==
    /\ Chunks \in Nat \ {0}
    /\ Room \in Nat /\ Target \in Nat /\ Target <= Room
    /\ MaxBlobs \in Nat /\ MaxStops \in Nat
    /\ None \notin Tracks
    /\ None \notin [weight : Nat, pinned : BOOLEAN]
    /\ None \notin [blob : Nat, sent : Nat, ended : BOOLEAN]

Kinds == {"audio", "cover"}
Blobs == 1..MaxBlobs

VARIABLES
    asset,      \* media_assets: track -> kind -> row
    listed,     \* tracks a queue or playlist names (ref_count > 0)
    ledger,     \* storage_quota_items of the media pool
    staged,     \* blobs under staging/
    objects,    \* blobs under objects/
    jobs,       \* running materializations
    session,    \* audioSessions: track -> the shared stream
    request,    \* the HTTP requests
    sweep,      \* the eviction sweep
    minted,     \* blob ids handed out
    stops,
    stranded,   \* history: blobs no row, job or sweep can name any more
    excused     \* history: tracks whose ledger row was left wrong

vars == <<asset, listed, ledger, staged, objects, jobs, session, request,
          sweep, minted, stops, stranded, excused>>

NoRow == [state |-> "absent", blob |-> None]
Idle  == [at |-> "idle"]
Calm  == [on |-> FALSE, list |-> {}, track |-> None, weight |-> 0,
          todo |-> {}, stirred |-> FALSE]

Ready(t, k) == asset[t][k].state = "ready"
Weight(t)   == Cardinality({k \in Kinds : Ready(t, k)})

\* SELECT SUM(weight): the sum over the tracks, whose weights are 0, 1 and 2.
Usage == Cardinality({t \in Tracks : ledger[t] # None /\ ledger[t].weight > 0})
         + Cardinality({t \in Tracks : ledger[t] # None /\ ledger[t].weight > 1})

\* Mutant of Leased: the lease is taken with the body, after the row was read.
LeasedLate(t) == \E r \in Requests : request[r].at = "body" /\ request[r].track = t

\* A request holds the lease of its track from the GET to the end of its body.
Leased(t) == \E r \in Requests : request[r] # Idle /\ request[r].track = t

\* Mutant of Running: nothing remembers the running cover jobs.
RunningAudioOnly(t, k) == k = "audio" /\ session[t] # None

Running(t, k) ==
    \/ k = "audio" /\ session[t] # None
    \/ k = "cover" /\ \E j \in jobs : j.track = t /\ j.kind = "cover"

\* The live relays that read the track's present stream.
Relays(t) == {r \in Requests : request[r].at = "relay" /\ session[t] # None
                               /\ request[r].stream = session[t].blob}

-----------------------------------------------------------------------------
(* Ledger                                                                  *)

\* A touch, a new weight or a pin: the sweep's copies of the row are stale.
Stir(t) == [sweep EXCEPT !.list = @ \ {t},
                         !.stirred = @ \/ sweep.track = t]

Touch(t) == sweep' = IF ledger[t] = None THEN sweep ELSE Stir(t)

\* Mutant of Account: a row that exists keeps its weight.
AccountOnce(t, w) ==
    IF w = 0 \/ ledger[t] # None THEN UNCHANGED <<ledger, sweep, excused>>
    ELSE /\ ledger' = [ledger EXCEPT ![t] = [weight |-> w, pinned |-> TRUE]]
         /\ sweep' = [sweep EXCEPT !.list = @ \ {t}]
         /\ excused' = excused \ {t}

\* accountReadyTrack after the rows of t became r: upsert with an admission
\* pin; an unchanged heat and touched_at survive the upsert.
Account(t, w) ==
    IF w = 0 THEN UNCHANGED <<ledger, sweep, excused>>
    ELSE /\ ledger' = [ledger EXCEPT ![t] = [weight |-> w, pinned |-> TRUE]]
         /\ sweep' = [sweep EXCEPT
                !.list = @ \ {t},
                !.stirred = @ \/ (sweep.track = t /\ ledger[t] = None)]
         /\ excused' = excused \ {t}

-----------------------------------------------------------------------------
(* Materialization                                                         *)

\* markAssetDownloading: a ready row keeps its state and its blob.
Marked(row, b) == IF row.state = "ready" THEN row
                  ELSE [state |-> "downloading", blob |-> b]

\* ensureMaterialized for the kinds ks of t: a kind that is ready or already
\* under way starts nothing; the others get a fresh blob id each.
Start(t, ks) ==
    LET new     == {k \in ks : ~Ready(t, k) /\ ~Running(t, k)}
        blob(k) == minted + Cardinality({"audio", k} \cap new)
    IN  /\ minted + Cardinality(new) <= MaxBlobs
        /\ minted' = minted + Cardinality(new)
        /\ asset' = [asset EXCEPT ![t] = [k \in Kinds |->
               IF k \in new THEN Marked(@[k], blob(k)) ELSE @[k]]]
        /\ jobs' = jobs \cup
               {[track |-> t, kind |-> k, blob |-> blob(k), pc |-> "writing"] :
                   k \in new}
        /\ staged' = staged \cup {blob(k) : k \in new}
        /\ session' = IF "audio" \in new
                      THEN [session EXCEPT ![t] =
                               [blob |-> blob("audio"), sent |-> 0, ended |-> FALSE]]
                      ELSE session

\* mediaService.play: touch, then both kinds.
Play(t) ==
    /\ Touch(t)
    /\ Start(t, Kinds)
    /\ UNCHANGED <<listed, ledger, objects, request, stops, stranded, excused>>

\* mediaService.prepare, for a queued track.
Prepare(t) ==
    /\ Start(t, Kinds)
    /\ UNCHANGED <<listed, ledger, objects, request, sweep, stops, stranded, excused>>

\* maybeDispose once the job of the session has settled: the source is over
\* or nobody listens.
Disposed(t, s) ==
    IF s # None /\ (s.ended \/ Relays(t) = {}) THEN None ELSE s

\* The provider delivers: the fanout feeds the job and the relays it has now.
Chunk(t) ==
    /\ session[t] # None /\ ~session[t].ended
    /\ session[t].sent < Chunks
    /\ session' = [session EXCEPT ![t].sent = @ + 1]
    /\ UNCHANGED <<asset, listed, ledger, staged, objects, jobs, request, sweep,
                   minted, stops, stranded, excused>>

Unsettled(t) == \E j \in jobs : j.track = t /\ j.kind = "audio"
                                /\ session[t] # None /\ j.blob = session[t].blob

SourceEnds(t) ==
    /\ session[t] # None /\ ~session[t].ended
    /\ session[t].sent = Chunks
    /\ session' = [session EXCEPT ![t] =
           IF Unsettled(t) THEN [@ EXCEPT !.ended = TRUE] ELSE None]
    /\ UNCHANGED <<asset, listed, ledger, staged, objects, jobs, request, sweep,
                   minted, stops, stranded, excused>>

\* The provider fails: the job and the relays get the error.  A provider that
\* never started also ends the session, before the job has cleaned up.
SourceFails(t) ==
    /\ session[t] # None /\ ~session[t].ended
    /\ \E early \in {FALSE, session[t].sent = 0} :
           session' = [session EXCEPT ![t] =
               IF early \/ ~Unsettled(t) THEN None ELSE [@ EXCEPT !.ended = TRUE]]
    /\ jobs' = {IF j.track = t /\ j.blob = session[t].blob
                THEN [j EXCEPT !.pc = "failing"] ELSE j : j \in jobs}
    /\ request' = [r \in Requests |-> IF r \in Relays(t) THEN Idle ELSE request[r]]
    /\ UNCHANGED <<asset, listed, ledger, staged, objects, sweep, minted, stops,
                   stranded, excused>>

\* A job ends early on an error of its own: the disk, the cover's provider, or
\* the database while it publishes.
JobFails(j) ==
    /\ j.pc \in {"writing", "committed"}
    /\ jobs' = (jobs \ {j}) \cup {[j EXCEPT !.pc = "failing"]}
    /\ UNCHANGED <<asset, listed, ledger, staged, objects, session, request, sweep,
                   minted, stops, stranded, excused>>

\* slot.commit: the stream is complete; fsync and rename into objects/.
Commit(j) ==
    /\ j.pc = "writing"
    /\ j.kind = "audio" => session[j.track] # None /\ session[j.track].ended
    /\ staged' = staged \ {j.blob}
    /\ objects' = objects \cup {j.blob}
    /\ jobs' = (jobs \ {j}) \cup {[j EXCEPT !.pc = "committed"]}
    /\ UNCHANGED <<asset, listed, ledger, session, request, sweep, minted, stops,
                   stranded, excused>>

Settled(j) ==
    IF j.kind = "audio" /\ session[j.track] # None
       /\ session[j.track].blob = j.blob
    THEN [session EXCEPT ![j.track] = Disposed(j.track, @)] ELSE session

\* publishAsset is an UPDATE: it finds no row when an eviction deleted it.
Published(j) ==
    IF asset[j.track][j.kind].state = "absent" THEN asset
    ELSE [asset EXCEPT ![j.track][j.kind] = [state |-> "ready", blob |-> j.blob]]

\* resolveWaiters: a woken request reads the row again.
Woken(t, k, row) ==
    [r \in Requests |->
        IF request[r].at = "waiting" /\ request[r].track = t /\ request[r].kind = k
        THEN IF row.state = "ready"
             THEN [at |-> "opening", track |-> t, blob |-> row.blob] ELSE Idle
        ELSE request[r]]

\* publishAsset, accountReadyTrack and resolveWaiters, without an await.
Publish(j) ==
    /\ j.pc = "committed"
    /\ asset' = Published(j)
    /\ Account(j.track, Cardinality({k \in Kinds : asset'[j.track][k].state = "ready"}))
    /\ request' = Woken(j.track, j.kind, asset'[j.track][j.kind])
    /\ jobs' = jobs \ {j}
    /\ session' = Settled(j)
    /\ stranded' = IF asset[j.track][j.kind].state = "absent"
                   THEN stranded \cup {j.blob} ELSE stranded
    /\ UNCHANGED <<listed, staged, objects, minted, stops>>

\* The catch of a job: discard the slot, drop a committed blob no row names,
\* mark the row failed unless it is ready.
CleanUp(j) ==
    /\ j.pc = "failing"
    /\ staged' = staged \ {j.blob}
    /\ objects' = IF Ready(j.track, j.kind) THEN objects ELSE objects \ {j.blob}
    /\ asset' = IF Ready(j.track, j.kind) THEN asset
                ELSE [asset EXCEPT ![j.track][j.kind] =
                         [state |-> "failed", blob |-> @.blob]]
    /\ jobs' = jobs \ {j}
    /\ session' = Settled(j)
    /\ UNCHANGED <<listed, ledger, request, sweep, minted, stops, stranded, excused>>

-----------------------------------------------------------------------------
(* Requests                                                                *)

\* A GET takes the lease and then reads the row, in one tick.
GetReady(r, t, k) ==
    /\ request[r] = Idle
    /\ Ready(t, k)
    /\ request' = [request EXCEPT ![r] =
           [at |-> "opening", track |-> t, blob |-> asset[t][k].blob]]
    /\ UNCHANGED <<asset, listed, ledger, staged, objects, jobs, session, sweep,
                   minted, stops, stranded, excused>>

\* A seek past the first byte waits for the audio and starts nothing.
GetSeek(r, t) ==
    /\ request[r] = Idle
    /\ ~Ready(t, "audio")
    /\ request' = [request EXCEPT ![r] =
           [at |-> "waiting", track |-> t, kind |-> "audio"]]
    /\ UNCHANGED <<asset, listed, ledger, staged, objects, jobs, session, sweep,
                   minted, stops, stranded, excused>>

GetCover(r, t) ==
    /\ request[r] = Idle
    /\ ~Ready(t, "cover")
    /\ Start(t, {"cover"})
    /\ request' = [request EXCEPT ![r] =
           [at |-> "waiting", track |-> t, kind |-> "cover"]]
    /\ UNCHANGED <<listed, ledger, objects, sweep, stops, stranded, excused>>

\* streamTrack: touch, then join the session of the track or begin one.
GetRelay(r, t) ==
    /\ request[r] = Idle
    /\ ~Ready(t, "audio")
    /\ Touch(t)
    /\ Start(t, {"audio"})
    /\ request' = [request EXCEPT ![r] =
           [at |-> "relay", track |-> t, stream |-> session'[t].blob,
            from |-> session'[t].sent]]
    /\ UNCHANGED <<listed, ledger, objects, stops, stranded, excused>>

\* blobs.open: from here the descriptor keeps the bytes; a missing file is an
\* error answer, which ends the request.
Open(r) ==
    /\ request[r].at = "opening"
    /\ request' = [request EXCEPT ![r] =
           IF request[r].blob \in objects
           THEN [at |-> "body", track |-> request[r].track] ELSE Idle]
    /\ UNCHANGED <<asset, listed, ledger, staged, objects, jobs, session, sweep,
                   minted, stops, stranded, excused>>

\* The body is over or the client went away, or the wait timed out.
EndRequest(r) ==
    /\ request[r].at \in {"body", "waiting"}
    /\ request' = [request EXCEPT ![r] = Idle]
    /\ UNCHANGED <<asset, listed, ledger, staged, objects, jobs, session, sweep,
                   minted, stops, stranded, excused>>

\* A relay ends: its subscription is released, and maybeDispose runs.
EndRelay(r) ==
    /\ request[r].at = "relay"
    /\ LET t == request[r].track IN
       /\ request' = [request EXCEPT ![r] = Idle]
       /\ session' = IF session[t] # None /\ ~Unsettled(t) /\ Relays(t) = {r}
                     THEN [session EXCEPT ![t] = None] ELSE session
    /\ UNCHANGED <<asset, listed, ledger, staged, objects, jobs, sweep, minted, stops,
                   stranded, excused>>

-----------------------------------------------------------------------------
(* Lists and eviction                                                      *)

\* The triggers on media_list_items.
AddToList(t) ==
    /\ t \notin listed
    /\ listed' = listed \cup {t}
    /\ UNCHANGED <<asset, ledger, staged, objects, jobs, session, request, sweep, minted,
                   stops, stranded, excused>>

RemoveFromList(t) ==
    /\ t \in listed
    /\ listed' = listed \ {t}
    /\ UNCHANGED <<asset, ledger, staged, objects, jobs, session, request, sweep, minted,
                   stops, stranded, excused>>

\* Twenty minutes after the publication the admission pin is over.
PinExpires(t) ==
    /\ ledger[t] # None /\ ledger[t].pinned
    /\ ledger' = [ledger EXCEPT ![t].pinned = FALSE]
    /\ UNCHANGED <<asset, listed, staged, objects, jobs, session, request, sweep, minted,
                   stops, stranded, excused>>

\* listCacheEvictionCandidates, when the pool is over its high watermark.
ListCandidates ==
    /\ ~sweep.on
    /\ Usage > Room
    /\ sweep' = [Calm EXCEPT !.on = TRUE, !.list =
           {t \in Tracks : ledger[t] # None /\ ~ledger[t].pinned /\ ledger[t].weight > 0}]
    /\ UNCHANGED <<asset, listed, ledger, staged, objects, jobs, session, request, minted,
                   stops, stranded, excused>>

SweepEnds ==
    /\ sweep.on /\ sweep.track = None
    /\ sweep.list = {} \/ Usage <= Target
    /\ sweep' = Calm
    /\ UNCHANGED <<asset, listed, ledger, staged, objects, jobs, session, request, minted,
                   stops, stranded, excused>>

\* Mutant of Evict: the blobs go first and the rows stay.
EvictFilesOnly(t) ==
    LET kept == Leased(t) \/ t \in listed
        todo == {asset[t][k].blob : k \in {k \in Kinds : Ready(t, k)}}
    IN  /\ sweep.on /\ sweep.track = None
        /\ t \in sweep.list /\ Usage > Target
        /\ sweep' = IF kept \/ todo = {} THEN [sweep EXCEPT !.list = @ \ {t}]
                    ELSE [sweep EXCEPT !.list = @ \ {t}, !.track = t,
                              !.weight = ledger[t].weight, !.todo = todo,
                              !.stirred = FALSE]
        /\ UNCHANGED <<asset, listed, ledger, staged, objects, jobs, session, request,
                       minted, stops, stranded, excused>>

\* quotaCandidateIsCurrent and evictTrack up to its first await: no lease, not
\* listed; every row of the track goes, the ready ones leave their blobs to drop.
Evict(t) ==
    LET kept == Leased(t) \/ t \in listed
        todo == {asset[t][k].blob : k \in {k \in Kinds : Ready(t, k)}}
    IN  /\ sweep.on /\ sweep.track = None
        /\ t \in sweep.list /\ Usage > Target
        /\ asset' = IF kept THEN asset
                    ELSE [asset EXCEPT ![t] = [k \in Kinds |-> NoRow]]
        /\ sweep' = IF kept \/ todo = {} THEN [sweep EXCEPT !.list = @ \ {t}]
                    ELSE [sweep EXCEPT !.list = @ \ {t}, !.track = t,
                              !.weight = ledger[t].weight, !.todo = todo,
                              !.stirred = FALSE]
        /\ UNCHANGED <<listed, ledger, staged, objects, jobs, session, request, minted,
                       stops, stranded, excused>>

\* blobs.drop: rename into trash/, which the collector empties.
Drop(b) ==
    /\ b \in sweep.todo
    /\ objects' = objects \ {b}
    /\ sweep' = [sweep EXCEPT !.todo = @ \ {b}]
    /\ UNCHANGED <<asset, listed, ledger, staged, jobs, session, request, minted, stops,
                   stranded, excused>>

\* quota.release(snapshot): compare weight, heat and touched_at, then delete.
Release ==
    LET t == sweep.track
        same == ledger[t] # None /\ ledger[t].weight = sweep.weight /\ ~sweep.stirred
    IN  /\ t # None /\ sweep.todo = {}
        /\ ledger' = IF same THEN [ledger EXCEPT ![t] = None] ELSE ledger
        /\ sweep' = [sweep EXCEPT !.track = None, !.weight = 0, !.stirred = FALSE]
        /\ excused' = IF same = (Weight(t) > 0) THEN excused \cup {t} ELSE excused
        /\ UNCHANGED <<asset, listed, staged, objects, jobs, session, request, minted,
                       stops, stranded>>

\* BlobStore.gc of staging/: what a stop of the server left behind.
Collect(b) ==
    /\ b \in staged
    /\ \A j \in jobs : j.blob # b
    /\ staged' = staged \ {b}
    /\ UNCHANGED <<asset, listed, ledger, objects, jobs, session, request, sweep, minted,
                   stops, stranded, excused>>

-----------------------------------------------------------------------------
(* Stop and start of the server: only SQLite and the files remain; start() *)
(* writes the weights of the ready rows into the ledger.                   *)

Reconciled(t) ==
    IF Weight(t) = 0 THEN ledger[t]
    ELSE [weight |-> Weight(t), pinned |-> ledger[t] # None /\ ledger[t].pinned]

Restart ==
    /\ stops < MaxStops
    /\ stops' = stops + 1
    /\ stranded' = stranded \cup sweep.todo \cup
           {j.blob : j \in {i \in jobs : i.blob \in objects}}
    /\ excused' = {t \in excused \cup {sweep.track} : t # None /\ Weight(t) = 0}
    /\ ledger' = [t \in Tracks |-> Reconciled(t)]
    /\ jobs' = {}
    /\ session' = [t \in Tracks |-> None]
    /\ request' = [r \in Requests |-> Idle]
    /\ sweep' = Calm
    /\ UNCHANGED <<asset, listed, staged, objects, minted>>

-----------------------------------------------------------------------------
Init ==
    /\ asset = [t \in Tracks |-> [k \in Kinds |-> NoRow]]
    /\ listed = {}
    /\ ledger = [t \in Tracks |-> None]
    /\ staged = {} /\ objects = {} /\ jobs = {}
    /\ session = [t \in Tracks |-> None]
    /\ request = [r \in Requests |-> Idle]
    /\ sweep = Calm
    /\ minted = 0 /\ stops = 0
    /\ stranded = {} /\ excused = {}

Next ==
    \/ \E t \in Tracks :
          \/ Play(t) \/ Prepare(t) \/ Chunk(t) \/ SourceEnds(t) \/ SourceFails(t)
          \/ AddToList(t) \/ RemoveFromList(t) \/ PinExpires(t) \/ Evict(t)
    \/ \E j \in jobs : JobFails(j) \/ Commit(j) \/ Publish(j) \/ CleanUp(j)
    \/ \E r \in Requests :
          \/ Open(r) \/ EndRequest(r) \/ EndRelay(r)
          \/ \E t \in Tracks :
                \/ GetSeek(r, t) \/ GetCover(r, t) \/ GetRelay(r, t)
                \/ \E k \in Kinds : GetReady(r, t, k)
    \/ ListCandidates \/ SweepEnds \/ Release
    \/ \E b \in Blobs : Drop(b) \/ Collect(b)
    \/ Restart

Spec == Init /\ [][Next]_vars
=============================================================================
