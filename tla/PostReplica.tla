---------------------------- MODULE PostReplica ----------------------------
(***************************************************************************)
(* The client's persistent replica of one conversation: the window of      *)
(* posts in IndexedDB and the coverage record that certifies it            *)
(* (client/data/repository.ts, client/repo/coverage.ts), written by four   *)
(* concurrent paths: live events (client/interact/remoteLifecycle.ts),     *)
(* history pages (client/interact/posts.ts), revision catch-up             *)
(* (client/interact/conversations.ts) and the revalidation of an open chat *)
(* (client/hooks/useChatPosts.ts).                                         *)
(*                                                                         *)
(* A post is its position in the conversation; what it says is the         *)
(* revision it got from the conversation's counter, the revision of the    *)
(* post it quotes, and whether its text was cut to the preview length.     *)
(* Every IndexedDB transaction and every server answer is a step; the trim *)
(* that ends savePosts belongs to it.                                      *)
(***************************************************************************)
EXTENDS Integers, FiniteSets, FiniteSetsExt

CONSTANTS
    MaxPosts,    \* bound: posts of the conversation
    MaxRevision, \* bound: creations, edits and deletions on the server
    Opening,     \* posts already there when the client connects for the first time
    PageSize,    \* LOAD_LIMIT, posts of a history page
    RangeLimit,  \* posts of a revision page
    Keep,        \* posts a conversation without a retention policy may hold
    Jobs,        \* requests the client can have under way
    Replies,     \* posts that quote post 1
    Long,        \* posts longer than POST_PREVIEW_LENGTH
    Admits       \* what the environment may do, see Behaviours

Posts == 1..MaxPosts

(***************************************************************************)
(*   aheadOfCursor   a page is asked for, or an open chat revalidated,     *)
(*                   with a conversation revision that the catch-up has    *)
(*                   not reached yet, or before a recovery has replayed    *)
(*                   its events                                            *)
(*   evictDuringJob  the quota evicts posts while a request is under way   *)
(***************************************************************************)
Behaviours == {"aheadOfCursor", "evictDuringJob"}

ASSUME ReplicaAssumption ==
    /\ MaxPosts \in Nat \ {0} /\ MaxRevision \in Nat
    /\ Opening \in 0..MaxPosts /\ Opening <= MaxRevision
    /\ PageSize \in Nat \ {0} /\ RangeLimit \in Nat \ {0} /\ Keep \in Nat \ {0}
    /\ Replies \subseteq Posts /\ Long \subseteq Posts
    /\ Admits \subseteq Behaviours

VARIABLES
    head, rev, clock,      \* server: posts 1..head, their revisions, the conversation's
    rows, cover,           \* IndexedDB: POSTS and the SYNC record posts:<conv>
    connected, phase,      \* the link; what the RecoveryCoordinator does to events
    wire,                  \* live events not handled yet
    job                    \* the requests under way

serverVars  == <<head, rev, clock>>
diskVars    == <<rows, cover>>
linkVars    == <<connected, phase, wire>>
replicaVars == <<serverVars, diskVars, linkVars, job>>

Revisions == 0..MaxRevision
Rows      == [rev : Revisions, quote : Revisions, cut : BOOLEAN]
NoPost     == [rev |-> 0, quote |-> 0, cut |-> FALSE]
NoSum     == -1
NoCover   == [oldest |-> 0, newest |-> 0, reachedOldest |-> FALSE, reachedNewest |-> FALSE,
              known |-> 0, sum |-> 0]
NoRows    == [s \in {} |-> NoPost]
IdleJob      == [step |-> "idle", way |-> "latest", anchor |-> 0, from |-> 0, through |-> 0,
              sum |-> NoSum, page |-> NoRows, got |-> NoRows, newest |-> 0, atEnd |-> FALSE]

Steps    == {"idle", "asked", "answered", "store", "advance", "compare", "range", "page",
             "commit", "merge", "append", "publish"}
OnTheNet == {"asked", "range"}

ReplicaInit ==
    /\ head = Opening /\ clock = Opening
    /\ rev = [s \in Posts |-> IF s <= Opening THEN s ELSE 0]
    /\ rows = [s \in Posts |-> NoPost] /\ cover = NoCover
    /\ connected = TRUE /\ phase = "live" /\ wire = {}
    /\ job = [j \in Jobs |-> IdleJob]

-----------------------------------------------------------------------------
(***************************************************************************)
(* The server.                                                             *)
(***************************************************************************)
Quote(r, s)   == IF s \in Replies THEN r[1] ELSE 0
LiveRow(r, s) == [rev |-> r[s], quote |-> Quote(r, s), cut |-> FALSE]
PageRow(s)    == [rev |-> rev[s], quote |-> Quote(rev, s), cut |-> s \in Long]
PageOf(S)     == [s \in S |-> PageRow(s)]
RevisionSum   == MapThenSumSet(LAMBDA s : rev[s], Posts)

\* The triggers of the posts table: the conversation's counter goes up and the
\* post takes it.  The event is published after the transaction.
Changes(s, created) ==
    /\ clock < MaxRevision
    /\ clock' = clock + 1
    /\ rev' = [rev EXCEPT ![s] = clock + 1]
    /\ wire' = IF connected
               THEN wire \cup {[seq |-> s, row |-> LiveRow(rev', s), created |-> created]}
               ELSE wire
    /\ UNCHANGED <<diskVars, connected, phase, job>>

CreatePost == head < MaxPosts /\ head' = head + 1 /\ Changes(head + 1, TRUE)

\* An edit, or a deletion, which leaves a tombstone row.
ChangePost == UNCHANGED head /\ \E s \in 1..head : Changes(s, FALSE)

-----------------------------------------------------------------------------
(***************************************************************************)
(* client/data/repository.ts.                                              *)
(***************************************************************************)
StoredIn(r) == {s \in Posts : r[s].rev > 0}
Stored      == StoredIn(rows)
Covers(c, s) == c # NoCover /\ s \in c.oldest..c.newest

\* Mutant: the boundaries stay when the rows are gone.
ShrinksNothing(r, c) == c

\* postCoverageAfterPrefixDelete
Shrunk(r, c) ==
    IF StoredIn(r) = {} \/ c = NoCover THEN NoCover
    ELSE [c EXCEPT !.oldest = Min(StoredIn(r)), !.newest = Max(StoredIn(r)),
                   !.reachedOldest = FALSE]

Without(r, gone) == [s \in Posts |-> IF s \in gone THEN NoPost ELSE r[s]]

\* trimConversationPosts without a retention policy: the newest Keep rows stay.
Surplus(r) == {s \in StoredIn(r) : Cardinality({t \in StoredIn(r) : t > s}) >= Keep}

\* nextPostWindowCoverage
Widened(written, reachOld, reachNew) ==
    LET first == Min(written)
        last  == Max(written) IN
    [cover EXCEPT
        !.oldest = IF cover = NoCover \/ first < cover.oldest THEN first ELSE cover.oldest,
        !.newest = IF last > cover.newest THEN last ELSE cover.newest,
        !.reachedOldest = @ \/ reachOld,
        !.reachedNewest = @ \/ reachNew]

\* Mutant: an incoming row is written whatever revision the stored one has.
AcceptsAnything(incoming, extends) ==
    {s \in DOMAIN incoming : extends \/ s \in Stored \/ Covers(cover, s)}

\* savePosts: rows outside the window are passed over unless the window grows,
\* and a newer stored row wins.
Accepted(incoming, extends) ==
    {s \in DOMAIN incoming : /\ extends \/ s \in Stored \/ Covers(cover, s)
                             /\ rows[s].rev <= incoming[s].rev}

\* decideRevisionedWrite throws, which aborts the whole transaction.
Collides(incoming, extends) ==
    \E s \in Accepted(incoming, extends) :
        rows[s].rev = incoming[s].rev /\ rows[s] # incoming[s]

SavePosts(incoming, extends, reachOld, reachNew) ==
    LET written == Accepted(incoming, extends)
        put     == [s \in Posts |-> IF s \in written THEN incoming[s] ELSE rows[s]]
        wide    == IF extends /\ written # {} THEN Widened(written, reachOld, reachNew)
                   ELSE cover
        gone    == IF DOMAIN incoming = {} THEN {} ELSE Surplus(put) IN
    IF Collides(incoming, extends) THEN UNCHANGED diskVars
    ELSE /\ rows' = Without(put, gone)
         /\ cover' = IF gone = {} THEN wide ELSE Shrunk(Without(put, gone), wide)

\* advancePostRevision: nothing without a window; the cursor never moves back.
Advance(revision, sum) ==
    cover' = IF cover = NoCover THEN cover
             ELSE [cover EXCEPT !.known = IF revision > @ THEN revision ELSE @,
                                !.sum = IF sum = NoSum THEN @ ELSE sum]

\* shouldExtendPostCoverage for a live event
AppendsLive(e) ==
    e.created /\ (cover = NoCover \/ (cover.reachedNewest /\ e.seq > cover.newest))

\* onPost: at once when live, in the replay after a recovery otherwise; a live
\* event that cannot be written schedules a recovery.
HandleEvent ==
    /\ phase # "repairing"
    /\ \E e \in wire :
          LET incoming == [s \in {e.seq} |-> e.row] IN
          /\ \A f \in wire : e.row.rev <= f.row.rev
          /\ wire' = wire \ {e}
          /\ SavePosts(incoming, AppendsLive(e), FALSE, e.created)
          /\ phase' = IF phase = "live" /\ Collides(incoming, AppendsLive(e))
                      THEN "repairing" ELSE phase
    /\ UNCHANGED <<serverVars, connected, job>>

\* deleteConversationPostPrefix under quota pressure
EvictPrefix ==
    /\ (\A j \in Jobs : job[j].step = "idle") \/ "evictDuringJob" \in Admits
    /\ \E s \in Stored :
          LET left == Without(rows, 1..s) IN
          rows' = left /\ cover' = Shrunk(left, cover)
    /\ UNCHANGED <<serverVars, linkVars, job>>

-----------------------------------------------------------------------------
(***************************************************************************)
(* The link.                                                               *)
(***************************************************************************)
Become(j, next) == job' = [job EXCEPT ![j] = next]

\* A recovery whose catch-up has ended goes on to replay its events.
Replays == IF phase = "repairing" THEN "replaying" ELSE phase

\* One socket carries answers and events in order: an answer arrives after the
\* events published before it, which during a recovery means behind the queue.
InOrder == phase # "live" \/ wire = {}

\* The events still on the way are lost, requests under way fail.
Disconnect ==
    /\ connected /\ connected' = FALSE
    /\ \E arrived \in Revisions : wire' = {e \in wire : e.row.rev <= arrived}
    /\ job' = [j \in Jobs |-> IF job[j].step \in OnTheNet THEN IdleJob ELSE job[j]]
    /\ UNCHANGED <<serverVars, diskVars, phase>>

\* schedule: events queue from now on; a recovery under way stays where it is.
Scheduled == IF phase = "live" THEN "repairing" ELSE phase

\* onConnectionChange schedules a recovery.
Reconnect ==
    /\ ~connected /\ connected' = TRUE
    /\ phase' = Scheduled
    /\ UNCHANGED <<serverVars, diskVars, wire, job>>

\* remote.resubscribe, sent with every new direct message, schedules one too.
Resubscribe ==
    /\ connected /\ phase = "live"
    /\ phase' = Scheduled
    /\ UNCHANGED <<serverVars, diskVars, connected, wire, job>>

\* A recovery whose revision step was refused replays its events all the same.
RevisionsRefused ==
    /\ phase = "repairing" /\ phase' = "replaying"
    /\ UNCHANGED <<serverVars, diskVars, connected, wire, job>>

\* The queue is empty: events are handled at once again.
ReplayEnds ==
    /\ phase = "replaying" /\ wire = {} /\ phase' = "live"
    /\ UNCHANGED <<serverVars, diskVars, connected, wire, job>>

\* The page is closed and opened again: only IndexedDB survives.
Reload ==
    /\ connected' = FALSE /\ phase' = "live" /\ wire' = {}
    /\ job' = [j \in Jobs |-> IdleJob]
    /\ UNCHANGED <<serverVars, diskVars>>

\* A value of conv.revision the store may hold: the events published before the
\* snapshot that brought it have arrived.
Shown(r) == phase # "live" \/ \A e \in wire : e.row.rev > r

-----------------------------------------------------------------------------
(***************************************************************************)
(* History pages: fetchRemotePosts and reconcilePostPage.                  *)
(***************************************************************************)
PageFrame == UNCHANGED <<serverVars, linkVars>>

\* A caller that knows the conversation's revision passes it along (0: it does
\* not); the cursor may be a post that is shown but not stored.
AskPage(j) ==
    /\ connected /\ job[j].step = "idle"
    /\ \E way \in {"latest", "before", "after"}, revision \in 0..clock :
          \E anchor \in IF way = "latest" THEN {0} ELSE 1..head :
             /\ revision = 0 \/ Shown(revision)
             /\ \/ revision = 0
                \/ phase = "live" /\ revision <= cover.known
                \/ phase = "live" /\ way = "latest" /\ cover = NoCover
                \/ "aheadOfCursor" \in Admits
             /\ Become(j, [IdleJob EXCEPT !.step = "asked", !.way = way, !.anchor = anchor,
                                       !.through = revision])
    /\ UNCHANGED diskVars /\ PageFrame

PageFor(way, anchor) ==
    CASE way = "latest" -> {s \in 1..head : s > head - PageSize}
      [] way = "before" -> {s \in 1..head : s < anchor /\ s >= anchor - PageSize}
      [] way = "after"  -> {s \in 1..head : s > anchor /\ s <= anchor + PageSize}

AnswerPage(j) ==
    /\ job[j].step = "asked" /\ InOrder
    /\ LET answer == PageFor(job[j].way, job[j].anchor) IN
       Become(j, [job[j] EXCEPT !.step = "answered", !.got = PageOf(answer),
                                !.atEnd = Cardinality(answer) < PageSize])
    /\ UNCHANGED diskVars /\ PageFrame

\* Mutant: any page widens the window.
ConnectsFragments(r) == cover # NoCover

\* connectPostPage for a page with a cursor
Connects(r) == cover # NoCover /\ r.anchor \in Stored

\* connectPostPage: an empty page is not reconciled, a fragment is ignored, a
\* latest page that does not overlap starts the window afresh.
ConnectPage(j) ==
    /\ job[j].step = "answered"
    /\ LET r == job[j]
           use == DOMAIN r.got # {} /\ (r.way = "latest" \/ Connects(r))
           fresh == use /\ r.way = "latest" /\ cover # NoCover /\ DOMAIN r.got \cap Stored = {} IN
       /\ IF fresh THEN rows' = Without(rows, Posts) /\ cover' = NoCover
          ELSE UNCHANGED diskVars
       /\ Become(j, [r EXCEPT !.step = IF use THEN "store" ELSE "advance"])
    /\ PageFrame

\* A collision is contained in fetchRemotePosts: the page is shown, not kept.
StorePage(j) ==
    /\ job[j].step = "store"
    /\ LET r == job[j] IN
       /\ SavePosts(r.got, TRUE, r.way = "before" /\ r.atEnd,
                    r.way = "latest" \/ (r.way = "after" /\ r.atEnd))
       /\ Become(j, IF Collides(r.got, TRUE) THEN IdleJob ELSE [r EXCEPT !.step = "advance"])
    /\ PageFrame

AdvanceAfterPage(j) ==
    /\ job[j].step = "advance"
    /\ Advance(job[j].through, NoSum)
    /\ Become(j, IdleJob)
    /\ UNCHANGED rows /\ PageFrame

-----------------------------------------------------------------------------
(***************************************************************************)
(* Revision catch-up: syncConversationPostRevisions, revalidateVisiblePosts *)
(* and reconcilePostRevisions.                                             *)
(***************************************************************************)
\* The server's revision and revision sum of the conversation, asked for by a
\* recovery and by fetchConversations.
AskRevisions(j) ==
    /\ connected /\ InOrder /\ job[j].step = "idle"
    /\ Become(j, [IdleJob EXCEPT !.step = "compare", !.through = clock, !.sum = RevisionSum])
    /\ UNCHANGED diskVars /\ PageFrame

\* Equal sums: nothing changed.  Otherwise the range after the cursor is pulled.
CompareRevisions(j) ==
    /\ job[j].step = "compare"
    /\ LET r == job[j] IN
       IF cover # NoCover /\ cover.sum = r.sum
       THEN Become(j, IdleJob) /\ phase' = Replays
       ELSE /\ Become(j, [r EXCEPT !.from = cover.known,
                                   !.step = IF r.through <= cover.known THEN "commit"
                                            ELSE "range"])
            /\ UNCHANGED phase
    /\ UNCHANGED <<serverVars, diskVars, connected, wire>>

\* An open chat pulls what changed between the revision it has applied, its
\* appliedRevisionRef, and the one now in the store.
Revalidate(j) ==
    /\ connected /\ job[j].step = "idle"
    /\ \E through \in 1..clock : \E applied \in 0..(through - 1) :
          /\ Shown(through)
          /\ applied <= cover.known \/ "aheadOfCursor" \in Admits
          /\ Become(j, [IdleJob EXCEPT !.step = "range", !.from = applied, !.through = through])
    /\ UNCHANGED diskVars /\ PageFrame

\* ORDER BY p.revision ASC LIMIT ?
CutByRevision(S) == {s \in S : Cardinality({t \in S : rev[t] < rev[s]}) < RangeLimit}

AnswerRange(j) ==
    /\ job[j].step = "range" /\ InOrder
    /\ LET r == job[j]
           changed == {s \in 1..head : rev[s] > r.from /\ rev[s] <= r.through} IN
       Become(j, [r EXCEPT !.step = "page", !.page = PageOf(CutByRevision(changed))])
    /\ UNCHANGED diskVars /\ PageFrame

\* fetchRemotePosts stores every page of the range as it comes, collectRevisionRange
\* goes on after the last revision of a full one.
StoreRangePage(j) ==
    /\ job[j].step = "page"
    /\ LET r == job[j]
           last == Cardinality(DOMAIN r.page) < RangeLimit IN
       /\ SavePosts(r.page, FALSE, FALSE, FALSE)
       /\ Become(j, [r EXCEPT !.step = IF last THEN "commit" ELSE "range",
                              !.from = IF last THEN @
                                       ELSE Max({r.page[s].rev : s \in DOMAIN r.page}),
                              !.got = [s \in DOMAIN r.got \cup DOMAIN r.page |->
                                          IF s \in DOMAIN r.page THEN r.page[s] ELSE r.got[s]],
                              !.page = NoRows])
    /\ PageFrame

\* The end of a pull, successful or not.
Ends(j) ==
    /\ Become(j, IdleJob)
    /\ phase' = IF job[j].sum # NoSum THEN Replays ELSE phase

CommitReads(j) ==
    /\ job[j].step = "commit"
    /\ IF cover = NoCover THEN Ends(j)
       ELSE /\ Become(j, [job[j] EXCEPT !.step = "merge", !.newest = cover.newest,
                                        !.atEnd = cover.reachedNewest])
            /\ UNCHANGED phase
    /\ UNCHANGED <<serverVars, diskVars, connected, wire>>

\* Mutant: the posts after the end of the window are never appended.
NothingBeyond(r) == {}

Beyond(r) == {s \in DOMAIN r.got : s > r.newest}

CommitMerges(j) ==
    /\ job[j].step = "merge"
    /\ LET r == job[j] IN
       /\ SavePosts(r.got, FALSE, FALSE, FALSE)
       /\ IF Collides(r.got, FALSE) THEN Ends(j)
          ELSE /\ Become(j, [r EXCEPT !.step = IF r.atEnd /\ Beyond(r) # {} THEN "append"
                                               ELSE "publish"])
               /\ UNCHANGED phase
    /\ UNCHANGED <<serverVars, connected, wire>>

CommitAppends(j) ==
    /\ job[j].step = "append"
    /\ LET r == job[j]
           more == [s \in Beyond(r) |-> r.got[s]] IN
       /\ SavePosts(more, TRUE, FALSE, TRUE)
       /\ IF Collides(more, TRUE) THEN Ends(j)
          ELSE Become(j, [r EXCEPT !.step = "publish"]) /\ UNCHANGED phase
    /\ UNCHANGED <<serverVars, connected, wire>>

CommitPublishes(j) ==
    /\ job[j].step = "publish"
    /\ Advance(job[j].through, job[j].sum)
    /\ Ends(j)
    /\ UNCHANGED <<serverVars, rows, connected, wire>>

\* The server refuses, or the answer does not come.
RequestFails(j) ==
    /\ job[j].step \in OnTheNet
    /\ Ends(j)
    /\ UNCHANGED <<serverVars, diskVars, connected, wire>>

-----------------------------------------------------------------------------
ServerNext == CreatePost \/ ChangePost
LinkNext   == \/ Disconnect \/ Reconnect \/ Resubscribe \/ RevisionsRefused \/ ReplayEnds \/ Reload
PageNext(j) == AskPage(j) \/ AnswerPage(j) \/ ConnectPage(j) \/ StorePage(j) \/ AdvanceAfterPage(j)
PullNext(j) == \/ AskRevisions(j) \/ CompareRevisions(j) \/ Revalidate(j)
               \/ AnswerRange(j) \/ StoreRangePage(j)
               \/ CommitReads(j) \/ CommitMerges(j) \/ CommitAppends(j) \/ CommitPublishes(j)

ReplicaNext ==
    \/ ServerNext \/ LinkNext \/ HandleEvent \/ EvictPrefix
    \/ \E j \in Jobs : PageNext(j) \/ PullNext(j) \/ RequestFails(j)

ReplicaSpec == ReplicaInit /\ [][ReplicaNext]_replicaVars
=============================================================================
