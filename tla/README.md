# Verification of classapp in TLA+

classapp is an offline-first class application: a React client that keeps a
replica of conversations and posts in IndexedDB, a Node server that runs requests
in worker processes over SQLite, and a launcher that owns the installation
directories and switches releases. This directory holds TLA+ models of the parts
whose correctness depends on the order of things, TLC configurations that check
them on small instances, and theorems proved with TLAPS.

    tlc -config Launcher.cfg LauncherProps.tla      # model-check one run
    tlapm LauncherProofs.tla                        # check the proofs of a module

Contents: 1 inventory, 2 modules, 3 runs, 4 proofs, 5 findings, 6 what is left out,
7 plan. `PROJECT.json` has the same facts in a form tools can read: the components, the
runs, the map from definition to source lines, the hazards with the properties
that cover them, the findings and the theorems.

---------------------------------------------------------------------------------

## 1. Inventory

| Component | State | Operations | Hard behaviour | What makes it correct |
|---|---|---|---|---|
| **Launcher and update** `launcher/launcher.ts`, `server/runtime/update/runtime.ts`, `server/infra/dbBackup.ts` | directories `current/ backup/ staging/`, `.pending-update.json`, `data.db` with a marker, `backups/*.db`, the child process, a watchdog timer, `pendingLifecycle`, `fastCrashCount` | stage, apply, confirm, roll back, install from the cloud, create and delete DB backups, start, watchdog, exit handling, shutdown | two processes, IPC, process exits, power loss between two file-system calls, a timer that must survive restarts | application and schema move as a pair; the target of a rollback survives; the window counts from the apply time; every update is resolved; a release that cannot boot is retired |
| **Post replica** `client/data/repository.ts`, `client/repo/{coverage,revision,watermark}.ts`, `client/interact/{posts,conversations}.ts`, `client/hooks/useChatPosts.ts` | rows of POSTS, the coverage record (`oldest`, `newest`, `reached_oldest`, `reached_newest`, `known_revision`, `revision_sum`), requests under way | live event, history page (before, after, latest), revision catch-up, revalidation, trim, eviction | four writers of one record, each with awaits between what it reads and what it writes | the cursor is a certificate: nothing up to it is missing inside the window; the window has its ends stored; a skipped catch-up misses nothing |
| **Recovery after reconnect** `client/interact/remoteLifecycle.ts` with `remote/session.ts`, `resources.ts`, `actorContext.ts` | `phase`, `scheduled`, `queuedEvents`, the batch being replayed, the binding, the session's epoch | schedule, the steps of a recovery, park, replay, stop, sign in, sign out, refresh | events that arrive during a recovery, a new link during a recovery, another user during a recovery | a client with nothing left to do is current; parked events are let go |
| **Remote client and transport** `client/interact/remote/{client,transport,session}.ts` | transport state, attempts, waiting requests, binding flags | connect, cool down, force offline, authenticate, request, reject | timeouts against late answers; a binding replaced while it authenticates | the gate opens; a call settles once; answers belong to the binding that asked |
| **Server protocol and event bus** `server/protocol/WebSocketProtocol.ts`, `server/runtime/eventBus.ts` | bound users per socket, channels, subscriptions | authenticate, request, deauthenticate, publish, close | the channels are computed in a worker and bound later | an event reaches every binding that may see it and no other |
| **Coordinator and executor pool** `server/runtime/{coordinator,executorPool,executorWorkerMain,executorIpc,workerSticky}.ts` | slots, running job, queue of each slot, calls of workers being served, both message channels | dispatch, complete, worker RPC, worker exit, stop, restart | a worker dies with jobs queued behind it; events leave with the job that made them | a frame is executed and answered at most once and settles; a worker runs one job at a time; what is committed becomes known |
| **Pending mutations and versioned settings** `client/interact/{sync,versionedSettings,clientLock}.ts`, `client/repo/assignment.ts`, `server/services/versionedUserConfigService.ts` | local proposals with versions, server assignments | assign, flush, reconcile | an assignment made while the previous one is in flight; answers and events of earlier assignments; several devices | last writer wins on every replica; nothing proposed is lost |
| **Offline files, quota, retention** `client/data/{files,quotaPolicy,retentionPolicy}.ts`, `client/interact/{quota,retention}.ts` | heads, extents of generations, size journals, policies | replace, write, grow, shrink, read, delete, collect orphans, evict | a tab that dies between two IndexedDB transactions; a collection that takes no lock; readers of another tab | a complete head has all its extents; a reader keeps the generation it pinned |
| **Client bundle and Shell** `client/lib/{bundle,bundleFrame}.ts`, `client/interact/bundles.ts`, `server/http/serviceWorker.ts` | staged and active bundle, Shell version, caches | stage, activate, roll back | Service Worker and page update on their own | a page never mixes two bundles |
| **Server storage** `server/storage/*`, `server/data/{possession,quota}.ts` | blob files, blob rows, trees, leases, quota | publish, retain, collect | a crash between file and row, the collector against a publication | what is referenced is on disk |
| **Access, roles, capabilities** `server/services/{access,capability,authority,role}Service.ts`, `ownerlessCapability.ts` | bindings, memberships, materialised rows `access_effective` | decide, grant, revoke, join, leave, delete a group, deactivate, purge | rows that several workers recompute statement by statement | rows equal the live flags; nobody passes on what is not held |
| **Authentication and sessions** `server/services/authService.ts`, `server/data/{auth,clients}.ts` | sessions, clients | sign in, refresh, revoke | few: single transactions | a revoked session is refused |
| **Groups, conversations, posts, articles** `server/services/*Service.ts` | memberships, conversations, posts with revisions | create, edit, delete, join, leave | what is published after a transaction | the event says what the transaction did |
| **AI runs and billing** `server/services/ai`, `server/runtime/aiExecutionRuntime.ts`, `server/data/ai.ts` | runs, reservations, credits | reserve, run, settle, interrupt | workers that quote before they reserve, a cancellation that is a row and a message, a restart around settlement | credits are promised once, paid within the windows and released; a conversation has one active run; a cancellation is not lost |
| **Media playback and materialization** `server/runtime/media*.ts`, `server/data/media.ts`, `server/http` | asset rows, blobs, quota items, running jobs, live sessions, leases | request, attach to a session, materialize, commit, evict, sweep, delete | database and disk share no transaction; the eviction sweep against a request and against a download; a stop of the server | a ready row has its blob; a leased blob stays; no blob is ownerless; the ledger's weights are true |
| **Import, uploads, documents** `server/runtime/{articleImport,articleUpload,teachDocuments,postImage}Runtime.ts` | upload sessions, temporary files | begin, append, finish | aborted uploads | no upload is published in part |
| **HTTP, endpoints, HTTPS upgrade**; **incidents, audit**; **React components**; **vendored tools** | | | | input and output around the rest |

How they interact. The launcher forks the server and talks to it over IPC; they share the
directories and the database file. The server's coordinator hands a request to a
worker, which runs the service, and publishes the events of the job on the event bus; the protocol
sends answers and events down one ordered socket. On the client the remote session
delivers answers to their callers and events to the RecoveryCoordinator, which
either lets the handlers write to the repository at once or parks them until its
snapshots are done. The paths that write posts (events, history pages, catch-up,
open chat) meet only in IndexedDB transactions and in the coverage record. What a user decides on
one device (`Assignment`) travels as a request and comes back to the others as an
event. The quota controllers on both ends evict what others may be using: the
client's under Web Locks, the server's under leases of HTTP requests. Requests on the
server meet in SQLite only, where workers interleave between statements.

---------------------------------------------------------------------------------

## 2. The modules

    UpdateContract      what an update promises (abstract)
         ^ implemented by
    Launcher            launcher + UpdateRuntime + DB backups
    LauncherProps       its properties and the refinement mapping
    LauncherProofs      types, inductive invariant, safety theorems, the refinement

    JobContract         what the server promises about a frame (abstract)
         ^ implemented by
    ExecutorPool        coordinator, slots, workers and their channels
    ExecutorPoolProps   its properties and the refinement mapping
    ExecutorPoolProofs  RunsAlone, CommitsAreAnnounced, the refinement

    RemoteLink          both ends of the socket: binding, gate, calls, channels
    RemoteLinkProps     what one end may believe of the other
    RemoteLinkProofs    the gate, the calls and the channels

    Recovery            RecoveryCoordinator, binding, session, server lists
    RecoveryProps       settled means current, parking ends, convergence
    RecoveryProofs      parking ends, settled means current

    PostReplica         one conversation in IndexedDB and its four writers
    PostReplicaProps    what the coverage record certifies

    Intents             one decision of a user on several devices
    IntentsProps        nothing decided is lost; devices agree at rest

    FileContract        one file, every call one step (abstract)
         ^ implemented by
    OfflineFiles        ExtentFileStore: generations, journals, locks, crashes
    OfflineFilesProps   its properties and the refinement mapping
    OfflineFilesProofs  complete generations, whole reads, the refinement

    AiRuns              AI runs: jobs, executions, cancellation, credits ledger
    AiRunsProps         what users and bookkeeping rely on
    AiRunsProofs        the runs and the ledger: two invariants, five safety theorems

    AccessGrants        the grant algebra
    AccessContract      owned access decided from the bindings of the moment (abstract)
         ^ implemented by
    Access              materialised rows, statement by statement, several workers
    AccessProps         coherence, no escalation, the refinement mapping

    MediaAssets         materialization, sessions, leases, eviction sweep
    MediaAssetsProps    rows, blobs and ledger agree

    UserProofs          Access: types, the grant algebra, for one worker Coherent, NoEscalation
                        and the refinement; Intents: nothing is lost, the devices converge

    ClientCacheProofs   MediaAssets: one owner for every blob, and the four properties;
                        PostReplica: what the coverage record certifies

How they compose. RemoteLink's jobs are ExecutorPool's seen through JobContract: each
takes effect in one step somewhere between its frame and its answer, and ends in any
order; so are the jobs of Intents, Access and AiRuns, the latter two cut where the database
lets another worker in between. Recovery takes RemoteLink's binding for one flag and adds what is done
with the events. Recovery treats the posts of a conversation as a set of revisions which
catch-up and events only add to; PostReplica is the detailed account of that part, and
its `phase` variable (live, repairing, replaying) is what Recovery's coordinator does to it.
Intents has its own small copy of the same phases, for one record.

Operators that stand right before an action and are commented "Mutant" are wrong
versions of it. No action uses them: they document which mistake each
property is able to detect, and `PROJECT.json` pairs them with the property.

`Admits`, in most modules, names behaviours of the environment that the code does not
exclude and that break a property. Each is part of the next-state
relation behind its name; a run, or a theorem, says which it admits, and section 5 says what
happens with the others.

### 2.1 Launcher

The system is two processes and a machine. One variable per thing that lives on
its own: the directories (`current`, `backup`, `staging`), the files (`pendingFile`,
`db`, `dbBackups`), the child with its `UpdateRuntime` (`server`), the IPC channel
(`outbox`), the launcher's control point (`pc`) and its memory (`call`,
`lifecycle`, `watch`, `startDue`, `crashes`).

* A release is a number, and a newer release owns a newer schema.
* Everything the launcher does in one event-loop callback is one action, except
  `applyUpdate`, `applyRollback` and the clearing of a confirmed update: there every
  synchronous file-system call is a step (`apply.*`, `roll.*`, `clear.*`), so that a power loss
  can fall between two of them, or in the middle of a recursive removal (`Torn`).
* `Date.now()` becomes an age: `pendingFile.age` counts the ticks since `appliedAt`,
  `watch.left` the ticks until the timer fires, and `Window` ticks are
  `UPDATE_CONFIRM_TIMEOUT_MS`. Ages saturate at `Window`, where the code's
  `Math.max(0, ...)` no longer tells them apart.
* `stageDeployment` is split at its await (`StageDeployment`, then
  `StageCompletes` or `StageBackupFails`), the cloud installation at its
  download (`InstallCloudUpdate`, `CloudArchiveArrives`).
* The child may exit at any time with nothing noted: by a crash, fast or slow, or
  with code 0, which the launcher takes as "stay down".

`Admits` names command sequences that the code accepts and a careful administrator
avoids: confirming an update that is not shown (`confirmUnseen`), deploying again
before the launcher has served the last request (`deployEarly`), creating or
deleting DB backups while an update is pending (`backupsWhilePending`), stopping the launcher before
it has served a request (`restartMidRequest`). `PowerLossAt` is the set of control
points at which the machine may lose power.

`UpdateContract` has three variables: the installed release, the schema, and the
pair an unconfirmed update has replaced. The refinement mapping places the effect
of an update at the write of `.pending-update.json`, that of a rollback at the
first removal, that of a confirmation at the removal of `backup/`; during `roll.*` the abstract
schema is already that of the named DB backup.

### 2.2 PostReplica

The server has posts `1..head`, the revision of each, and the counter of the
conversation. The client has `rows` (revision, revision of the quoted post, whether
the text was cut to the preview) and `cover`, the SYNC record. A request (`job`) goes
through the steps of its function, one action per IndexedDB transaction and per
answer of the server; the trim at the end of `savePosts` belongs to the
transaction that calls it. A live event (`HandleEvent`) waits while the client repairs and is
applied, in the order of revisions, otherwise.

`Admits`: `aheadOfCursor` lets a page be asked for with a conversation revision that the
catch-up has not reached; `evictDuringJob` lets the quota evict while a request runs.

### 2.3 Recovery

The server's state is the version of the user's conversation list, which a whole row or a
whole snapshot overwrites, and the posts of one conversation, which merge by
revision. `wire` is the ordered socket: answers, events, `authenticated` frames and
requests to resubscribe. The run of the coordinator is `step`; `request["run"]` is
what it waits for, `request["refresh"]` what the RefreshCoordinator of a sign-in
waits for. Two things are kept apart that the code keeps apart: `phase`, which
decides whether an event is parked, and `step`, the promise under way, because
`stop()` resets the first and leaves the second running.

`Admits`: `scheduleDuringRun` lets a link return, or a scheduled timer fire, while a
recovery is under way; `overtaken` lets the answer or the events of a job leave after the events of a
later job of another worker.

### 2.4 AiRuns

A run is three things that live apart: a row (`runs`), the job of the executor worker
that creates it (`job`) and the execution on the coordinator (`exec`), whose abort
controller is lost with the process. `holds`, `usage`, `topUp` and `reserved` are the ledger,
written in the transactions `Reserve` and `Settle` only. `Quote` is `start` up to its
await and `Begin` its transaction, so that starts of several workers can race for credits
and for a conversation. `Done` is the end of the job: the coordinator applies `ai.execute`
then, and not before. The execution is cut at its awaits (`RouteAnswers`, `RoundBegins`,
`StreamEnds`, ...); a cancellation is a mark on the row and a message (`aborts`) that may
find no controller.

* A conversation has the name of the run that created it, or is one of `Old`.
* What the provider calls of a run cost is chosen at its settlement: `charged` is added up
  for nothing else, and capped by the reservation there.
* `runs[r].cancelled` records, besides `cancel_requested`, whether the request came before or after
  the last look at the row; no action reads the difference.

`Admits`: `crashDuringSearch` lets the server stop while a search waits for the
provider, `workerLoss` lets a worker die after its commit. Both leave a reservation
that nobody will settle before the next start, the first one for ever.

### 2.5 ExecutorPool

Three places hold state. The coordinator has `slot` (`ExecutorWorkerSlot`: `busy`, `pending`, `queue`), the
round-robin `cursor`, the calls of workers it is serving (`calling`) and, per frame, what the session that sent it knows
(`state`: new, accepted, answered, dropped). Each worker has the jobs it runs (`worker`) and how far each has come
(`step`). Between them are two FIFO channels per worker, `inbox` and `outbox`, as
`MessagePort` keeps them. `written` is the database, `events` what the
`UnitOfWork` of a job has collected, `applied` the commands the coordinator has run, `wire` the frames
that left.

* `Submit` is `executor.dispatch` and the choice of the slot; `TakeJob`, `Transaction`,
  `CallCoordinator`, `TakeRpcResult`, `Finish` are a worker's message handler cut at its awaits.
* `TakeDone` is all that follows from a `done` message before the next macrotask:
  the slot is freed, the head of its queue posted, the events published, the commands
  applied, the answer sent, because these are continuations of one promise. Events leave before the
  answer of the job that made them.
* A job writes once, at any moment, or not at all (rollback, `commits = FALSE`).
* A busy worker that dies rejects its pending job; nothing catches the rejection
  (`void session.dispatch` in `WebSocketProtocol.ts:314`), so the process ends and is started
  again (`TakeError`). An idle death goes unnoticed.
* `Stop`, `Exit` and `Restart` are SIGTERM, the last worker's exit and the launcher's next start.

`Admits`: `busyDeath`, `idleDeath`, `stop`; the run and the theorems admit all of them.
`JobContract` knows only what a session knows of a frame and how often it has run.

### 2.6 RemoteLink

A socket is a number, a credential likewise: the n-th that is bound is token n and has `credentialEpoch` n.
On the client, `link` is the `TransportState`, `binding` the `Binding` of the session, and each call is at `attempt`
(waits for a connection), `gate` (waits for the authentication), `pending`, or at an end.
On the server there is a `ProtocolSession` per socket (token, channels) and the rows
of the sessions table (`valid`). Frames of one direction stay in order (`up`, `down`).

* `Expire` and `GateTimeout` are the server's expiry of a token and the client's 5 s.
* A job of the pool (`jobs`) reads or writes the database in a step of its own (`ReadAuthentication`, `RunAction`) and
  ends in another (`EndAuthentication`, `EndAction`), where the coordinator binds the session: between
  the two, groups are joined and left (`ChangeMembership`), tokens expire and logouts run.
* `PublishResubscribe` reaches the sessions bound at that moment.
* `EndAuthentication` binds without looking whether the socket has been closed, and a late refusal deletes the binding of
  its socket, both as the code does; a token is validated when it is bound and not afterwards.

`Admits`: `overlap` lets a membership change between the moment an authentication reads the
memberships and the moment its result is bound. At every other moment, frames of an
authentication on the way included, they change in the run and in the theorem.

### 2.7 Intents

One record of an `Assignment` (`base`, `proposal`) per device, and the row of the server. `kind`
says how the server arbitrates: a flag (pin, mute, a setting, a draft's text) takes the newest
stamp, a read position the furthest post. `asked` holds the requests of a device, `done` the jobs
that have committed, in this order; `Publish` sends the event to every connected
device and the answer to the one that asked.

* A stamp is a number past every stamp the device knows (`nextAssignmentTimestamp`), so two devices may
  draw the same one.
* `Write` proposes and sends, or only proposes when offline; `Connect` asks for the list and
  flushes what is pending once it has come (`ReceiveList`, `ReceiveFlushed`); events that
  come meanwhile are parked.
* `last` and `top` are history: the newest decision of each device, and the largest stamp and post
  the server has ever held.

`Admits`: `overtaking` lets the frames of two jobs leave in the other order.

### 2.8 OfflineFiles

One logical file: its head in one IndexedDB store, its extents, keyed by generation, in another.
**One IndexedDB transaction is one step**; between any two of them the tab may die (`Crash`), which
frees its Web Locks and leaves the stores. `job` says where each tab's call is and which lock that implies:
`Exclusive` steps exclude each other and all readers, and the collection of orphans takes no lock.

* Content is units: an extent holds `ExtentSize` of them, a unit carries the stamp
  of the call that wrote it, 0 when grown.
* A replacement fills a new generation (`Fill`, chunk by chunk), publishes the head
  (`Publish`) and drops the old one (`Drop`, `Batch` extents to a transaction). A change of size journals its target in the head
  first (`Begin`, `Resize`) and is completed by whoever comes next (`EnsureComplete`).
* `young` are the generations younger than `ORPHAN_GRACE_MS`. `Age` lets one grow old; without `slowWrite` not while it is still
  being written.
* `CollectOrphans` judges the keys it has listed, `Sweep` deletes them transaction by transaction.

`FileContract` has one variable, the content with the flag whether its checksum vouches for it, and every call is
one step of it; only writing in place goes in pieces, after the checksum has been dropped.

### 2.9 MediaAssets

Rows (`asset`), quota items (`ledger`), blobs in `staged` and `objects`, the materializations under
way (`jobs`), the stream that live relays share with one of them (`session`), the HTTP requests with
their leases (`request`) and the eviction sweep (`sweep`). **A step is what the code does between two
awaits**; SQLite and the disk are written in different steps.

* `Start`, `Chunk`, `SourceEnds`, `Commit`, `Publish`, `CleanUp` follow `materialize` and `publishAsset`; the
  UPDATE of `Publish` finds no row when an eviction has deleted it meanwhile.
* `GetReady`, `GetSeek`, `GetCover`, `GetRelay`, `Open`, `EndRequest` are the routes. The lease is taken in the same
  step as the row is read.
* `ListCandidates`, `Evict`, `Drop`, `Release` are the sweep; a track that is touched or leased in between is
  passed over.
* `Restart` is a stop and the reconciliation at the next start.
* `stranded` and `excused` are history: the blobs and ledger rows left wrong by a stop, or by an eviction that took the row of a running
  download. No action reads them.

### 2.10 Access

`bindings` and `members` are what was granted and joined, `effective` the materialised rows of
`access_effective`. Each worker runs a request statement by statement; its `job` holds what is still to be
rematerialised, from whole lists of a user down to single rows, and the flags it has `seen` and not
written. Authorization takes a row that satisfies the need, and otherwise rematerialises and looks again. Joining, leaving, deleting a group,
deactivating and purging an account work through the same lists.

`AccessContract` has no rows, workers or statements: it decides from the bindings and memberships of the moment. The mapping
adds `verdict`, the decision a worker has just taken. `AccessGrants` is `shared/access/grants.ts`.

---------------------------------------------------------------------------------

## 3. The runs

| Run | Checks | Shows |
|---|---|---|
| `Launcher.cfg` (LauncherProps) | RollbackTargetExact, NeverNewerSchema, StatusTruthful, AppOnDisk, UnconfirmedKept, ImplementsContract, UpdateResolves, BadReleaseRetires | with an administrator who respects the update state, and power loss at five points of the switch, application and schema move together, a complete application stays on disk, every update is resolved, and the launcher implements `UpdateContract` |
| `LauncherCloudInstall.cfg` (LauncherProps) | CloudInstallStages (violated) | finding 1 |
| `ExecutorPool.cfg` (ExecutorPoolProps) | RunsAlone, CommitsAreAnnounced, ImplementsContract, JobsSettle | through deaths of workers, a stop and restarts, a frame is executed and answered at most once, a worker runs one job at a time, commits become known, accepted frames settle |
| `RemoteLink.cfg` (RemoteLinkProps) | GateOpens, ChannelsCurrent, PendingBelongs, CallsUnderway | the gate is shut only while an authentication is under way, at rest the channels are the user's groups, no call outlives its credential, none is awaited in vain |
| `Recovery.cfg` (RecoveryProps) | SettledIsCurrent, ParkedIsTransient, Converges | a client that stays connected and signed in ends up with all the server has |
| `PostReplica.cfg` (PostReplicaProps) | CursorSound, EndSound, SumSound, WindowClosed | one request at a time, asked for behind the cursor, with live events, lost links, reloads and evictions: the coverage record certifies exactly what the rows hold |
| `Intents.cfg` (IntentsProps) | NoIntentLost, Converged | a decision made online or offline, twice or on two devices, is not lost before the server has had it, and at rest all devices show the server's row |
| `OfflineFiles.cfg` (OfflineFilesProps) | GenerationComplete, ReadsWhole, ImplementsContract | with two tabs, crashes between any two transactions and lock-free collection, a complete head has all its extents, a reader reads one generation, and each call is one step on the content |
| `AiRuns.cfg` (AiRunsProps) | Solvent, ChargeCollected, HoldsAreOwned, OneActiveRun, CancelHeard | while two runs and a search race, fail, are cancelled and interrupted, credits are promised once, paid within both windows and released, and no cancellation is lost |
| `Access.cfg` (AccessProps) | Coherent, NoEscalation, ImplementsContract | with one worker, every materialised row is exact, nobody passes on what is not held, and what is decided from the rows is what the bindings of the moment give |
| `AccessRace.cfg` (AccessProps) | RevokedAtOnce (violated) | finding 2 |
| `MediaAssets.cfg` (MediaAssetsProps) | ReadyOnDisk, LeaseHolds, ObjectsOwned, LedgerHonest | through downloads, relays, leases, the eviction sweep and a stop, a ready row has its blob, a leased blob stays, no blob is ownerless, the ledger's weights are true |

Types are not checked by runs of their own. Where a module has proofs, its type invariant is a
theorem or a part of the inductive invariant; TLC has checked each of these on the instance of the run
before it was proved.

### Bounds

*Launcher.* `MaxVersion = 3`: three updates in a row, so that one can follow a
confirmed, a rolled back and a failed one. `Window = 3`: the timer can be armed
with the whole window, with part of it and with nothing left. `MaxBackups = 2`
with `MaxMade = 4`: pruning happens, twice. `MaxFastCrashes = 3` is the code's
own value. `MaxMessages = 2`: a rollback can follow an update in the channel.
`BadVersions = {1}`: the first update cannot boot.
`PowerLossAt` has five of the points after which the launcher recovers: before the fork, and
inside each of the three procedures, in a removal or between a removal and a rename. 103 200 states.

*ExecutorPool.* Three jobs on two slots: both can be busy with one queued behind either, and a
death can hit the worker with a queue or the other one. Jobs are sent once, so a restarted process has those
that were not sent yet. All behaviours are admitted.

*RemoteLink.* One call and the logout, so that a call can be pending or at the gate
while the credential goes; one group; two connection attempts, so that frames, jobs and
refusals of the first socket meet the second; two events, to be spent on sign-ins or
membership changes.

*Recovery.* Two versions of the list (joining, then a change of the row), one
post, two lost links or failed handlers, two changes of the session (out and in
again). Two troubles are what a recovery needs to be disturbed by the very
thing that started it; a third adds states and no new situation.

*PostReplica.* Three posts, two of them there at the start, and four revisions: a
new post, an edit, and both in either order. Pages of one post make every window
grow in several steps; `Keep = 2` makes the third post trim the first. Post 2 is a reply and
post 3 is longer than the preview. One job: see section 7 for two.

*Intents.* Two devices, two stamps, two posts, two writes, two lost connections, for both kinds of
record: two decisions of one device, or one on each with the same or different stamps,
and a second loss during the recovery from the first. The run does not admit `overtaking`.

*OfflineFiles.* Two tabs, and three units in extents of two: the last extent can be full or not,
and growing or shrinking crosses its boundary or stays inside it. `Batch = 1` makes every deletion of two
extents take two transactions. Two generations or writes: a replacement of a file
that somebody else has just made. Tabs are symmetric. 534 437 states.

*AiRuns.* Two runs, an old conversation and a search: every pair of starts can race for one
conversation, and three holders for one account. A run holds 2, so that a charge can be
split between plan (1 a day and 1 a week: the week is the tighter one on the second day) and
top-up (3, booked once). Two rounds: a tool round and the last one. The number
of restarts is not bounded; runs are symmetric (`Alike`), and no liveness is checked in this run.

*Access.* Two accounts, a group and a resource: an owner and somebody who reaches the
resource directly, through the group, or both. Grants and groups are taken at their full
range. One worker in `Access.cfg`, two in `AccessRace.cfg`.

*MediaAssets.* One track with audio and cover, two requests, audio of one chunk, a pool with room for one
of the two assets, so that every complete track calls for the sweep; four blob ids are two attempts
at both assets; one stop.

### Fairness

*Launcher.* The launcher's synchronous code and due timers run (`SwapNext`,
`StartServer`, `Fork`, `ReceiveLifecycle`, `ReceiveConfirm`, `WatchdogFires`: a
Node event loop that is not blocked), time passes (`Tick`), a launcher that is down
is started again (by its service manager, `LauncherBoots`), a server that can boot does and one
that was asked to exit exits. Nobody has to deploy, confirm, roll back or crash. Under
that, `UpdateResolves` says that an applied update does not stay unconfirmed for
ever, and `BadReleaseRetires` that a release that cannot boot is replaced.

*Recovery.* Messages on an open socket are handled in order (`Handle`), the server
answers (`Serve`), the coordinator's promises go on (`Run`: requests without a
link fail, so no step waits for ever), and the transport reconnects after its
cooldown (`Connect`). Links are lost at most `MaxTroubles` times. `Converges` asks only about
clients that in the end stay connected and signed in.

*ExecutorPool.* The event loops of each worker and of the coordinator go on (`WorkerStep`, `CoordinatorStep`); a
job has an end. Nothing is assumed of failures, restarts or clients. `JobsSettle` asks about
executions in which no worker has died idle and unnoticed: the slot of such a worker goes on being chosen, and what
is posted to it is never answered.

### Deadlock

The runs of Launcher, PostReplica, Recovery, OfflineFiles and AiRuns check it (in AiRuns it says nothing, because
plans may always change). In Recovery a client that has nothing to do repeats
`Waits`, which is enabled only when it is really settled: a client that stops
anywhere else is a deadlock. The others may come to rest and say so: all jobs sent and answered (ExecutorPool), all
bounds spent (RemoteLink, Intents, MediaAssets), every account purged (Access).

---------------------------------------------------------------------------------

## 4. What is proved

All theorems hold for every value of the constants that satisfies the ASSUMEs of
the module; those state no more than that bounds are natural numbers, not
zero where the code's constants are not, that the sets of behaviours are
subsets of the named ones, and that "none" is no other value.

| Theorem | Module | Says | Assumes |
|---|---|---|---|
| `TypeCorrect` | LauncherProofs | `Spec => []TypeOK` | nothing more |
| `RollbackTargetKept` | LauncherProofs | `RollbackTargetExact` always | `Orderly` |
| `SchemaNeverNewer` | LauncherProofs | `NeverNewerSchema` always | `Orderly` |
| `StatusAgrees` | LauncherProofs | `StatusTruthful` always | `Orderly` |
| `UnconfirmedSurvives` | LauncherProofs | `UnconfirmedKept` always | `Orderly` |
| `ContractImplemented` | LauncherProofs | `Spec => ImplementsContract` | `Orderly` |
| `ApplicationSurvives` | LauncherProofs | `AppOnDisk` always | `Whole` |
| `JobsRunAlone` | ExecutorPoolProofs | `RunsAlone` always | nothing more |
| `CommitsKnown` | ExecutorPoolProofs | `CommitsAreAnnounced` always | nothing more |
| `PoolImplementsContract` | ExecutorPoolProofs | `Spec => ImplementsContract` | nothing more |
| `GateNeverForgotten` | RemoteLinkProofs | `GateOpens` always | nothing more |
| `PendingHasItsCredential` | RemoteLinkProofs | `PendingBelongs` always | nothing more |
| `NothingAwaitedInVain` | RemoteLinkProofs | `CallsUnderway` always | nothing more |
| `ChannelsAtRest` | RemoteLinkProofs | `ChannelsCurrent` always | `"overlap" \notin Admits` |
| `ParkingEnds` | RecoveryProofs | `Spec => []ParkedIsTransient` | nothing more |
| `SettledClientIsCurrent` | RecoveryProofs | `SettledIsCurrent` always | `Admits = {}` |
| `GenerationIsComplete` | OfflineFilesProofs | `GenerationComplete` always | `Admits = {}` |
| `ReaderGetsWhole` | OfflineFilesProofs | `ReadsWhole` always | `Admits = {}` |
| `StoreImplementsContract` | OfflineFilesProofs | `Spec => ImplementsContract` | `Admits = {}` |
| `RunInvariant` | AiRunsProofs | `Spec => []RunInv` | nothing more |
| `OneActiveRunHolds` | AiRunsProofs | `OneActiveRun` always | nothing more |
| `CancelHeardHolds` | AiRunsProofs | `CancelHeard` always | nothing more |
| `HoldsAreOwnedHolds` | AiRunsProofs | `HoldsAreOwned` always | `Admits = {}` |
| `LedgerInvariant` | AiRunsProofs | `Spec => []LedgerInv` | nothing more |
| `SolventHolds` | AiRunsProofs | `Solvent` always | nothing more |
| `ChargeCollectedHolds` | AiRunsProofs | `ChargeCollected` always | nothing more |
| `AccessTypeOK` | UserProofs | `Spec => []TypeOK` | nothing more |
| `NormalizeKeepsFlags` | UserProofs | a normalised set of grants has the flags of the set | |
| `IssuedByOneGrant` | UserProofs | the flags of a set let issue a grant exactly if one of its grants does | |
| `CoherentAlone` | UserProofs | `Coherent` always | one worker |
| `NoEscalationAlone` | UserProofs | `NoEscalation` always | one worker |
| `AccessImplementsContract` | UserProofs | `Spec => ImplementsContract` | one worker |
| `NoIntentLostHolds` | UserProofs | `IntentSpec => []NoIntentLost` | nothing more |
| `ConvergedHolds` | UserProofs | `IntentSpec => []Converged` | `"overtaking" \notin Admits` |
| `ReadyAlwaysOnDisk` | ClientCacheProofs | `ReadyOnDisk` always | nothing more |
| `LeasesAlwaysHold` | ClientCacheProofs | `LeaseHolds` always | nothing more |
| `ObjectsAlwaysOwned` | ClientCacheProofs | `ObjectsOwned` always | nothing more |
| `LedgerAlwaysHonest` | ClientCacheProofs | `LedgerHonest` always | nothing more |
| `WindowClosedHolds` | ClientCacheProofs | `WindowClosed` always | nothing more |
| `CursorSoundHolds` | ClientCacheProofs | `CursorSound` always | `OneRequest` |
| `EndSoundHolds` | ClientCacheProofs | `EndSound` always | `OneRequest` |
| `SumSoundHolds` | ClientCacheProofs | `SumSound` always | `OneRequest` |

`Orderly == Admits = {} /\ PowerLossAt \subseteq Harmless`, where `Harmless` are the six points "start",
"fork", "apply.rm", "apply.moveCurrent", "roll.clear" and "clear.unlink". `Whole` leaves out only power loss
in the two removals of `backup/`, "apply.rm" and "clear.rm", and allows every command at every moment.
`Orderly` may contain "apply.rm" because an orderly administrator never deploys over an unconfirmed update, so
that there is nothing to remove. The assumptions are needed: section 5 has counterexamples beyond them.

*TypeCorrect* is inductive as it stands; the proof has a step for every action,
and lemmas about the parts actions share (`BeginRollback`, `VolatileLost`,
`BackUpDatabase`).

*The launcher's safety theorems* share one inductive invariant, `IInv`, because none of the
properties is inductive by itself. `RollbackTargetExact` speaks only of moments
at which the launcher is at rest; to survive the switch it has to be known, while
the request still is on its way, that the DB backup it will name exists and holds
the schema of the application that is about to move. The name travels from
`server.due` to the message, to `lifecycle`, to `call`, to `.pending-update.json`
and to the watchdog's closure, and `IInv` follows it there:

* `BackupsOrdered`: DB backups are distinct and not newer than the counter, so the one just
  made survives the pruning;
* `ProcessesOk`: what may be in memory when no child runs or the launcher is down;
* `RequestsOk`: at most one request is in flight, and an update request names an
  existing backup with the schema of `current`;
* `ApplyOk`, `RollbackOk`: what holds between the file-system calls of a switch;
* `PendingFileOk`: the file, when there, names an existing backup whose schema is
  that of `backup/`;
* `MarkerOk`: marker, memory and directory between two messages;
* `SchemaOk`: the schema is at most that of `current`, except inside a switch or a rollback,
  and a staged release is newer than any installed one.

*ContractImplemented* adds `SwitchOk`, the schema of the database at each point of a switch, computes the
abstract variables from the directories (`Mapped`), and then shows action by action
that they either stay or take one step of the contract. *ApplicationSurvives* cannot use
`IInv`, whose assumptions it drops; `DiskInv` says when a server can be running at all (`ServerOk`)
and what each step of a switch finds in the directories (`FilesOk`).

*The theorems about the pool* follow a token. A slot has one token: the job on its way to
the worker, the job it runs, or the result on its way back; `RunsAlone` follows from it.
`JobInv` says that a job waits in one place (a queue or the way to a worker), has not run while it
waits, and that results come from jobs that have run once. `KnownInv` says that a slot keeps pending what its
worker has or has ended, and that a job whose transaction is in the database
is running, reported, or lost with its worker while somebody waits for it.

*The theorems about the link* share one invariant. Neither `GateOpens` nor `CallsUnderway` is inductive
without what each end knows of the socket: the server keeps a session open while the client holds it
(`Heard`), a binding is authenticated only on a connection (`Firm`), and a call is pending only on one and under the
credential of the moment (`PendingLinked`): without that the call of a lost socket would have nothing behind it. The order
of frames and jobs plays no part, so the proofs look at sequences as sets, and what is awaited moves
from the way up (`Above`) to a job (`Work`) to the way down (`Below`). `ChannelsAtRest` adds that channels which are not the
memberships have a remedy under way (`Moving`): an event that is not published yet, a `remote.resubscribe`, an authentication on
its way or running, or a refusal that will drop the binding. The remedy works because what an
authentication has read is still so when it is bound (`ReadsCurrent`), which is what `overlap` breaks.

*ParkingEnds* is inductive by itself: each action that enters a phase sets the timer or
goes on with the run, and each that clears the timer resets the phase or starts a run. The
theorem is about the mistake the mutant `StopsHalfway` makes.

*SettledClientIsCurrent* is the safety half of "the client becomes current". At rest the claim is two equations;
before, the client's list and posts are behind the server's by what is still on its way. `Holds` therefore numbers the
frames of the wire: `h[i]` and `p[i]` say how far list and posts had come when frame `i` was sent. An answer carries the
numbers of its place, so the client is always as current as `h[0]` and `p[0]` or something that will repair it is under
way: a timer, a step of the run, a request (`ListAhead`, `PostsAhead`), or an event that is parked
(`LastParked`). The hard cases are changes nobody publishes to this client because its channels do not cover the
conversation yet: `JoinAhead` and `Unjoined` say that a `remote.resubscribe` or a new authentication is still to come,
and `StaleAnswers` that an answer overtaken by such a change is excused by one behind it. `Admits = {}` leaves out
a recovery scheduled while another runs and answers overtaken by later events of another worker; with them it is false
(section 5). Lost connections, failing handlers, sign-outs and the joining of groups are part of the theorem.

*GenerationIsComplete* rests on an invariant of five parts: the types, what a head and its journal say of the stored
extents (`HeadOk`, with `GrowOk` and `ShrinkOk` for a journal that has been applied in part), the exclusion of
writers (`OneWriter`), and, for every step a call can be at, what it has done and has still to do (`JobOk`).
Whoever holds the lock is alone in changing the file; the collection, which holds none, takes only
generations that are neither young nor named by the head. Lemmas about the arithmetic of
extents stand before it.

*ReaderGetsWhole and StoreImplementsContract* are about content. `GenerationComplete` says that the units are there;
`ContentInv` says, unit by unit (`At`: extent and place, as the code computes both from a position), what they hold: a
generation in the making nothing but its own units (`FillMine`), and what a reader has got so far the first units of the head it
began with (`ReadOk`), which nobody replaces while the lock is shared. `HeadSum` and `PutMine` connect the
checksum with writing in place: it is gone before the first unit changes. The contract's file is the concatenation of
the extents; a call is one step of it where its head is saved (of a resize
the head with the journal, as from then on every reader finishes it first), writing in place is one step for each extent, and
everything else leaves the content as it is: applying and completing a journal, filling a generation, collecting. `Admits = {}`
means that a generation stays young while it is written, which the code takes for granted (a grace period in
`collectOrphans`). `ContentAssumption` says that "no file" is no file.

*The theorems about AI runs* rest on `RunInv`. `InStep` says which combinations of row, job and
execution exist: without it a late execution could revive a row that has ended. `NotInTime` is
what makes `CancelHeard` inductive: a stream and the metadata call begin only behind a look at the row.
`CreatorStays` is what a fork needs: it moves its run to a new conversation, and the new
conversation is empty because whoever stands in a conversation created by a run finds that run
there. The proofs first say field by field what each action does (`QuoteMoves`, ...), and the parts of
the invariant follow from that. `HoldsAreOwned` is inductive beside `RunInv`.

*The ledger of AI runs.* `Solvent` and `ChargeCollected` follow from `LedgerInv`: what is reserved is the sum of the
active holds (`ReservedIsHeld`), and the allowance of the day and the top-up cover what has been used and what is reserved
(`Covered`). The amounts are sums over a set of operations, as the queries of `ai.ts` are; that a sum changes by what one
term changes is a fact about a recursive definition and would be an induction over the set. The library's induction
theorem takes an operator as a parameter and is of no use here; instead the lemmas look at a smallest
subset for which the statement fails, which exists because cardinalities are natural numbers.

*The theorems about access.* `Coherent` speaks of moments without requests. The invariant says, for every
moment, that a row which is not exact is still to be rematerialised by what the worker has
in its `job`, and that what it has `seen` is still true, which holds because nobody else writes: with a second
worker it is false (finding 2). `NoEscalation` follows with `IssuedByOneGrant`: the row that is
checked is a union of grants over several paths, and a grant may be issued from the union only if one of them allows it.
`AccessImplementsContract` adds to the invariant what the contract takes for granted and the code has to keep true: a group that is gone
has no members (`Dissolved`), the groups a job is going to unbind are gone (`TakenForGone`), no account is removed twice, and whoever
was denied may not. The decision of `authorize` and of its retry is then the contract's `Decide`, because the row it reads is exact, and
the deferred deletion of a group's or an account's bindings is its `Forget`: between the two nobody reaches anything through them.

*The theorems about the media cache* share one invariant. At its centre is ownership: a blob id belongs to one
job, one ready row or the sweep (`Apart`) and none is named before it is handed out (`Minted`), so whoever removes a
file removes nobody else's. `OneJob` says why that survives a publication and a failed attempt: a job that may still
publish, or whose file exists, is the only one of its asset, the asset is not ready, and the stream that
feeds it is still the session of the track. `Lent` is what a lease gives, that nobody is going to remove
the file. `Books` carries the ledger through `Publish`, `Release` and `Restart`. The run has one
track; the theorems have any number, with the sweep going from one to the next.

*WindowClosed* is inductive beside what the records are and that nothing stored, asked for or on the way is
newer than the server (`ReplicaInv`). The proof is about two operators: a trim removes the oldest rows and
the record is cut to what is left (`ShrunkCloses`, `SurplusIsPrefix`), and a save that widens the window connects to it
(`WideCloses`); every action that writes is then one `Saved`. Several requests at once and all of `Admits` are allowed.

*What the cursor certifies.* `OneRequest == Admits = {} /\ \E j : Jobs = {j}`: one request at a time, asked for
behind the cursor, no eviction under it; any number of posts, any page, range and retention limits, and events,
changes on the server, lost links and reloads between any two steps. Without it the properties
are false (section 5). The invariant (`CertInv`) says more than the cursor does: a request promises
revisions before the cursor moves, a page those of the conversation revision it was asked with, a pull those of its
range from `publish` on, and `Due` is the cursor's revisions together with the promised ones. `Certified`
and `EndKnown` are `CursorSound` and `EndSound` for what is due. They survive a step of the request because of what is known of the data
it carries: a page is an interval that touches the window (`Whole`, `Joined`) and shows due posts as they are (`Exact`), a
pull has every change of the range so far (`Pulled`, `Paged`; that `ORDER BY revision LIMIT` cuts off the newest
is `CutKeepsFirst`), and what a commit has not written lies beyond the window (`Merging`). They survive an event because
the events on the way are newer than what a page promises (`Past`), and a change on the server because its
revision is newer than every promise (`Dated`). A trim never uncovers the lower end of a page: the window is then full, and
a full window does not grow downwards; several parts of the invariant say "or `Full`" for that reason.
`SumSound` adds that every change raises the revision sum (`SumRises`), so that a sum that agrees was taken at this very
revision (`Summed`); this half needs no assumption.

*No intent is lost.* A device gives a proposal up only for a value that is as new, or as far, and `Witnessed` says that every
value on its way to a device was once the server's row, whose largest stamp and post `top` keeps; so what
beats the proposal has been at the server. Nothing is assumed of the order of the frames. `Replayed` is a fold over the
parked events; `ReplayedIsAfter` gives its closed form (the base is the last event, the proposal stays if no event is
as new), by looking, of two functions that satisfy the fold's definition, at the smallest set of positions where they differ.

*The devices of a user converge.* First the base. Where ends reach the coordinator in the order of their commits, `CommitsInOrder` says
that the queue of ends stops at the row and that an end without an event repeats the one before it; `FollowsOn` that what a
connected device has parked and has on its way stops where that queue begins; `AnswersRepeat` that an answer never
says anything its device has not just been told, so that an answer which sets the base does not set it
back. With all queues empty the base is the row. Then the proposal: `Carried` says that a connected device which
is past the list of its recovery has its proposal on its way, as a request, as the end of a job that settles it
or as that job's answer; `Settled` and `ListFirst` keep answers of an earlier connection and of the flush out of the way.
With all queues empty there is no proposal.

Only model-checked: the four liveness properties. Out of the provers'
reach, and therefore TLC's alone: liveness under fairness (`UpdateResolves`,
`BadReleaseRetires`, `JobsSettle`, `Converges`), ENABLED, and induction over data where a smallest
counterexample does not help. There are no RECURSIVE operators.

---------------------------------------------------------------------------------

## 5. Findings

Two runs end in a counterexample:

1. **A cloud installation refuses itself.** `installCloudUpdate` raises
   `cloudInstalling` (`server/runtime/update/runtime.ts:297`) and then calls
   `deployUpdate`, whose `stageDeployment` refuses while the flag is up (202); `docs/systems/update-and-startup.md:71`
   describes it as staging.
2. **Access that was taken away comes back.** `rematerialize` (`server/services/accessService.ts:70`) reads the
   live flags and writes the row in two statements. With two workers, a row computed before a
   membership ended is written after it, and `authorize` (172) trusts a row that satisfies the need, until
   something rematerialises the resource again. `docs/systems/resource-authorization.md:46` says
   "immediately". The pool has at least two workers unless `CLASSAPP_EXECUTORS=1`
   (`server/runtime/executorPool.ts:49-56`), and with one the theorem `CoherentAlone` holds.

Other behaviours that TLC finds when a run's constants admit them. They are not runs
of the project; the constants that show them are given.

*Launcher* (`PowerLossAt`, `Admits`)

* Power loss at `apply.record`, between the rename of `staging/` (`launcher/launcher.ts:211`) and the write of
  `.pending-update.json` (212), loses the rollback target, against `ARCHITECTURE.md:38`. At `apply.moveStaging`,
  `roll.rm`, `roll.move`, `roll.restore` and `clear.rm` it breaks the contract: application and schema are
  seen apart, or a torn `backup/` stays beside a complete `current/` and a later
  rollback would install it. At `start` it breaks liveness alone, because it can be lost again and again.
* `backupsWhilePending`: the DB backup of a pending update can be deleted or pruned
  (`server/infra/dbBackup.ts:74, 80`); the rollback then runs the old release over the
  new schema, against `docs/systems/update-and-startup.md:88`.

*PostReplica*

* `aheadOfCursor`: a history page moves the cursor past rows it does not hold
  (`client/interact/posts.ts:188`), against `docs/engineering/traps.md:127`.
* Pages and live events bring different text under one revision when a long post is cut
  to its preview (`server/data/posts.ts:142`), which `client/repo/revision.ts` treats as a collision.
* Two jobs: an older "before" page, answered before an edit, connects to the window that a later
  "latest" page has opened, and the cursor is then moved past the edit (CursorSound).

*Recovery*

* `scheduleDuringRun`: a recovery scheduled during a recovery is dropped
  (`client/interact/remoteLifecycle.ts:96`): a timer that fires while a run is under way
  returns that run.
* `overtaken`: a list that was read earlier overwrites a newer row
  (`client/data/repository.ts:1016`), because `saveConversations` does not compare revisions.

*RemoteLink*, `overlap`, with `MaxEvents = 3`: a group joined while an authentication is computed asks for a
resubscription that the binding cannot hear yet, and the channels stay short of
it (ChannelsCurrent; `docs/systems/authentication.md:39`).

*ExecutorPool*: `docs/decisions/0001-coordinator-executor.md:75` says that a worker's crash fails the action
in flight. It does, and the rejection, which nothing catches (`server/protocol/WebSocketProtocol.ts:314`), ends the process,
with all actions of the other workers.

*AiRuns*, `crashDuringSearch`: the reservation of a search that a stop interrupts stays for ever, because
`settleTerminalAiReservations` joins the runs and a search has none, against `docs/systems/ai-billing.md`.

*OfflineFiles*, `slowWrite`: a generation written for longer than `ORPHAN_GRACE_MS` (`client/data/files.ts:14`) loses
extents to the collection before it is published (GenerationComplete).

*Intents*, `overtaking`: the answer or event of an earlier commit is applied after that of a later one.

Seen while reading, outside the models:

* Between `ensureComplete` and the shared lock of a reader (`client/data/files.ts:523`) another tab may begin to shrink the
  file; nothing calls `shrink` today. The model has the gap, and `ReadsWhole` speaks of complete heads.
* `enforce` (`client/interact/quota.ts:33`) returns the run under way to a later caller, whose exclusions it
  ignores.
* `mergeCatalog` (`client/interact/bundles.ts:69`) combines the header of one catalogue with the ordinals of another,
  and "exhausted" survives an eviction.
* `server/domain/facade/groups.ts:52` deletes a membership and rematerialises in separate transactions: a
  stop in between leaves the access of somebody who has left.
* `server/services/accessService.ts:211` finds a grant and writes it in two statements, so that two
  grants to one principal may lose one.
* Removing a conversation deletes what is still proposed for it, against
  `docs/offline/consistency-and-recovery.md:152`.

---------------------------------------------------------------------------------

## 6. What is not modelled

Within the modules:

* *Launcher*: the dependency refresh (`npm install`) and the content of archives;
  logging. The HTTP answer that delays `applyStagedUpdate` is the gap between two actions.
* *ExecutorPool*: which worker sticky routing prefers, the deferred start of runtimes, the content
  of jobs. The timeout of an RPC cancels nothing and is left out. Events of a nested `UnitOfWork` that
  is rolled back inside a job that commits are delivered with it, in the code as here.
* *RemoteLink*: frame validation, heartbeat, the backoff between attempts (losing and finding a link are
  one step each), several users on one socket.
* *PostReplica*: images, search, purges, retention policies; more than one conversation (they share no
  record).
* *Recovery*: the lists of articles and AI, heartbeats, several users on one socket.
  A step the server refuses and a handler that throws during the replay
  have no action.
* *Intents*: drafts beside their assignment, the client lock, the end of a record (a conversation that is removed).
* *OfflineFiles*: more than one file (`deletePrefix` is a deletion per head); the limit and the key order of
  `collectOrphans`; the lock used without `navigator.locks`; quota and retention policies.
* *AiRuns*: several users (accounts share nothing), purges, policy changes, the workspace, the failover
  between providers (a call ends or fails).
* *Access*: roles, join policies, ownerless capabilities, the association of lists with groups, the rebinding in `ensureQueue`. The two reads
  of `liveFlags`, the search and the write of a grant, and the deletions of a dropped resource are one step each; groups
  exist from the start.
* *MediaAssets*: providers, child processes, weights other than one, the rate limiter, the throttle and the cap on
  waiting requests (a request may fail at any time); one sweep at a time; `trash/` is absence from `objects/`.

Components without a model, with what they would add:

* *Client bundle and Shell updates*: staging and activation by two parties; planned.
* *Article import, uploads and document rendering*: streaming and external processes; upload sessions are planned.
* *HTTP routes, endpoints and the HTTPS upgrade; incidents, audit and observability; React components; vendored
  tools*: input, output and records that feed nothing back. They are about half of
  the repository's lines.

---------------------------------------------------------------------------------

## 7. Plan

What is left, the most important first:

1. **PostReplica with two requests**: analyse the counterexample of two history pages against
   the locks of the client and give it a run; then `evictDuringJob`.
2. **Recovery with refused steps and failing replays.**
3. **AiRuns continued**: purging a user while a run goes on, changes of the policy, the idempotency records of the
   file tools, `crashDuringSearch` as a run of its own, and "every run ends" with fairness.
4. **BlobStore**: trees, possession records and the collector of blobs, with a crash between file and row.
5. **Bundle and Shell activation; upload sessions.**
6. **Access across a restart**, where nothing rematerialises what a stop has left.

Theorems planned: every invariant and action property of a run is a theorem; what is left is to
assume less in them, first of all `SettledIsCurrent` with those of its `Admits` that do not refute it.
