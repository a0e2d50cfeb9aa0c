------------------------------ MODULE Launcher ------------------------------
(***************************************************************************)
(* Deployment of a release: launcher/launcher.ts (the process that owns    *)
(* the installation directories, the rollback watchdog and the forked      *)
(* server) together with the server's UpdateRuntime                        *)
(* (server/runtime/update/runtime.ts), its pending marker in SQLite        *)
(* (server/data/appState.ts) and the DB backups (server/infra/dbBackup.ts).*)
(*                                                                         *)
(* A release is a number; a newer release owns a newer schema.  Each       *)
(* synchronous file-system call of the launcher is a step of its own, so   *)
(* that a power loss can fall between two of them.  Everything else the    *)
(* launcher does is one event-loop callback, hence one action.             *)
(* Date.now() is replaced by ages: pendingFile.age is the time since       *)
(* appliedAt, watch.left the time until the timer fires, both in units of  *)
(* which Window make UPDATE_CONFIRM_TIMEOUT_MS.                            *)
(***************************************************************************)
EXTENDS Integers, Sequences, FiniteSets

CONSTANTS
    MaxVersion,      \* bound: releases 1..MaxVersion may be deployed over release 0
    Window,          \* UPDATE_CONFIRM_TIMEOUT_MS, in ticks
    MaxBackups,      \* MAX_BACKUPS of server/infra/dbBackup.ts
    MaxMade,         \* bound: DB backups made in a behaviour
    MaxFastCrashes,  \* MAX_FAST_CRASHES of the launcher
    MaxMessages,     \* bound: IPC messages in flight
    BadVersions,     \* releases whose server exits during boot
    Admits,          \* what the administrator and the machine may do, see Behaviours
    PowerLossAt      \* launcher steps during which the machine may lose power

Versions == 0..MaxVersion
Ids      == 0..MaxMade
NoDir    == -1
Torn     == -2       \* a directory whose recursive removal was cut short
NoDb     == 0
NoFile   == [db |-> NoDb, age |-> -1]
Disarmed == [left |-> -1, db |-> NoDb]

(***************************************************************************)
(* Command sequences that the code accepts.  A run that leaves one out     *)
(* assumes an administrator who does not do it.                            *)
(*   confirmUnseen       confirm although no pending update is shown       *)
(*   deployEarly         deploy before the launcher has served the confirm *)
(*                       or rollback request sent just before              *)
(*   backupsWhilePending create or delete DB backups during an update      *)
(*   restartMidRequest   stop the launcher before it has served an update, *)
(*                       rollback or confirm request of the server         *)
(***************************************************************************)
Behaviours == {"confirmUnseen", "deployEarly", "backupsWhilePending",
               "restartMidRequest"}

ApplySteps    == {"apply.rm", "apply.moveCurrent", "apply.moveStaging", "apply.record"}
RollbackSteps == {"roll.rm", "roll.move", "roll.restore", "roll.clear"}
ClearSteps    == {"clear.rm", "clear.unlink"}
Steps         == {"down", "start", "fork", "idle"} \cup ApplySteps
                     \cup RollbackSteps \cup ClearSteps

ASSUME BoundsAssumption ==
    /\ MaxVersion \in Nat \ {0}
    /\ Window \in Nat \ {0}
    /\ MaxBackups \in Nat \ {0}
    /\ MaxMade \in Nat
    /\ MaxFastCrashes \in Nat \ {0}
    /\ MaxMessages \in Nat \ {0}

ASSUME EnvironmentAssumption ==
    /\ BadVersions \subseteq Versions \ {0}
    /\ Admits \subseteq Behaviours
    /\ PowerLossAt \subseteq Steps

VARIABLES
    current, backup, staging,  \* the three application directories
    pendingFile,               \* .pending-update.json
    db,                        \* data.db: schema version and pending marker
    dbBackups,                 \* backups/*.db
    server,                    \* the forked child and its UpdateRuntime
    outbox,                    \* IPC messages from the child to the launcher
    pc,                        \* the launcher's control point
    call,                      \* arguments of the applyUpdate/applyRollback under way
    lifecycle,                 \* pendingLifecycle
    watch,                     \* updateWatchdog and the metadata it captured
    startDue,                  \* a setTimeout(startServer, ...) is outstanding
    crashes,                   \* fastCrashCount
    nextVersion, made          \* counters behind the bounds

dirs     == <<current, backup, staging, pendingFile>>
data     == <<db, dbBackups, made>>
control  == <<pc, call, lifecycle, watch, startDue, crashes>>
vars     == <<dirs, data, server, outbox, control, nextVersion>>

NoServer    == [state |-> "none", upd |-> "idle", deploying |-> FALSE,
                cloud |-> "idle", due |-> NoDb, exiting |-> FALSE]
NoLifecycle == [action |-> "none", db |-> NoDb]
NoCall      == [db |-> NoDb, then |-> "idle", resets |-> FALSE]

Servers    == [state : {"none", "booting", "up"}, upd : {"idle", "pending"},
               deploying : BOOLEAN, cloud : {"idle", "installing"},
               due : Ids, exiting : BOOLEAN]
Messages   == [type : {"update", "rollback", "confirm"}, db : Ids]
Lifecycles == [action : {"none", "update", "rollback"}, db : Ids]

Message(type, id) == [type |-> type, db |-> id]

Init ==
    /\ current = 0 /\ backup = NoDir /\ staging = NoDir
    /\ pendingFile = NoFile
    /\ db = [schema |-> 0, marker |-> FALSE]
    /\ dbBackups = {}
    /\ server = NoServer
    /\ outbox = <<>>
    /\ pc = "start" /\ call = NoCall /\ lifecycle = NoLifecycle
    /\ watch = Disarmed /\ startDue = FALSE /\ crashes = 0
    /\ nextVersion = 1 /\ made = 0

-----------------------------------------------------------------------------
(***************************************************************************)
(* The server.                                                             *)
(***************************************************************************)
Bootable == current \notin BadVersions \cup {Torn} /\ db.schema <= current

\* Mutant: the UpdateRuntime constructor keeps the marker but not the state.
ServerBootsForgetting ==
    /\ server.state = "booting" /\ ~server.exiting /\ Bootable
    /\ db' = [schema |-> current, marker |-> db.marker /\ backup # NoDir]
    /\ server' = [server EXCEPT !.state = "up"]
    /\ UNCHANGED <<dirs, dbBackups, made, outbox, control, nextVersion>>

\* bootstrap: openCoordinatorDatabase migrates, the UpdateRuntime constructor
\* recovers the pending state or drops a marker that has no backup/.
ServerBoots ==
    /\ server.state = "booting" /\ ~server.exiting /\ Bootable
    /\ LET pending == db.marker /\ backup # NoDir IN
          /\ db' = [schema |-> current, marker |-> pending]
          /\ server' = [server EXCEPT !.state = "up",
                                      !.upd = IF pending THEN "pending" ELSE "idle"]
    /\ UNCHANGED <<dirs, dbBackups, made, outbox, control, nextVersion>>

Serving ==
    /\ server.state = "up"
    /\ (outbox = <<>> /\ pc = "idle" /\ ~server.exiting) \/ "deployEarly" \in Admits

\* Mutant: stageDeployment does not refuse while an update is pending.
MayStageOverPending == server.cloud = "idle" /\ ~server.deploying

\* The three refusals at the head of stageDeployment.
MayStage == server.upd = "idle" /\ server.cloud = "idle" /\ ~server.deploying

\* stageDeployment up to its await: staging/ is rebuilt from the archive, or
\* removed again when the archive is rejected.
StageDeployment ==
    /\ Serving /\ MayStage
    /\ \/ /\ nextVersion \in Versions
          /\ staging' = nextVersion
          /\ nextVersion' = nextVersion + 1
          /\ server' = [server EXCEPT !.deploying = TRUE]
       \/ /\ staging' = NoDir
          /\ UNCHANGED <<server, nextVersion>>
    /\ UNCHANGED <<current, backup, pendingFile, data, outbox, control>>

Newest(saved) == {b \in saved : Cardinality({c \in saved : c.id > b.id}) < MaxBackups}

\* createDbBackup: snapshot data.db, then prune to the newest MAX_BACKUPS.
BackUpDatabase ==
    /\ made < MaxMade
    /\ made' = made + 1
    /\ dbBackups' = Newest(dbBackups \cup {[id |-> made + 1, schema |-> db.schema,
                                            marker |-> db.marker]})

\* stageDeployment after createDbBackup: the marker is written, and update.apply
\* waits for the HTTP answer.
StageCompletes ==
    /\ server.deploying
    /\ BackUpDatabase
    /\ db' = [db EXCEPT !.marker = TRUE]
    /\ server' = [server EXCEPT !.deploying = FALSE, !.upd = "pending", !.due = made + 1]
    /\ UNCHANGED <<dirs, outbox, control, nextVersion>>

\* createDbBackup throws: the finally block runs, staging/ stays behind.
StageBackupFails ==
    /\ server.deploying
    /\ server' = [server EXCEPT !.deploying = FALSE]
    /\ UNCHANGED <<dirs, data, outbox, control, nextVersion>>

\* applyStagedUpdate: requestUpdate, then exit within a second.
ApplyStagedUpdate ==
    /\ server.due # NoDb /\ Len(outbox) < MaxMessages
    /\ outbox' = Append(outbox, Message("update", server.due))
    /\ server' = [server EXCEPT !.due = NoDb, !.exiting = TRUE]
    /\ UNCHANGED <<dirs, data, control, nextVersion>>

\* appliedPendingAt: pending is shown only once backup/ exists.
PendingShown == server.upd = "pending" /\ backup # NoDir

\* confirmUpdate has no guard of its own.
ConfirmUpdate ==
    /\ server.state = "up" /\ Len(outbox) < MaxMessages
    /\ PendingShown \/ "confirmUnseen" \in Admits
    /\ db' = [db EXCEPT !.marker = FALSE]
    /\ server' = [server EXCEPT !.upd = "idle"]
    /\ outbox' = Append(outbox, Message("confirm", NoDb))
    /\ UNCHANGED <<dirs, dbBackups, made, control, nextVersion>>

\* requestRollback: the marker goes first, the message names no DB backup.
RequestRollback ==
    /\ server.state = "up" /\ PendingShown /\ Len(outbox) < MaxMessages
    /\ db' = [db EXCEPT !.marker = FALSE]
    /\ server' = [server EXCEPT !.upd = "idle", !.exiting = TRUE]
    /\ outbox' = Append(outbox, Message("rollback", NoDb))
    /\ UNCHANGED <<dirs, dbBackups, made, control, nextVersion>>

\* installCloudUpdate until the download: the flag is raised, nothing is staged.
InstallCloudUpdate ==
    /\ Serving /\ server.upd = "idle" /\ server.cloud = "idle"
    /\ server' = [server EXCEPT !.cloud = "installing"]
    /\ UNCHANGED <<dirs, data, outbox, control, nextVersion>>

\* The archive has arrived: deployUpdate calls stageDeployment with the flag
\* still raised; a refusal ends the installation.
CloudArchiveArrives ==
    /\ server.cloud = "installing"
    /\ server' = IF MayStage /\ nextVersion \in Versions
                 THEN [server EXCEPT !.deploying = TRUE, !.cloud = "idle"]
                 ELSE [server EXCEPT !.cloud = "idle"]
    /\ staging' = IF MayStage /\ nextVersion \in Versions THEN nextVersion ELSE staging
    /\ nextVersion' = IF MayStage /\ nextVersion \in Versions THEN nextVersion + 1
                      ELSE nextVersion
    /\ UNCHANGED <<current, backup, pendingFile, data, outbox, control>>

NoUpdateUnderWay ==
    /\ server.upd = "idle" /\ ~server.deploying /\ server.due = NoDb /\ ~server.exiting
    /\ backup = NoDir /\ outbox = <<>>

\* adminSystemService.createBackup and deleteBackup look at no update state.
ManageBackups ==
    /\ server.state = "up"
    /\ NoUpdateUnderWay \/ "backupsWhilePending" \in Admits
    /\ \/ BackUpDatabase
       \/ \E b \in dbBackups : dbBackups' = dbBackups \ {b} /\ UNCHANGED made
    /\ UNCHANGED <<dirs, db, server, outbox, control, nextVersion>>

-----------------------------------------------------------------------------
(***************************************************************************)
(* The launcher's event loop.                                              *)
(***************************************************************************)
\* Mutant: appliedAt is ignored, every restart opens a new window.
WindowRestarts == Window

\* armUpdateWatchdog: what is left of the window counts from appliedAt.
Remaining == IF pendingFile = NoFile THEN Window ELSE Window - pendingFile.age

\* startServer up to fork: exit without current/, roll back when the window has
\* already passed, else arm.
StartServer ==
    /\ pc = "start" \/ (pc = "idle" /\ startDue)
    /\ startDue' = FALSE
    /\ LET late == backup # NoDir /\ Remaining = 0 IN
          /\ pc' = IF current = NoDir THEN "down" ELSE IF late THEN "roll.rm" ELSE "fork"
          /\ call' = IF current # NoDir /\ late
                     THEN [db |-> pendingFile.db, then |-> "fork", resets |-> TRUE]
                     ELSE call
          /\ watch' = IF current = NoDir \/ backup = NoDir \/ late THEN Disarmed
                      ELSE [left |-> Remaining, db |-> pendingFile.db]
    /\ UNCHANGED <<dirs, data, server, outbox, lifecycle, crashes, nextVersion>>

Fork ==
    /\ pc = "fork"
    /\ pc' = "idle"
    /\ server' = [NoServer EXCEPT !.state = "booting"]
    /\ UNCHANGED <<dirs, data, outbox, call, lifecycle, watch, startDue, crashes, nextVersion>>

\* server.on("message"): the lifecycle messages note what to do and send SIGTERM.
ReceiveLifecycle ==
    /\ pc = "idle" /\ outbox # <<>> /\ Head(outbox).type \in {"update", "rollback"}
    /\ outbox' = Tail(outbox)
    /\ lifecycle' = [action |-> Head(outbox).type, db |-> Head(outbox).db]
    /\ server' = [server EXCEPT !.exiting = TRUE]
    /\ UNCHANGED <<dirs, data, pc, call, watch, startDue, crashes, nextVersion>>

ReceiveConfirm ==
    /\ pc = "idle" /\ outbox # <<>> /\ Head(outbox).type = "confirm"
    /\ outbox' = Tail(outbox)
    /\ watch' = Disarmed
    /\ pc' = "clear.rm"
    /\ UNCHANGED <<dirs, data, server, call, lifecycle, startDue, crashes, nextVersion>>

BeginRollback(id, resets) ==
    IF backup = NoDir
    THEN pc' = "idle" /\ UNCHANGED call
    ELSE pc' = "roll.rm" /\ call' = [db |-> id, then |-> "idle", resets |-> resets]

\* server.on("exit") with a noted update; applyUpdate without staging/ throws and
\* applyRollback of the new backup is tried instead.
ExitForUpdate ==
    /\ lifecycle.action = "update" /\ startDue' = TRUE
    /\ IF staging = NoDir
       THEN BeginRollback(lifecycle.db, FALSE)
       ELSE pc' = "apply.rm" /\ call' = [db |-> lifecycle.db, then |-> "idle", resets |-> TRUE]
    /\ UNCHANGED <<watch, crashes>>

ExitForRollback ==
    /\ lifecycle.action = "rollback" /\ startDue' = TRUE
    /\ watch' = Disarmed
    /\ BeginRollback(lifecycle.db, TRUE)
    /\ UNCHANGED crashes

\* A crash: the third fast one in a row rolls back.
ExitByCrash ==
    /\ lifecycle.action = "none" /\ startDue' = TRUE
    /\ \E fast \in BOOLEAN :
         LET count == IF fast THEN crashes + 1 ELSE 0 IN
         IF count >= MaxFastCrashes /\ backup # NoDir
         THEN crashes' = 0 /\ watch' = Disarmed /\ BeginRollback(NoDb, TRUE)
         ELSE /\ crashes' = IF count > MaxFastCrashes THEN MaxFastCrashes ELSE count
              /\ UNCHANGED <<watch, pc, call>>

\* Exit code 0 with nothing noted (SIGTERM from outside): the server stays down.
ExitCleanly ==
    /\ lifecycle.action = "none" /\ server.state = "up"
    /\ UNCHANGED <<startDue, watch, pc, call, crashes>>

\* The child may end at any time; what it sent before is read first.
ServerExits ==
    /\ pc = "idle" /\ server.state # "none" /\ outbox = <<>>
    /\ server.state = "booting" => server.exiting \/ ~Bootable
    /\ \/ ExitForUpdate
       \/ ExitForRollback
       \/ ExitByCrash
       \/ ExitCleanly
    /\ server' = NoServer /\ lifecycle' = NoLifecycle
    /\ UNCHANGED <<dirs, data, outbox, nextVersion>>

\* Mutant: the timer only acts on a running child.
WatchdogFiresOnChild ==
    /\ pc = "idle" /\ watch.left = 0
    /\ watch' = Disarmed
    /\ IF backup = NoDir \/ server.state = "none" THEN UNCHANGED <<lifecycle, server>>
       ELSE /\ lifecycle' = [action |-> "rollback", db |-> watch.db]
            /\ server' = [server EXCEPT !.exiting = TRUE]
    /\ UNCHANGED <<dirs, data, outbox, pc, call, startDue, crashes, nextVersion>>

\* The timer of armUpdateWatchdog.
WatchdogFires ==
    /\ pc = "idle" /\ watch.left = 0
    /\ watch' = Disarmed
    /\ IF backup = NoDir THEN UNCHANGED <<pc, call, lifecycle, server>>
       ELSE IF server.state # "none"
       THEN /\ lifecycle' = [action |-> "rollback", db |-> watch.db]
            /\ server' = [server EXCEPT !.exiting = TRUE]
            /\ UNCHANGED <<pc, call>>
       ELSE /\ BeginRollback(watch.db, TRUE)
            /\ UNCHANGED <<lifecycle, server>>
    /\ UNCHANGED <<dirs, data, outbox, startDue, crashes, nextVersion>>

-----------------------------------------------------------------------------
(***************************************************************************)
(* The launcher's synchronous sequences, one file-system call per step.    *)
(***************************************************************************)
SwapFrame == UNCHANGED <<server, outbox, lifecycle, watch, startDue, nextVersion>>

ApplyRemovesBackup ==
    /\ pc = "apply.rm" /\ pc' = "apply.moveCurrent"
    /\ backup' = NoDir
    /\ UNCHANGED <<current, staging, pendingFile, data, call, crashes>> /\ SwapFrame

\* Mutant: current/ is removed instead of renamed.
ApplyRemovesCurrent ==
    /\ pc = "apply.moveCurrent" /\ pc' = "apply.moveStaging"
    /\ current' = NoDir
    /\ UNCHANGED <<backup, staging, pendingFile, data, call, crashes>> /\ SwapFrame

ApplyMovesCurrent ==
    /\ pc = "apply.moveCurrent" /\ pc' = "apply.moveStaging"
    /\ backup' = IF current = NoDir THEN backup ELSE current
    /\ current' = NoDir
    /\ UNCHANGED <<staging, pendingFile, data, call, crashes>> /\ SwapFrame

ApplyMovesStaging ==
    /\ pc = "apply.moveStaging" /\ pc' = "apply.record"
    /\ current' = staging /\ staging' = NoDir
    /\ UNCHANGED <<backup, pendingFile, data, call, crashes>> /\ SwapFrame

\* Mutant: .pending-update.json is written without the name of the DB backup.
ApplyRecordsNoName ==
    /\ pc = "apply.record" /\ pc' = call.then
    /\ pendingFile' = [db |-> NoDb, age |-> 0]
    /\ crashes' = 0 /\ call' = NoCall
    /\ UNCHANGED <<current, backup, staging, data>> /\ SwapFrame

\* writePendingUpdate
ApplyRecordsPending ==
    /\ pc = "apply.record" /\ pc' = call.then
    /\ pendingFile' = [db |-> call.db, age |-> 0]
    /\ crashes' = 0 /\ call' = NoCall
    /\ UNCHANGED <<current, backup, staging, data>> /\ SwapFrame

RollbackRemovesCurrent ==
    /\ pc = "roll.rm" /\ pc' = "roll.move"
    /\ current' = NoDir
    /\ UNCHANGED <<backup, staging, pendingFile, data, call, crashes>> /\ SwapFrame

RollbackMovesBackup ==
    /\ pc = "roll.move" /\ pc' = "roll.restore"
    /\ current' = backup /\ backup' = NoDir
    /\ UNCHANGED <<staging, pendingFile, data, call, crashes>> /\ SwapFrame

\* Mutant: a rollback without a name does not look into .pending-update.json.
NamedTargetOnly == call.db

\* dbName ?? readPendingUpdateDb()
RestoreTarget == IF call.db # NoDb THEN call.db ELSE pendingFile.db

\* Mutant: the database is left as it is.
RollbackSkipsDatabase ==
    /\ pc = "roll.restore" /\ pc' = "roll.clear"
    /\ UNCHANGED <<dirs, data, call, crashes>> /\ SwapFrame

\* restoreDatabase, which throws when the backup file is gone; without a name
\* only the application is rolled back.
RollbackRestoresDatabase ==
    /\ pc = "roll.restore"
    /\ IF RestoreTarget = NoDb
       THEN pc' = "roll.clear" /\ UNCHANGED <<db, call>>
       ELSE IF \E b \in dbBackups : b.id = RestoreTarget
       THEN /\ pc' = "roll.clear" /\ UNCHANGED call
            /\ \E b \in dbBackups : b.id = RestoreTarget
                                    /\ db' = [schema |-> b.schema, marker |-> b.marker]
       ELSE pc' = call.then /\ call' = NoCall /\ UNCHANGED db
    /\ UNCHANGED <<dirs, dbBackups, made, crashes>> /\ SwapFrame

\* clearPendingUpdateFile
RollbackClearsPending ==
    /\ pc = "roll.clear" /\ pc' = call.then
    /\ pendingFile' = NoFile
    /\ crashes' = IF call.resets THEN 0 ELSE crashes
    /\ call' = NoCall
    /\ UNCHANGED <<current, backup, staging, data>> /\ SwapFrame

\* clearBackupDir
ClearRemovesBackup ==
    /\ pc = "clear.rm" /\ pc' = "clear.unlink"
    /\ backup' = NoDir
    /\ UNCHANGED <<current, staging, pendingFile, data, call, crashes>> /\ SwapFrame

ClearUnlinksPending ==
    /\ pc = "clear.unlink" /\ pc' = "idle"
    /\ pendingFile' = NoFile
    /\ UNCHANGED <<current, backup, staging, data, call, crashes>> /\ SwapFrame

-----------------------------------------------------------------------------
(***************************************************************************)
(* Time, restarts of the launcher, power.                                  *)
(***************************************************************************)
\* The age saturates: past the window Math.max(0, ...) makes it irrelevant.
Tick ==
    /\ watch.left > 0 \/ pendingFile.age \in 0..(Window - 1)
    /\ watch' = IF watch.left > 0 THEN [watch EXCEPT !.left = @ - 1] ELSE watch
    /\ pendingFile' = IF pendingFile.age \in 0..(Window - 1)
                      THEN [pendingFile EXCEPT !.age = @ + 1] ELSE pendingFile
    /\ UNCHANGED <<current, backup, staging, data, server, outbox, pc, call, lifecycle,
                   startDue, crashes, nextVersion>>

VolatileLost ==
    /\ pc' = "down" /\ call' = NoCall /\ lifecycle' = NoLifecycle
    /\ watch' = Disarmed /\ startDue' = FALSE /\ crashes' = 0
    /\ server' = NoServer /\ outbox' = <<>>

\* shutdown: SIGTERM to the launcher takes the child down with it.
Shutdown ==
    /\ pc = "idle"
    /\ (outbox = <<>> /\ lifecycle = NoLifecycle) \/ "restartMidRequest" \in Admits
    /\ VolatileLost
    /\ UNCHANGED <<dirs, data, nextVersion>>

\* rmSync is not atomic: a power loss may leave the directory torn.
PowerLoss ==
    /\ pc \in PowerLossAt \ {"down"}
    /\ backup' \in {backup} \cup
          (IF pc \in {"apply.rm", "clear.rm"} /\ backup # NoDir THEN {Torn} ELSE {})
    /\ current' \in {current} \cup
          (IF pc = "roll.rm" /\ current # NoDir THEN {Torn} ELSE {})
    /\ VolatileLost
    /\ UNCHANGED <<staging, pendingFile, data, nextVersion>>

LauncherBoots ==
    /\ pc = "down" /\ pc' = "start"
    /\ crashes' = 0
    /\ UNCHANGED <<dirs, data, server, outbox, call, lifecycle, watch, startDue, nextVersion>>

-----------------------------------------------------------------------------
ServerNext ==
    \/ ServerBoots \/ StageDeployment \/ StageCompletes \/ StageBackupFails
    \/ ApplyStagedUpdate \/ ConfirmUpdate \/ RequestRollback
    \/ InstallCloudUpdate \/ CloudArchiveArrives \/ ManageBackups

LoopNext ==
    \/ StartServer \/ Fork \/ ReceiveLifecycle \/ ReceiveConfirm
    \/ ServerExits \/ WatchdogFires

SwapNext ==
    \/ ApplyRemovesBackup \/ ApplyMovesCurrent \/ ApplyMovesStaging \/ ApplyRecordsPending
    \/ RollbackRemovesCurrent \/ RollbackMovesBackup \/ RollbackRestoresDatabase
    \/ RollbackClearsPending \/ ClearRemovesBackup \/ ClearUnlinksPending

Next == ServerNext \/ LoopNext \/ SwapNext \/ Tick \/ Shutdown \/ PowerLoss \/ LauncherBoots

\* Synchronous launcher code and due timers run; time passes; a launcher that is
\* down is started again; a server asked to exit does.  Nobody has to deploy,
\* confirm, roll back or crash.
Fairness ==
    /\ WF_vars(SwapNext) /\ WF_vars(StartServer) /\ WF_vars(Fork)
    /\ WF_vars(ReceiveLifecycle) /\ WF_vars(ReceiveConfirm) /\ WF_vars(WatchdogFires)
    /\ WF_vars(ServerExits /\ (server.exiting \/ server.state = "booting"))
    /\ WF_vars(ServerBoots) /\ WF_vars(Tick) /\ WF_vars(LauncherBoots)

Spec == Init /\ [][Next]_vars
FairSpec == Spec /\ Fairness
=============================================================================
