---------------------------- MODULE LauncherProps ----------------------------
(***************************************************************************)
(* What the launcher and the update runtime together guarantee.            *)
(***************************************************************************)
EXTENDS Launcher

Dirs == Versions \cup {NoDir, Torn}

\* Every variable stays within the values the code can store.
TypeOK ==
    /\ current \in Dirs /\ backup \in Dirs /\ staging \in Versions \cup {NoDir}
    /\ pendingFile \in {NoFile} \cup [db : Ids, age : 0..Window]
    /\ db \in [schema : Versions, marker : BOOLEAN]
    /\ dbBackups \subseteq [id : 1..MaxMade, schema : Versions, marker : BOOLEAN]
    /\ server \in Servers
    /\ outbox \in Seq(Messages)
    /\ pc \in Steps
    /\ call \in [db : Ids, then : {"idle", "fork"}, resets : BOOLEAN]
    /\ lifecycle \in Lifecycles
    /\ watch \in [left : -1..Window, db : Ids]
    /\ startDue \in BOOLEAN /\ crashes \in 0..MaxFastCrashes
    /\ nextVersion \in 1..(MaxVersion + 1) /\ made \in Ids

AtRest == pc \in {"start", "fork", "idle"}

\* Whenever the launcher is between its synchronous sequences and a previous
\* application is kept in backup/, .pending-update.json names a DB backup that
\* still exists and holds that application's schema (applyUpdate,
\* writePendingUpdate, createDbBackup and deleteBackup together).
RollbackTargetExact ==
    AtRest /\ backup # NoDir =>
        /\ pendingFile # NoFile
        /\ \E b \in dbBackups : b.id = pendingFile.db /\ b.schema = backup

\* No server is ever forked over a database that a newer release has migrated:
\* rollback restores the schema together with the application.
NeverNewerSchema == server.state # "none" => db.schema <= current

\* While the launcher keeps a backup/ and will roll back on its own, the running
\* server shows the update as pending: marker, memory and directory agree once
\* every message has been handled.
StatusTruthful ==
    server.state = "up" /\ ~server.exiting /\ outbox = <<>> /\ pc = "idle"
        /\ backup # NoDir => server.upd = "pending" /\ db.marker

\* Applying an update never discards the application kept for an earlier,
\* unconfirmed one (rmSync(backup/) at the head of applyUpdate).
UnconfirmedKept == pc = "apply.rm" => backup = NoDir

\* Some complete application is on disk at every instant, also when the power
\* fails in the middle of a switch or of a rollback.
AppOnDisk == current \in Versions \/ backup \in Versions

\* An applied update is confirmed or rolled back in the end, whatever crashes and
\* restarts happen meanwhile.
UpdateResolves == backup # NoDir ~> backup = NoDir

\* A release that cannot boot does not stay installed: the crash counter or the
\* watchdog brings the previous one back.
BadReleaseRetires == current \in BadVersions ~> current \in Versions \ BadVersions

\* An installation from the cloud whose archive has arrived is staged unless
\* another deployment is in its way (installCloudUpdate, deployUpdate).
CloudInstallStages ==
    [][server.cloud = "installing" /\ server'.cloud = "idle" /\ server'.state = "up"
         => server.upd = "pending" \/ server.deploying \/ server'.deploying
            \/ nextVersion \notin Versions]_vars

-----------------------------------------------------------------------------
(***************************************************************************)
(* The launcher implements UpdateContract.  An update takes effect when    *)
(* .pending-update.json is written, a rollback when it starts to remove    *)
(* current/, a confirmation when backup/ is gone.                          *)
(***************************************************************************)
Applying    == pc \in {"apply.moveStaging", "apply.record"}
RollingBack == pc \in {"roll.move", "roll.restore"}

SchemaOf(id, else) ==
    IF \E b \in dbBackups : b.id = id
    THEN (CHOOSE b \in dbBackups : b.id = id).schema ELSE else

Installed == IF Applying \/ pc = "roll.move" THEN backup ELSE current
SchemaNow == IF RollingBack THEN SchemaOf(RestoreTarget, db.schema) ELSE db.schema
KeptPair  ==
    IF backup = NoDir \/ Applying \/ RollingBack THEN [release |-> NoDir, schema |-> NoDir]
    ELSE [release |-> backup, schema |-> SchemaOf(pendingFile.db, db.schema)]

Contract == INSTANCE UpdateContract WITH
    Releases <- Versions, release <- Installed, schema <- SchemaNow, kept <- KeptPair

\* Every step of the launcher and the server is a step of UpdateContract or
\* leaves the installed pair and the kept pair alone.
ImplementsContract == Contract!ContractSpec
=============================================================================
