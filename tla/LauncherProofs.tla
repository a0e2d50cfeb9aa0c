--------------------------- MODULE LauncherProofs ---------------------------
(***************************************************************************)
(* Theorems about the launcher, for every value of its constants: types,   *)
(* then the safety of an update - applications and schemas move together,  *)
(* the launcher implements UpdateContract, and a complete application      *)
(* stays on disk.                                                          *)
(***************************************************************************)
EXTENDS LauncherProps, SequenceTheorems, FiniteSetTheorems, TLAPS

USE DEF Versions, Ids, NoDir, Torn, NoDb, Dirs

\* The bounds are numbers.
LEMMA Bounds ==
    /\ MaxVersion \in Nat /\ MaxVersion > 0
    /\ Window \in Nat /\ Window > 0
    /\ MaxMade \in Nat /\ NoDb \in Ids
    /\ MaxFastCrashes \in Nat /\ MaxFastCrashes > 0
  BY BoundsAssumption DEF BoundsAssumption

\* Updates of the server's record by the actions that change several fields.
LEMMA ServerUpdates ==
    ASSUME NEW s \in Servers, NEW d \in Ids
    PROVE  /\ [s EXCEPT !.due = d, !.exiting = TRUE] \in Servers
           /\ [s EXCEPT !.deploying = FALSE, !.upd = "pending", !.due = d] \in Servers
           /\ [s EXCEPT !.upd = "idle", !.exiting = TRUE] \in Servers
           /\ [s EXCEPT !.deploying = TRUE, !.cloud = "idle"] \in Servers
<1>1. [s EXCEPT !.due = d, !.exiting = TRUE] \in Servers
  BY DEF Servers
<1>2. [s EXCEPT !.deploying = FALSE, !.upd = "pending", !.due = d] \in Servers
  BY DEF Servers
<1>3. [s EXCEPT !.upd = "idle", !.exiting = TRUE] \in Servers
  BY DEF Servers
<1>4. [s EXCEPT !.deploying = TRUE, !.cloud = "idle"] \in Servers
  BY DEF Servers
<1> QED
  BY <1>1, <1>2, <1>3, <1>4

\* A message of the child is appended to the messages in flight.
LEMMA MessageAppended ==
    ASSUME NEW s \in Seq(Messages), NEW type \in {"update", "rollback", "confirm"}, NEW d \in Ids
    PROVE  Append(s, Message(type, d)) \in Seq(Messages)
<1>1. Message(type, d) \in Messages
  BY DEF Message, Messages
<1> QED
  BY <1>1, AppendProperties

-----------------------------------------------------------------------------
(***************************************************************************)
(* Type correctness.                                                       *)
(***************************************************************************)
\* The initial state is well typed.
LEMMA InitType == Init => TypeOK
<1> SUFFICES ASSUME Init PROVE TypeOK
  OBVIOUS
<1> USE Bounds
<1>1. current \in Dirs /\ backup \in Dirs /\ staging \in Versions \cup {NoDir}
  BY DEF Init
<1>2. pendingFile \in {NoFile} \cup [db : Ids, age : 0..Window]
  BY DEF Init
<1>3. db \in [schema : Versions, marker : BOOLEAN]
  BY DEF Init
<1>4. dbBackups \subseteq [id : 1..MaxMade, schema : Versions, marker : BOOLEAN]
  BY DEF Init
<1>5. server \in Servers
  BY DEF Init, NoServer, Servers
<1>6. outbox \in Seq(Messages) /\ pc \in Steps
  BY DEF Init, Steps
<1>7. call \in [db : Ids, then : {"idle", "fork"}, resets : BOOLEAN]
  BY DEF Init, NoCall
<1>8. lifecycle \in Lifecycles
  BY DEF Init, NoLifecycle, Lifecycles
<1>9. watch \in [left : -1..Window, db : Ids]
  BY DEF Init, Disarmed
<1>10. startDue \in BOOLEAN
  BY DEF Init
<1>11. crashes \in 0..MaxFastCrashes /\ nextVersion \in 1..(MaxVersion + 1) /\ made \in Ids
  BY DEF Init
<1> QED
  BY <1>1, <1>2, <1>3, <1>4, <1>5, <1>6, <1>7, <1>8, <1>9, <1>10, <1>11 DEF TypeOK

\* Making a DB backup keeps the backups well typed.
LEMMA BackUpType ==
    ASSUME TypeOK, BackUpDatabase
    PROVE  /\ dbBackups' \subseteq [id : 1..MaxMade, schema : Versions, marker : BOOLEAN]
           /\ made' \in Ids /\ made + 1 \in Ids
<1> USE Bounds
<1>1. made + 1 \in 1..MaxMade /\ made' = made + 1
  BY DEF TypeOK, BackUpDatabase
<1> DEFINE saved == [id |-> made + 1, schema |-> db.schema, marker |-> db.marker]
<1>2. saved \in [id : 1..MaxMade, schema : Versions, marker : BOOLEAN]
  BY <1>1 DEF TypeOK
<1>3. dbBackups' \subseteq dbBackups \cup {saved}
  BY DEF BackUpDatabase, Newest
<1>4. dbBackups' \subseteq [id : 1..MaxMade, schema : Versions, marker : BOOLEAN]
  BY <1>2, <1>3 DEF TypeOK
<1> QED
  BY <1>1, <1>4

\* Steps of the server keep every variable well typed.
LEMMA ServerType == TypeOK /\ ServerNext => TypeOK'
<1> SUFFICES ASSUME TypeOK, ServerNext PROVE TypeOK'
  OBVIOUS
<1> USE Bounds
<1>1. CASE ServerBoots
  <2>1. current \in Versions
    BY <1>1 DEF TypeOK, ServerBoots, Bootable
  <2>2. db' \in [schema : Versions, marker : BOOLEAN]
    BY <1>1, <2>1 DEF TypeOK, ServerBoots
  <2>3. server' \in Servers
    BY <1>1 DEF TypeOK, ServerBoots, Servers
  <2> QED
    BY <1>1, <2>2, <2>3 DEF TypeOK, ServerBoots, dirs, control
<1>2. CASE StageDeployment
  <2>1. server' \in Servers
    BY <1>2 DEF TypeOK, StageDeployment, Servers
  <2>2. staging' \in Versions \cup {NoDir} /\ nextVersion' \in 1..(MaxVersion + 1)
    BY SMTT(30), <1>2 DEF TypeOK, StageDeployment
  <2> QED
    BY <1>2, <2>1, <2>2 DEF TypeOK, StageDeployment, data, control
<1>3. CASE StageCompletes
  <2>1. BackUpDatabase
    BY <1>3 DEF StageCompletes
  <2>2. server' \in Servers
    BY <1>3, <2>1, BackUpType, ServerUpdates DEF TypeOK, StageCompletes
  <2>3. db' \in [schema : Versions, marker : BOOLEAN]
    BY <1>3 DEF TypeOK, StageCompletes
  <2> QED
    BY <1>3, <2>1, <2>2, <2>3, BackUpType DEF TypeOK, StageCompletes, dirs, control
<1>4. CASE StageBackupFails
  <2>1. server' \in Servers
    BY <1>4 DEF TypeOK, StageBackupFails, Servers
  <2> QED
    BY <1>4, <2>1 DEF TypeOK, StageBackupFails, dirs, data, control
<1>5. CASE ApplyStagedUpdate
  <2>1. server.due \in Ids
    BY DEF TypeOK, Servers
  <2>2. server' \in Servers
    BY <1>5, <2>1, ServerUpdates DEF TypeOK, ApplyStagedUpdate
  <2>3. outbox' \in Seq(Messages)
    BY <1>5, <2>1, MessageAppended DEF TypeOK, ApplyStagedUpdate
  <2> QED
    BY <1>5, <2>2, <2>3 DEF TypeOK, ApplyStagedUpdate, dirs, data, control
<1>6. CASE ConfirmUpdate
  <2>1. server' \in Servers
    BY <1>6 DEF TypeOK, ConfirmUpdate, Servers
  <2>2. outbox' \in Seq(Messages)
    BY <1>6, MessageAppended DEF TypeOK, ConfirmUpdate
  <2>3. db' \in [schema : Versions, marker : BOOLEAN]
    BY <1>6 DEF TypeOK, ConfirmUpdate
  <2> QED
    BY <1>6, <2>1, <2>2, <2>3 DEF TypeOK, ConfirmUpdate, dirs, control
<1>7. CASE RequestRollback
  <2>1. server' \in Servers
    BY <1>7, ServerUpdates DEF TypeOK, RequestRollback
  <2>2. outbox' \in Seq(Messages)
    BY <1>7, MessageAppended DEF TypeOK, RequestRollback
  <2>3. db' \in [schema : Versions, marker : BOOLEAN]
    BY <1>7 DEF TypeOK, RequestRollback
  <2> QED
    BY <1>7, <2>1, <2>2, <2>3 DEF TypeOK, RequestRollback, dirs, control
<1>8. CASE InstallCloudUpdate
  <2>1. server' \in Servers
    BY <1>8 DEF TypeOK, InstallCloudUpdate, Servers
  <2> QED
    BY <1>8, <2>1 DEF TypeOK, InstallCloudUpdate, dirs, data, control
<1>9. CASE CloudArchiveArrives
  <2>1. [server EXCEPT !.cloud = "idle"] \in Servers
    BY DEF TypeOK, Servers
  <2>2. server' \in Servers
    BY <1>9, <2>1, ServerUpdates DEF TypeOK, CloudArchiveArrives
  <2>3. staging' \in Versions \cup {NoDir} /\ nextVersion' \in 1..(MaxVersion + 1)
    BY SMTT(30), <1>9 DEF TypeOK, CloudArchiveArrives
  <2> QED
    BY <1>9, <2>2, <2>3 DEF TypeOK, CloudArchiveArrives, data, control
<1>10. CASE ManageBackups
  <2>1. /\ dbBackups' \subseteq [id : 1..MaxMade, schema : Versions, marker : BOOLEAN]
        /\ made' \in Ids
    BY <1>10, BackUpType DEF TypeOK, ManageBackups
  <2> QED
    BY <1>10, <2>1 DEF TypeOK, ManageBackups, dirs, control
<1> QED
  BY <1>1, <1>2, <1>3, <1>4, <1>5, <1>6, <1>7, <1>8, <1>9, <1>10 DEF ServerNext

\* BeginRollback keeps the control point and the call well typed.
LEMMA BeginRollbackType ==
    ASSUME TypeOK, NEW id \in Ids, NEW resets \in BOOLEAN, BeginRollback(id, resets)
    PROVE  /\ pc' \in Steps
           /\ call' \in [db : Ids, then : {"idle", "fork"}, resets : BOOLEAN]
  BY DEF TypeOK, BeginRollback, Steps, RollbackSteps

\* Steps of the launcher's event loop keep every variable well typed.
LEMMA LoopType == TypeOK /\ LoopNext => TypeOK'
<1> SUFFICES ASSUME TypeOK, LoopNext PROVE TypeOK'
  OBVIOUS
<1> USE Bounds
<1> DEFINE Calls   == [db : Ids, then : {"idle", "fork"}, resets : BOOLEAN]
           Watches == [left : -1..Window, db : Ids]
<1>d. Disarmed \in Watches
  BY DEF Disarmed
<1>n. NoServer \in Servers /\ NoLifecycle \in Lifecycles
  BY DEF NoServer, Servers, NoLifecycle, Lifecycles
<1>x. [server EXCEPT !.exiting = TRUE] \in Servers
  BY DEF TypeOK, Servers
<1>p. pendingFile.db \in Ids
  BY DEF TypeOK, NoFile
<1>w. watch.db \in Ids
  BY DEF TypeOK
<1>1. CASE StartServer
  <2>1. pc' \in Steps
    BY <1>1 DEF StartServer, Steps, RollbackSteps
  <2>2. call' \in Calls
    BY <1>1, <1>p DEF TypeOK, StartServer
  <2>3. Remaining \in -1..Window
    BY DEF TypeOK, Remaining
  <2>4. watch' \in Watches
    BY <1>1, <1>d, <1>p, <2>3 DEF StartServer
  <2>5. startDue' \in BOOLEAN
    BY <1>1 DEF StartServer
  <2> QED
    BY <1>1, <2>1, <2>2, <2>4, <2>5 DEF TypeOK, StartServer, dirs, data
<1>2. CASE Fork
  <2>1. server' \in Servers
    BY <1>2 DEF Fork, NoServer, Servers
  <2>2. pc' \in Steps
    BY <1>2 DEF Fork, Steps
  <2> QED
    BY <1>2, <2>1, <2>2 DEF TypeOK, Fork, dirs, data
<1>3. CASE ReceiveLifecycle
  <2>1. Head(outbox) \in Messages /\ outbox' \in Seq(Messages)
    BY <1>3, HeadTailProperties DEF TypeOK, ReceiveLifecycle
  <2>2. lifecycle' \in Lifecycles
    BY <1>3, <2>1 DEF ReceiveLifecycle, Messages, Lifecycles
  <2> QED
    BY <1>3, <1>x, <2>1, <2>2 DEF TypeOK, ReceiveLifecycle, dirs, data
<1>4. CASE ReceiveConfirm
  <2>1. outbox' \in Seq(Messages)
    BY <1>4, HeadTailProperties DEF TypeOK, ReceiveConfirm
  <2>2. pc' \in Steps
    BY <1>4 DEF ReceiveConfirm, Steps, ClearSteps
  <2>3. watch' \in Watches
    BY <1>4, <1>d DEF ReceiveConfirm
  <2> QED
    BY <1>4, <2>1, <2>2, <2>3 DEF TypeOK, ReceiveConfirm, dirs, data
<1>5. CASE ServerExits
  <2> SUFFICES pc' \in Steps /\ call' \in Calls /\ watch' \in Watches
               /\ startDue' \in BOOLEAN /\ crashes' \in 0..MaxFastCrashes
    BY <1>5, <1>n DEF TypeOK, ServerExits, dirs, data
  <2>l. lifecycle.db \in Ids
    BY DEF TypeOK, Lifecycles
  <2>1. CASE ExitForUpdate
    <3>1. CASE staging = NoDir
      <4>1. BeginRollback(lifecycle.db, FALSE)
        BY <2>1, <3>1 DEF ExitForUpdate
      <4>2. pc' \in Steps /\ call' \in Calls
        BY <2>l, <4>1, BeginRollbackType
      <4> QED
        BY <2>1, <4>2 DEF ExitForUpdate, TypeOK
    <3>2. CASE staging # NoDir
      <4>1. pc' = "apply.rm" /\ call' = [db |-> lifecycle.db, then |-> "idle", resets |-> TRUE]
        BY <2>1, <3>2 DEF ExitForUpdate
      <4>2. pc' \in Steps
        BY <4>1 DEF Steps, ApplySteps
      <4>3. call' \in Calls
        BY <2>l, <4>1
      <4> QED
        BY <2>1, <4>2, <4>3 DEF ExitForUpdate, TypeOK
    <3> QED
      BY <3>1, <3>2
  <2>2. CASE ExitForRollback
    <3>1. pc' \in Steps /\ call' \in Calls
      BY <2>2, <2>l, BeginRollbackType DEF ExitForRollback
    <3> QED
      BY <2>2, <1>d, <3>1 DEF ExitForRollback, TypeOK
  <2>3. CASE ExitByCrash
    <3> PICK fast \in BOOLEAN :
          LET count == IF fast THEN crashes + 1 ELSE 0 IN
          IF count >= MaxFastCrashes /\ backup # NoDir
          THEN crashes' = 0 /\ watch' = Disarmed /\ BeginRollback(NoDb, TRUE)
          ELSE /\ crashes' = IF count > MaxFastCrashes THEN MaxFastCrashes ELSE count
               /\ UNCHANGED <<watch, pc, call>>
      BY <2>3 DEF ExitByCrash
    <3> DEFINE count == IF fast THEN crashes + 1 ELSE 0
    <3>c. count \in Nat
      BY DEF TypeOK
    <3>1. crashes' \in 0..MaxFastCrashes
      <4>1. crashes' = 0 \/ crashes' = IF count > MaxFastCrashes THEN MaxFastCrashes ELSE count
        OBVIOUS
      <4> HIDE DEF count
      <4> QED
        BY <3>c, <4>1
    <3>2. watch' \in Watches
      BY <1>d DEF TypeOK
    <3>3. pc' \in Steps /\ call' \in Calls
      BY BeginRollbackType DEF TypeOK
    <3> QED
      BY <2>3, <3>1, <3>2, <3>3 DEF ExitByCrash
  <2>4. CASE ExitCleanly
    BY <2>4 DEF ExitCleanly, TypeOK
  <2> QED
    BY <1>5, <2>1, <2>2, <2>3, <2>4 DEF ServerExits
<1>6. CASE WatchdogFires
  <2>1. lifecycle' \in Lifecycles
    <3>1. lifecycle' \in {lifecycle, [action |-> "rollback", db |-> watch.db]}
      BY <1>6 DEF WatchdogFires
    <3>2. [action |-> "rollback", db |-> watch.db] \in Lifecycles
      BY <1>w DEF Lifecycles
    <3> QED
      BY <3>1, <3>2 DEF TypeOK
  <2>2. server' \in Servers
    BY <1>6, <1>x DEF TypeOK, WatchdogFires
  <2>3. pc' \in Steps /\ call' \in Calls
    BY <1>6, <1>w, BeginRollbackType DEF TypeOK, WatchdogFires
  <2>4. watch' \in Watches
    BY <1>6, <1>d DEF WatchdogFires
  <2> QED
    BY <1>6, <2>1, <2>2, <2>3, <2>4 DEF TypeOK, WatchdogFires, dirs, data
<1> QED
  BY <1>1, <1>2, <1>3, <1>4, <1>5, <1>6 DEF LoopNext

\* Steps of the launcher's synchronous sequences keep every variable well typed.
LEMMA SwapType == TypeOK /\ SwapNext => TypeOK'
<1> SUFFICES ASSUME TypeOK, SwapNext PROVE TypeOK'
  OBVIOUS
<1> USE Bounds DEF SwapFrame
<1> DEFINE Calls == [db : Ids, then : {"idle", "fork"}, resets : BOOLEAN]
<1>n. NoCall \in Calls
  BY DEF NoCall
<1>s. {"down", "idle", "fork", "apply.moveCurrent", "apply.moveStaging", "apply.record",
       "roll.move", "roll.restore", "roll.clear", "clear.unlink"} \subseteq Steps
  BY DEF Steps, ApplySteps, RollbackSteps, ClearSteps
<1>t. call.then \in Steps /\ call.db \in Ids /\ call.resets \in BOOLEAN
  BY <1>s DEF TypeOK
<1>1. CASE ApplyRemovesBackup
  BY <1>1, <1>s DEF TypeOK, ApplyRemovesBackup, data
<1>2. CASE ApplyMovesCurrent
  BY <1>2, <1>s DEF TypeOK, ApplyMovesCurrent, data
<1>3. CASE ApplyMovesStaging
  BY <1>3, <1>s DEF TypeOK, ApplyMovesStaging, data
<1>4. CASE ApplyRecordsPending
  BY <1>4, <1>n, <1>t DEF TypeOK, ApplyRecordsPending, data
<1>5. CASE RollbackRemovesCurrent
  BY <1>5, <1>s DEF TypeOK, RollbackRemovesCurrent, data
<1>6. CASE RollbackMovesBackup
  BY <1>6, <1>s DEF TypeOK, RollbackMovesBackup, data
<1>7. CASE RollbackRestoresDatabase
  <2>1. db' \in [schema : Versions, marker : BOOLEAN]
    BY <1>7 DEF TypeOK, RollbackRestoresDatabase
  <2>2. pc' \in Steps /\ call' \in Calls
    BY <1>7, <1>n, <1>s, <1>t DEF TypeOK, RollbackRestoresDatabase
  <2> QED
    BY <1>7, <2>1, <2>2 DEF TypeOK, RollbackRestoresDatabase, dirs
<1>8. CASE RollbackClearsPending
  BY <1>8, <1>n, <1>t DEF TypeOK, RollbackClearsPending, data
<1>9. CASE ClearRemovesBackup
  BY <1>9, <1>s DEF TypeOK, ClearRemovesBackup, data
<1>10. CASE ClearUnlinksPending
  BY <1>10, <1>s DEF TypeOK, ClearUnlinksPending, data
<1> QED
  BY <1>1, <1>2, <1>3, <1>4, <1>5, <1>6, <1>7, <1>8, <1>9, <1>10 DEF SwapNext

\* Time, restarts of the launcher and power losses keep every variable well typed.
LEMMA MachineType == TypeOK /\ (Tick \/ Shutdown \/ PowerLoss \/ LauncherBoots) => TypeOK'
<1> SUFFICES ASSUME TypeOK, Tick \/ Shutdown \/ PowerLoss \/ LauncherBoots PROVE TypeOK'
  OBVIOUS
<1> USE Bounds
<1>1. CASE Tick
  <2>1. watch' \in [left : -1..Window, db : Ids]
    <3>1. CASE watch.left > 0
      <4>1. watch.left - 1 \in -1..Window
        BY <3>1 DEF TypeOK
      <4>2. watch' = [watch EXCEPT !.left = watch.left - 1]
        BY <1>1, <3>1 DEF Tick
      <4> QED
        BY <4>1, <4>2 DEF TypeOK
    <3> QED
      BY <1>1, <3>1 DEF TypeOK, Tick
  <2>2. pendingFile' \in {NoFile} \cup [db : Ids, age : 0..Window]
    <3>1. CASE pendingFile.age \in 0..(Window - 1)
      <4>1. pendingFile \in [db : Ids, age : 0..Window] /\ pendingFile.age + 1 \in 0..Window
        BY <3>1 DEF TypeOK, NoFile
      <4>2. pendingFile' = [pendingFile EXCEPT !.age = pendingFile.age + 1]
        BY <1>1, <3>1 DEF Tick
      <4> QED
        BY <4>1, <4>2
    <3> QED
      BY <1>1, <3>1 DEF TypeOK, Tick
  <2> QED
    BY <1>1, <2>1, <2>2 DEF TypeOK, Tick, data
<1>2. ASSUME VolatileLost
      PROVE  /\ pc' \in Steps /\ call' \in [db : Ids, then : {"idle", "fork"}, resets : BOOLEAN]
             /\ lifecycle' \in Lifecycles /\ watch' \in [left : -1..Window, db : Ids]
             /\ startDue' \in BOOLEAN /\ crashes' \in 0..MaxFastCrashes
             /\ server' \in Servers /\ outbox' \in Seq(Messages)
  <2>1. pc' \in Steps /\ call' \in [db : Ids, then : {"idle", "fork"}, resets : BOOLEAN]
    BY <1>2 DEF VolatileLost, Steps, NoCall
  <2>2. lifecycle' \in Lifecycles /\ watch' \in [left : -1..Window, db : Ids]
    BY <1>2 DEF VolatileLost, NoLifecycle, Lifecycles, Disarmed
  <2>3. crashes' \in 0..MaxFastCrashes /\ outbox' \in Seq(Messages)
    BY <1>2, EmptySeq DEF VolatileLost
  <2>4. startDue' \in BOOLEAN
    BY <1>2 DEF VolatileLost
  <2>5. server' \in Servers
    BY <1>2 DEF VolatileLost, NoServer, Servers
  <2> QED
    BY <2>1, <2>2, <2>3, <2>4, <2>5
<1>3. CASE Shutdown
  BY <1>2, <1>3 DEF TypeOK, Shutdown, dirs, data
<1>4. CASE PowerLoss
  <2>1. current' \in Dirs /\ backup' \in Dirs
    BY <1>4 DEF TypeOK, PowerLoss
  <2> QED
    BY <1>2, <1>4, <2>1 DEF TypeOK, PowerLoss, data
<1>5. CASE LauncherBoots
  BY <1>5 DEF TypeOK, LauncherBoots, Steps, dirs, data
<1> QED
  BY <1>1, <1>3, <1>4, <1>5

\* The launcher, the update runtime and the files they share never hold anything
\* but what the code can store, whatever the bounds, the administrator's commands
\* and the power do.
THEOREM TypeCorrect == Spec => []TypeOK
<1>1. Init => TypeOK
  BY InitType
<1>2. TypeOK /\ [Next]_vars => TypeOK'
  <2> SUFFICES ASSUME TypeOK, [Next]_vars PROVE TypeOK'
    OBVIOUS
  <2>1. CASE Next
    BY <2>1, ServerType, LoopType, SwapType, MachineType DEF Next
  <2>2. CASE UNCHANGED vars
    BY <2>2 DEF vars, dirs, data, control, TypeOK
  <2> QED
    BY <2>1, <2>2
<1> QED
  BY <1>1, <1>2, PTL DEF Spec

-----------------------------------------------------------------------------
(***************************************************************************)
(* The inductive invariant behind the safety properties.  It speaks of an  *)
(* administrator who respects the update state (Admits is empty) and of a  *)
(* machine that loses its power only where application and schema have not *)
(* begun to move or have both arrived.                                     *)
(***************************************************************************)
Harmless == {"start", "fork", "apply.rm", "apply.moveCurrent", "roll.clear", "clear.unlink"}

HarmlessLosses == PowerLossAt \subseteq Harmless
Orderly == Admits = {} /\ HarmlessLosses

Saved(id, version) == \E b \in dbBackups : b.id = id /\ b.schema = version

\* The launcher is in the middle of no switch and no rollback.
Settled == pc \notin ApplySteps \cup RollbackSteps

\* Everything the update named id needs before current/ is touched.
Prepared(id) ==
    /\ backup = NoDir /\ db.marker
    /\ Saved(id, current)

\* DB backups are distinct and older than the counter.
BackupsOrdered ==
    /\ \A b \in dbBackups : b.id <= made
    /\ \A b, c \in dbBackups : b.id = c.id => b = c

\* Where the launcher may be while a server exists, and what a server that is
\* not up has not done.
ProcessesOk ==
    /\ server.state # "none" => pc \in {"idle"} \cup ClearSteps /\ ~startDue
    /\ server.state = "none" => lifecycle.action = "none"
    /\ server.state # "up" =>
          server.due = NoDb /\ ~server.deploying /\ outbox = <<>> /\ pc \notin ClearSteps
    /\ pc = "fork" \/ (pc \in RollbackSteps /\ call.then = "fork") => ~startDue
    /\ pc \in ApplySteps => call.then = "idle"
    /\ lifecycle.action # "none" => server.exiting
    /\ server.exiting /\ outbox = <<>> => lifecycle.action # "none"

\* What a running server has begun, and the one message it may have sent.
RequestsOk ==
    /\ server.deploying =>
          server.upd = "idle" /\ server.due = NoDb /\ outbox = <<>> /\ backup = NoDir
             /\ lifecycle.action = "none" /\ pc = "idle"
    /\ server.due # NoDb =>
          server.upd = "pending" /\ outbox = <<>> /\ lifecycle.action = "none"
             /\ pc = "idle" /\ Prepared(server.due)
    /\ outbox # <<>> =>
          /\ Len(outbox) = 1 /\ server.due = NoDb /\ pc = "idle"
          /\ outbox[1].type = "update" =>
                server.upd = "pending" /\ lifecycle.action = "none" /\ Prepared(outbox[1].db)
          /\ outbox[1].type = "rollback" => server.upd = "idle" /\ outbox[1].db = NoDb
          /\ outbox[1].type = "confirm" =>
                server.upd = "idle" /\ (server.exiting => lifecycle.action # "none")
    /\ lifecycle.action = "update" =>
          server.upd = "pending" /\ server.due = NoDb /\ outbox = <<>> /\ pc = "idle"
             /\ Prepared(lifecycle.db)
    /\ pc \in ClearSteps => server.upd = "idle" /\ server.due = NoDb /\ outbox = <<>>

\* What a switch has in hand at each of its steps.
ApplyOk ==
    /\ pc \in {"apply.rm", "apply.moveCurrent"} => Prepared(call.db) /\ staging # NoDir
    /\ pc = "apply.moveStaging" => backup \in Versions /\ staging # NoDir
    /\ pc = "apply.record" => backup \in Versions
    /\ pc \in {"apply.moveStaging", "apply.record"} => Saved(call.db, backup) /\ db.marker

\* What a rollback has in hand at each of its steps.
RollbackOk ==
    /\ pc \in {"roll.rm", "roll.move"} => backup \in Versions /\ Saved(RestoreTarget, backup)
    /\ pc = "roll.restore" => Saved(RestoreTarget, current)
    /\ pc \in {"roll.restore", "roll.clear"} => backup = NoDir

\* Between switches and rollbacks the pending file describes backup/, and so do
\* the watchdog and a rollback that names its DB backup.
PendingFileOk ==
    /\ Settled /\ backup # NoDir =>
          backup \in Versions /\ pendingFile # NoFile /\ Saved(pendingFile.db, backup)
    /\ pc = "clear.unlink" => backup = NoDir
    /\ watch.left >= 0 => backup # NoDir /\ pc \in {"fork", "idle"} /\ watch.db = pendingFile.db
    /\ lifecycle.action = "rollback" /\ lifecycle.db # NoDb /\ backup # NoDir =>
          lifecycle.db = pendingFile.db

\* The marker survives as long as backup/ is neither confirmed nor rolled back.
MarkerOk ==
    Settled /\ backup # NoDir =>
        \/ db.marker /\ (server.state = "up" => server.upd = "pending")
        \/ outbox # <<>> \/ lifecycle.action = "rollback" \/ pc = "clear.rm"

\* The schema never runs ahead of the release that will boot, and a staged
\* release is newer than any installed one.
SchemaOk ==
    /\ pc \notin {"apply.moveStaging", "roll.move"} => current \in Versions
    /\ pc = "apply.moveStaging" => db.schema <= backup
    /\ pc \notin {"apply.moveStaging", "roll.rm", "roll.move", "roll.restore"} =>
          db.schema <= current
    /\ server.state = "up" => db.schema = current
    /\ current < nextVersion /\ backup < nextVersion /\ staging < nextVersion
    /\ staging # NoDir => current < staging /\ backup < staging

IInv ==
    /\ TypeOK
    /\ BackupsOrdered /\ ProcessesOk /\ RequestsOk /\ ApplyOk /\ RollbackOk
    /\ PendingFileOk /\ MarkerOk /\ SchemaOk

USE DEF Orderly, ApplySteps, RollbackSteps, ClearSteps, Settled, Saved, Prepared, RestoreTarget

\* The versions in hand are numbers.
LEMMA Numbers ==
    ASSUME TypeOK
    PROVE  /\ current \in Int /\ backup \in Int /\ staging \in Int /\ nextVersion \in Int
           /\ db.schema \in Nat /\ made \in Nat /\ \A b \in dbBackups : b.id \in Nat \ {0}
<1> USE Bounds
<1>1. current \in Int /\ backup \in Int /\ staging \in Int /\ nextVersion \in Int
  <2>1. /\ current \in Dirs /\ backup \in Dirs /\ staging \in Versions \cup {NoDir}
        /\ nextVersion \in 1..(MaxVersion + 1)
    BY DEF TypeOK
  <2> QED
    BY <2>1
<1>2. db.schema \in Nat /\ made \in Nat
  <2>1. db.schema \in Versions /\ made \in Ids
    BY DEF TypeOK
  <2> QED
    BY <2>1
<1>3. \A b \in dbBackups : b.id \in Nat \ {0}
  BY DEF TypeOK
<1> QED
  BY <1>1, <1>2, <1>3

\* A new DB backup gets a name of its own, holds the schema of data.db and
\* survives the pruning that follows it.
LEMMA BackUpSaves ==
    ASSUME TypeOK, BackupsOrdered, BackUpDatabase
    PROVE  BackupsOrdered' /\ \E b \in dbBackups' : b.id = made + 1 /\ b.schema = db.schema
<1> DEFINE new == [id |-> made + 1, schema |-> db.schema, marker |-> db.marker]
           all == dbBackups \cup {new}
<1>1. made' = made + 1 /\ made \in Nat /\ \A b \in dbBackups : b.id \in Nat
  BY Numbers DEF BackUpDatabase
<1>2. \A b \in dbBackups : b.id <= made
  BY DEF BackupsOrdered
<1>3. dbBackups' = {b \in all : Cardinality({c \in all : c.id > b.id}) < MaxBackups}
  BY DEF BackUpDatabase, Newest
<1>4. new \in dbBackups'
  <2>1. {c \in all : c.id > new.id} = {}
    BY <1>1, <1>2
  <2>2. Cardinality({c \in all : c.id > new.id}) < MaxBackups
    BY <2>1, FS_EmptySet, BoundsAssumption DEF BoundsAssumption
  <2> QED
    BY <1>3, <2>2
<1>5. \A b \in dbBackups' : b.id <= made'
  BY <1>1, <1>2, <1>3
<1>6. \A b, c \in dbBackups' : b.id = c.id => b = c
  <2>1. \A b \in dbBackups : b.id # new.id
    BY <1>1, <1>2
  <2> QED
    BY <1>3, <2>1 DEF BackupsOrdered
<1> QED
  BY <1>4, <1>5, <1>6 DEF BackupsOrdered

\* A server that shows a pending update has sent nothing and begun nothing.
LEMMA NothingRequested ==
    ASSUME IInv, server.state = "up", PendingShown
    PROVE  /\ outbox = <<>> /\ pc = "idle" /\ server.due = NoDb /\ ~server.deploying
           /\ lifecycle.action # "update"
<1>1. server.upd = "pending" /\ backup # NoDir
  BY DEF PendingShown
<1>2. outbox # <<>> => outbox[1].type \in {"update", "rollback", "confirm"}
  <2>1. outbox \in Seq(Messages) /\ (outbox # <<>> => Len(outbox) = 1)
    BY DEF IInv, TypeOK, RequestsOk
  <2>2. outbox # <<>> => outbox[1] \in Messages
    BY <2>1
  <2> QED
    BY <2>2 DEF Messages
<1>3. outbox = <<>> /\ server.due = NoDb /\ ~server.deploying /\ lifecycle.action # "update"
  BY <1>1, <1>2 DEF IInv, RequestsOk
<1>4. pc = "idle"
  BY <1>1 DEF IInv, RequestsOk, ProcessesOk
<1> QED
  BY <1>3, <1>4

\* Initially nothing is under way.
LEMMA InitInv == Init => IInv
<1> SUFFICES ASSUME Init PROVE IInv
  OBVIOUS
<1> USE Bounds DEF Init, NoServer, NoLifecycle, Disarmed, NoFile, NoCall
<1>1. TypeOK
  BY InitType
<1>2. BackupsOrdered /\ ProcessesOk /\ RequestsOk
  BY DEF BackupsOrdered, ProcessesOk, RequestsOk
<1>3. ApplyOk /\ RollbackOk /\ PendingFileOk /\ MarkerOk
  BY DEF ApplyOk, RollbackOk, PendingFileOk, MarkerOk
<1>4. SchemaOk
  BY DEF SchemaOk
<1> QED
  BY <1>1, <1>2, <1>3, <1>4 DEF IInv

\* Steps of the server preserve the invariant.
LEMMA ServerInv == Orderly /\ IInv /\ ServerNext => IInv'
<1> SUFFICES ASSUME Orderly, IInv, ServerNext PROVE IInv'
  OBVIOUS
<1>t. TypeOK /\ TypeOK'
  BY ServerType DEF IInv
<1>m. MaxVersion \in Nat
  BY Bounds
<1> USE DEF IInv, dirs, data, control
<1>1. CASE ServerBoots
  <2> USE <1>1 DEF ServerBoots, Bootable
  <2>a. current \in Versions /\ db'.schema = current
    BY <1>t DEF TypeOK
  <2>1. BackupsOrdered'
    BY DEF BackupsOrdered
  <2>2. ProcessesOk'
    BY DEF ProcessesOk, RequestsOk, TypeOK, Servers, Lifecycles
  <2>3. RequestsOk'
    BY DEF RequestsOk, ProcessesOk, TypeOK, Servers, MarkerOk, Lifecycles
  <2>4. ApplyOk'
    BY DEF ApplyOk, ProcessesOk, RequestsOk, SchemaOk
  <2>5. RollbackOk'
    BY DEF ProcessesOk, RollbackOk, PendingFileOk
  <2>6. PendingFileOk'
    BY DEF PendingFileOk, ProcessesOk, RequestsOk
  <2>7. MarkerOk'
    BY DEF MarkerOk, TypeOK, Servers, Lifecycles, ProcessesOk, RequestsOk
  <2>8. SchemaOk'
    BY <1>t, <1>m, <2>a, Numbers DEF SchemaOk, ProcessesOk, ApplyOk
  <2> QED
    BY <1>t, <2>1, <2>2, <2>3, <2>4, <2>5, <2>6, <2>7, <2>8
<1>2. CASE StageDeployment
  <2> USE <1>2 DEF StageDeployment, Serving, MayStage
  <2>1. BackupsOrdered'
    BY DEF BackupsOrdered
  <2>2. ProcessesOk'
    BY DEF ProcessesOk, RequestsOk, TypeOK, Servers, Lifecycles
  <2>3. RequestsOk'
    BY DEF RequestsOk, ProcessesOk, TypeOK, Servers, MarkerOk, Lifecycles
  <2>4. ApplyOk'
    BY DEF ApplyOk, ProcessesOk, RequestsOk, SchemaOk
  <2>5. RollbackOk'
    BY DEF ProcessesOk, RollbackOk, PendingFileOk
  <2>6. PendingFileOk'
    BY DEF PendingFileOk, ProcessesOk, RequestsOk
  <2>7. MarkerOk'
    BY DEF MarkerOk, TypeOK, Servers, Lifecycles, ProcessesOk, RequestsOk
  <2>8. SchemaOk'
    BY <1>t, <1>m, Numbers DEF SchemaOk, ProcessesOk, ApplyOk
  <2> QED
    BY <1>t, <2>1, <2>2, <2>3, <2>4, <2>5, <2>6, <2>7, <2>8
<1>3. CASE StageCompletes
  <2> USE <1>3 DEF StageCompletes
  <2>a. BackupsOrdered' /\ \E b \in dbBackups' : b.id = made + 1 /\ b.schema = db.schema
    BY <1>t, BackUpSaves
  <2>b. server' = [server EXCEPT !.deploying = FALSE, !.upd = "pending", !.due = made + 1]
        /\ server \in Servers /\ db'.schema = db.schema /\ db'.marker
    BY <1>t DEF TypeOK
  <2>1. BackupsOrdered'
    BY <2>a
  <2>2. ProcessesOk'
    BY DEF ProcessesOk, RequestsOk, TypeOK, Servers, Lifecycles
  <2>3. RequestsOk'
    <3>1. server'.due = made + 1 /\ server'.upd = "pending" /\ ~server'.deploying
      BY <2>b DEF Servers
    <3>2. /\ outbox = <<>> /\ backup = NoDir /\ lifecycle.action = "none" /\ pc = "idle"
          /\ db.schema = current
      BY DEF RequestsOk, ProcessesOk, SchemaOk
    <3> QED
      BY <2>a, <2>b, <3>1, <3>2 DEF RequestsOk
  <2>4. ApplyOk'
    BY DEF ApplyOk, ProcessesOk, RequestsOk, SchemaOk
  <2>5. RollbackOk'
    BY DEF ProcessesOk, RollbackOk, PendingFileOk
  <2>6. PendingFileOk'
    BY DEF PendingFileOk, ProcessesOk, RequestsOk
  <2>7. MarkerOk'
    BY DEF MarkerOk, TypeOK, Servers, Lifecycles, ProcessesOk, RequestsOk
  <2>8. SchemaOk'
    BY DEF SchemaOk, TypeOK, Servers, ProcessesOk, ApplyOk
  <2> QED
    BY <1>t, <2>1, <2>2, <2>3, <2>4, <2>5, <2>6, <2>7, <2>8
<1>4. CASE StageBackupFails
  <2> USE <1>4 DEF StageBackupFails
  <2>1. BackupsOrdered'
    BY DEF BackupsOrdered
  <2>2. ProcessesOk'
    BY DEF ProcessesOk, RequestsOk, TypeOK, Servers, Lifecycles
  <2>3. RequestsOk'
    BY DEF RequestsOk, ProcessesOk, TypeOK, Servers, MarkerOk, Lifecycles
  <2>4. ApplyOk'
    BY DEF ApplyOk, ProcessesOk, RequestsOk, SchemaOk
  <2>5. RollbackOk'
    BY DEF ProcessesOk, RollbackOk, PendingFileOk
  <2>6. PendingFileOk'
    BY DEF PendingFileOk, ProcessesOk, RequestsOk
  <2>7. MarkerOk'
    BY DEF MarkerOk, TypeOK, Servers, Lifecycles, ProcessesOk, RequestsOk
  <2>8. SchemaOk'
    BY DEF SchemaOk, TypeOK, Servers, ProcessesOk, ApplyOk
  <2> QED
    BY <1>t, <2>1, <2>2, <2>3, <2>4, <2>5, <2>6, <2>7, <2>8
<1>5. CASE ApplyStagedUpdate
  <2> USE <1>5 DEF ApplyStagedUpdate, Message
  <2>1. BackupsOrdered'
    BY DEF BackupsOrdered
  <2>2. ProcessesOk'
    <3>1. outbox' # <<>>
      BY <1>t, AppendProperties DEF TypeOK
    <3> QED
      BY <1>t, <3>1 DEF ProcessesOk, RequestsOk, TypeOK, Servers
  <2>3. RequestsOk'
    BY DEF RequestsOk, ProcessesOk, TypeOK, Servers, MarkerOk, Lifecycles
  <2>4. ApplyOk'
    BY DEF ApplyOk, ProcessesOk, RequestsOk, SchemaOk
  <2>5. RollbackOk'
    BY DEF ProcessesOk, RollbackOk, PendingFileOk
  <2>6. PendingFileOk'
    BY DEF PendingFileOk, ProcessesOk, RequestsOk
  <2>7. MarkerOk'
    BY DEF MarkerOk, TypeOK, Servers, Lifecycles, ProcessesOk, RequestsOk
  <2>8. SchemaOk'
    BY DEF SchemaOk, TypeOK, Servers, ProcessesOk, ApplyOk
  <2> QED
    BY <1>t, <2>1, <2>2, <2>3, <2>4, <2>5, <2>6, <2>7, <2>8
<1>6. CASE ConfirmUpdate
  <2> USE <1>6 DEF ConfirmUpdate, PendingShown, Message
  <2>1. BackupsOrdered'
    BY DEF BackupsOrdered
  <2>2. ProcessesOk'
    BY SMTT(30) DEF ProcessesOk, RequestsOk, TypeOK, Servers, Lifecycles
  <2>3. RequestsOk'
    <3>1. outbox = <<>> /\ pc = "idle" /\ server.due = NoDb /\ ~server.deploying
          /\ lifecycle.action # "update"
      BY NothingRequested
    <3>2. outbox' = <<[type |-> "confirm", db |-> NoDb]>>
      BY <3>1
    <3>3. /\ server'.upd = "idle" /\ server'.due = NoDb /\ ~server'.deploying
          /\ server'.exiting = server.exiting
      BY <1>t, <3>1 DEF TypeOK, Servers
    <3> QED
      BY <3>1, <3>2, <3>3 DEF RequestsOk, ProcessesOk
  <2>4. ApplyOk'
    BY DEF ApplyOk, ProcessesOk, RequestsOk, SchemaOk
  <2>5. RollbackOk'
    BY DEF ProcessesOk, RollbackOk, PendingFileOk
  <2>6. PendingFileOk'
    BY DEF PendingFileOk, ProcessesOk, RequestsOk
  <2>7. MarkerOk'
    BY SMTT(30) DEF MarkerOk, TypeOK, Servers, Lifecycles, ProcessesOk, RequestsOk
  <2>8. SchemaOk'
    BY DEF SchemaOk, TypeOK, Servers, ProcessesOk, ApplyOk
  <2> QED
    BY <1>t, <2>1, <2>2, <2>3, <2>4, <2>5, <2>6, <2>7, <2>8
<1>7. CASE RequestRollback
  <2> USE <1>7 DEF RequestRollback, PendingShown, Message
  <2>1. BackupsOrdered'
    BY DEF BackupsOrdered
  <2>2. ProcessesOk'
    <3>1. outbox' # <<>>
      <4>1. [type |-> "rollback", db |-> NoDb] \in Messages
        BY Bounds DEF Messages
      <4> QED
        BY <1>t, <4>1, AppendProperties DEF TypeOK
    <3>2. server.state = "up" /\ server'.state = "up" /\ server'.exiting /\ server'.due = server.due
          /\ server'.deploying = server.deploying
      BY <1>t DEF TypeOK, Servers
    <3> QED
      BY <3>1, <3>2 DEF ProcessesOk
  <2>3. RequestsOk'
    <3>1. outbox = <<>> /\ pc = "idle" /\ server.due = NoDb /\ ~server.deploying
          /\ lifecycle.action # "update"
      BY NothingRequested
    <3>2. outbox' = <<[type |-> "rollback", db |-> NoDb]>>
      BY <3>1
    <3>3. server'.upd = "idle" /\ server'.due = NoDb /\ ~server'.deploying
      BY <1>t, <3>1 DEF TypeOK, Servers
    <3> QED
      BY <3>1, <3>2, <3>3 DEF RequestsOk
  <2>4. ApplyOk'
    BY DEF ApplyOk, ProcessesOk, RequestsOk, SchemaOk
  <2>5. RollbackOk'
    BY DEF ProcessesOk, RollbackOk, PendingFileOk
  <2>6. PendingFileOk'
    BY DEF PendingFileOk, ProcessesOk, RequestsOk
  <2>7. MarkerOk'
    BY DEF MarkerOk, TypeOK, Servers, Lifecycles, ProcessesOk, RequestsOk
  <2>8. SchemaOk'
    BY DEF SchemaOk, TypeOK, Servers, ProcessesOk, ApplyOk
  <2> QED
    BY <1>t, <2>1, <2>2, <2>3, <2>4, <2>5, <2>6, <2>7, <2>8
<1>8. CASE InstallCloudUpdate
  <2> USE <1>8 DEF InstallCloudUpdate, Serving
  <2>1. BackupsOrdered'
    BY DEF BackupsOrdered
  <2>2. ProcessesOk'
    BY DEF ProcessesOk, RequestsOk, TypeOK, Servers, Lifecycles
  <2>3. RequestsOk'
    BY DEF RequestsOk, ProcessesOk, TypeOK, Servers, MarkerOk, Lifecycles
  <2>4. ApplyOk'
    BY DEF ApplyOk, ProcessesOk, RequestsOk, SchemaOk
  <2>5. RollbackOk'
    BY DEF ProcessesOk, RollbackOk, PendingFileOk
  <2>6. PendingFileOk'
    BY DEF PendingFileOk, ProcessesOk, RequestsOk
  <2>7. MarkerOk'
    BY DEF MarkerOk, TypeOK, Servers, Lifecycles, ProcessesOk, RequestsOk
  <2>8. SchemaOk'
    BY DEF SchemaOk, TypeOK, Servers, ProcessesOk, ApplyOk
  <2> QED
    BY <1>t, <2>1, <2>2, <2>3, <2>4, <2>5, <2>6, <2>7, <2>8
<1>9. CASE CloudArchiveArrives
  <2> USE <1>9 DEF CloudArchiveArrives, MayStage
  <2>1. BackupsOrdered'
    BY DEF BackupsOrdered
  <2>2. ProcessesOk'
    BY DEF ProcessesOk, RequestsOk, TypeOK, Servers, Lifecycles
  <2>3. RequestsOk'
    BY DEF RequestsOk, ProcessesOk, TypeOK, Servers, MarkerOk, Lifecycles
  <2>4. ApplyOk'
    BY DEF ApplyOk, ProcessesOk, RequestsOk, SchemaOk
  <2>5. RollbackOk'
    BY DEF ProcessesOk, RollbackOk, PendingFileOk
  <2>6. PendingFileOk'
    BY DEF PendingFileOk, ProcessesOk, RequestsOk
  <2>7. MarkerOk'
    BY DEF MarkerOk, TypeOK, Servers, Lifecycles, ProcessesOk, RequestsOk
  <2>8. SchemaOk'
    BY DEF SchemaOk, TypeOK, Servers, ProcessesOk, ApplyOk
  <2> QED
    BY <1>t, <2>1, <2>2, <2>3, <2>4, <2>5, <2>6, <2>7, <2>8
<1>10. CASE ManageBackups
  <2> USE <1>10 DEF ManageBackups, NoUpdateUnderWay
  <2>1. BackupsOrdered'
    <3>1. CASE BackUpDatabase
      BY <1>t, <3>1, BackUpSaves
    <3>2. CASE \E b \in dbBackups : dbBackups' = dbBackups \ {b} /\ UNCHANGED made
      BY <3>2 DEF BackupsOrdered
    <3> QED
      BY <3>1, <3>2
  <2>2. ProcessesOk'
    BY DEF ProcessesOk, RequestsOk, TypeOK, Servers, Lifecycles
  <2>3. RequestsOk'
    BY DEF RequestsOk, ProcessesOk, TypeOK, Servers, MarkerOk, Lifecycles
  <2>4. ApplyOk'
    BY DEF ApplyOk, ProcessesOk, RequestsOk, SchemaOk
  <2>5. RollbackOk'
    BY DEF ProcessesOk, RollbackOk, PendingFileOk
  <2>6. PendingFileOk'
    BY DEF PendingFileOk, ProcessesOk, RequestsOk
  <2>7. MarkerOk'
    BY DEF MarkerOk, TypeOK, Servers, Lifecycles, ProcessesOk, RequestsOk
  <2>8. SchemaOk'
    BY DEF SchemaOk, TypeOK, Servers, ProcessesOk, ApplyOk
  <2> QED
    BY <1>t, <2>1, <2>2, <2>3, <2>4, <2>5, <2>6, <2>7, <2>8
<1> QED
  BY <1>1, <1>2, <1>3, <1>4, <1>5, <1>6, <1>7, <1>8, <1>9, <1>10 DEF ServerNext

\* Steps of the launcher's event loop preserve the invariant.
LEMMA LoopInv == Orderly /\ IInv /\ LoopNext => IInv'
<1> SUFFICES ASSUME Orderly, IInv, LoopNext PROVE IInv'
  OBVIOUS
<1>t. TypeOK /\ TypeOK'
  BY LoopType DEF IInv
<1>m. MaxVersion \in Nat
  BY Bounds
<1> USE DEF IInv, dirs, data, control
<1>1. CASE StartServer
  <2> USE <1>1 DEF StartServer, Disarmed
  <2>1. BackupsOrdered'
    BY DEF BackupsOrdered
  <2>2. ProcessesOk'
    BY DEF ProcessesOk, RequestsOk, TypeOK, Servers, Lifecycles
  <2>3. RequestsOk'
    BY DEF RequestsOk, ProcessesOk, TypeOK, Servers, MarkerOk, Lifecycles
  <2>4. ApplyOk'
    BY DEF ApplyOk, ProcessesOk, RequestsOk, SchemaOk
  <2>5. RollbackOk'
    BY DEF ProcessesOk, RollbackOk, PendingFileOk
  <2>6. PendingFileOk'
    BY DEF PendingFileOk, ProcessesOk, RequestsOk
  <2>7. MarkerOk'
    BY DEF MarkerOk, TypeOK, Servers, Lifecycles, ProcessesOk, RequestsOk
  <2>8. SchemaOk'
    BY DEF SchemaOk, TypeOK, Servers, ProcessesOk, ApplyOk
  <2> QED
    BY <1>t, <2>1, <2>2, <2>3, <2>4, <2>5, <2>6, <2>7, <2>8
<1>2. CASE Fork
  <2> USE <1>2 DEF Fork, NoServer
  <2>1. BackupsOrdered'
    BY DEF BackupsOrdered
  <2>2. ProcessesOk'
    BY DEF ProcessesOk, RequestsOk, TypeOK, Servers, Lifecycles
  <2>3. RequestsOk'
    BY DEF RequestsOk, ProcessesOk, TypeOK, Servers, MarkerOk, Lifecycles
  <2>4. ApplyOk'
    BY DEF ApplyOk, ProcessesOk, RequestsOk, SchemaOk
  <2>5. RollbackOk'
    BY DEF ProcessesOk, RollbackOk, PendingFileOk
  <2>6. PendingFileOk'
    BY DEF PendingFileOk, ProcessesOk, RequestsOk
  <2>7. MarkerOk'
    BY DEF MarkerOk, TypeOK, Servers, Lifecycles, ProcessesOk, RequestsOk
  <2>8. SchemaOk'
    BY DEF SchemaOk, TypeOK, Servers, ProcessesOk, ApplyOk
  <2> QED
    BY <1>t, <2>1, <2>2, <2>3, <2>4, <2>5, <2>6, <2>7, <2>8
<1>3. CASE ReceiveLifecycle
  <2> USE <1>3 DEF ReceiveLifecycle
  <2>1. BackupsOrdered'
    BY DEF BackupsOrdered
  <2>2. ProcessesOk'
    BY DEF ProcessesOk, RequestsOk, TypeOK, Servers, Lifecycles
  <2>3. RequestsOk'
    <3>1. outbox \in Seq(Messages) /\ Len(outbox) = 1
      BY <1>t DEF RequestsOk, TypeOK
    <3>2. Head(outbox) = outbox[1] /\ outbox' = <<>>
      BY <3>1
    <3>3. server'.upd = server.upd /\ server'.due = server.due /\ server'.deploying = server.deploying
      BY <1>t DEF TypeOK, Servers
    <3>4. lifecycle'.action = outbox[1].type /\ lifecycle'.db = outbox[1].db
      BY <3>2
    <3> QED
      BY <3>2, <3>3, <3>4 DEF RequestsOk
  <2>4. ApplyOk'
    BY DEF ApplyOk, ProcessesOk, RequestsOk, SchemaOk
  <2>5. RollbackOk'
    BY DEF ProcessesOk, RollbackOk, PendingFileOk
  <2>6. PendingFileOk'
    BY DEF PendingFileOk, ProcessesOk, RequestsOk
  <2>7. MarkerOk'
    BY DEF MarkerOk, TypeOK, Servers, Lifecycles, ProcessesOk, RequestsOk
  <2>8. SchemaOk'
    BY DEF SchemaOk, TypeOK, Servers, ProcessesOk, ApplyOk
  <2> QED
    BY <1>t, <2>1, <2>2, <2>3, <2>4, <2>5, <2>6, <2>7, <2>8
<1>4. CASE ReceiveConfirm
  <2> USE <1>4 DEF ReceiveConfirm, Disarmed
  <2>1. BackupsOrdered'
    BY DEF BackupsOrdered
  <2>2. ProcessesOk'
    BY DEF ProcessesOk, RequestsOk, TypeOK, Servers, Lifecycles
  <2>3. RequestsOk'
    BY SMTT(30) DEF RequestsOk, ProcessesOk, TypeOK, Servers, MarkerOk, Lifecycles
  <2>4. ApplyOk'
    BY DEF ApplyOk, ProcessesOk, RequestsOk, SchemaOk
  <2>5. RollbackOk'
    BY DEF ProcessesOk, RollbackOk, PendingFileOk
  <2>6. PendingFileOk'
    BY DEF PendingFileOk, ProcessesOk, RequestsOk
  <2>7. MarkerOk'
    BY DEF MarkerOk, TypeOK, Servers, Lifecycles, ProcessesOk, RequestsOk
  <2>8. SchemaOk'
    BY DEF SchemaOk, TypeOK, Servers, ProcessesOk, ApplyOk
  <2> QED
    BY <1>t, <2>1, <2>2, <2>3, <2>4, <2>5, <2>6, <2>7, <2>8
<1>5. CASE ServerExits
  <2> USE <1>5 DEF ServerExits, NoServer, NoLifecycle, ExitForUpdate, ExitForRollback, ExitByCrash, ExitCleanly, BeginRollback, Disarmed
  <2>1. BackupsOrdered'
    BY DEF BackupsOrdered
  <2>2. ProcessesOk'
    BY SMTT(30) DEF ProcessesOk, RequestsOk, TypeOK, Servers, Lifecycles
  <2>3. RequestsOk'
    BY DEF RequestsOk, ProcessesOk, TypeOK, Servers, MarkerOk, Lifecycles
  <2>4. ApplyOk'
    BY DEF ApplyOk, ProcessesOk, RequestsOk, SchemaOk
  <2>5. RollbackOk'
    <3>1. pc \notin RollbackSteps
      BY DEF ProcessesOk
    <3>2. CASE ExitForRollback /\ backup # NoDir
      <4>1. pc' = "roll.rm" /\ call'.db = lifecycle.db
        BY <3>2
      <4>2. RestoreTarget' = pendingFile.db
        BY <3>2, <4>1 DEF PendingFileOk
      <4>3. backup \in Versions /\ Saved(pendingFile.db, backup)
        BY <3>1, <3>2, <4>1 DEF PendingFileOk, ProcessesOk
      <4> QED
        BY <4>1, <4>2, <4>3 DEF RollbackOk
    <3>3. CASE ExitForUpdate \/ ExitCleanly \/ (ExitForRollback /\ backup = NoDir)
      BY <3>1, <3>3 DEF RollbackOk, RequestsOk
    <3>4. CASE ExitByCrash
      <4>1. CASE BeginRollback(NoDb, TRUE) /\ backup # NoDir
        <5>1. pc' = "roll.rm" /\ call'.db = NoDb
          BY <4>1
        <5>2. backup \in Versions /\ Saved(pendingFile.db, backup)
          BY <3>1, <4>1 DEF PendingFileOk, ProcessesOk
        <5> QED
          BY <5>1, <5>2 DEF RollbackOk
      <4>2. CASE UNCHANGED <<pc, call>>
        BY <3>1, <4>2 DEF RollbackOk
      <4> QED
        BY <3>4, <4>1, <4>2
    <3> QED
      BY <3>2, <3>3, <3>4
  <2>6. PendingFileOk'
    BY DEF PendingFileOk, ProcessesOk, RequestsOk
  <2>7. MarkerOk'
    BY DEF MarkerOk, TypeOK, Servers, Lifecycles, ProcessesOk, RequestsOk
  <2>8. SchemaOk'
    BY DEF SchemaOk, TypeOK, Servers, ProcessesOk, ApplyOk
  <2> QED
    BY <1>t, <2>1, <2>2, <2>3, <2>4, <2>5, <2>6, <2>7, <2>8
<1>6. CASE WatchdogFires
  <2> USE <1>6 DEF WatchdogFires, Disarmed, BeginRollback
  <2>1. BackupsOrdered'
    BY DEF BackupsOrdered
  <2>2. ProcessesOk'
    BY SMTT(30) DEF ProcessesOk, RequestsOk, TypeOK, Servers, Lifecycles
  <2>3. RequestsOk'
    <3>1. backup # NoDir
      BY DEF PendingFileOk
    <3>2. /\ ~server.deploying /\ server.due = NoDb /\ lifecycle.action # "update"
          /\ outbox # <<>> => outbox[1].type # "update"
      BY <3>1 DEF RequestsOk
    <3>3. /\ server'.upd = server.upd /\ server'.due = NoDb /\ ~server'.deploying
          /\ (server'.exiting /\ lifecycle'.action # "none") \/ UNCHANGED <<server, lifecycle>>
      BY <1>t, <3>1, <3>2 DEF TypeOK, Servers
    <3>4. lifecycle'.action # "update"
      BY <3>2
    <3>5. pc' \in {"idle", "roll.rm"} /\ (outbox # <<>> => pc' = "idle")
      BY <3>1 DEF ProcessesOk
    <3> QED
      BY <3>2, <3>3, <3>4, <3>5 DEF RequestsOk
  <2>4. ApplyOk'
    BY DEF ApplyOk, ProcessesOk, RequestsOk, SchemaOk
  <2>5. RollbackOk'
    BY DEF ProcessesOk, RollbackOk, PendingFileOk
  <2>6. PendingFileOk'
    BY DEF PendingFileOk, ProcessesOk, RequestsOk
  <2>7. MarkerOk'
    BY DEF MarkerOk, TypeOK, Servers, Lifecycles, ProcessesOk, RequestsOk
  <2>8. SchemaOk'
    BY DEF SchemaOk, TypeOK, Servers, ProcessesOk, ApplyOk
  <2> QED
    BY <1>t, <2>1, <2>2, <2>3, <2>4, <2>5, <2>6, <2>7, <2>8
<1> QED
  BY <1>1, <1>2, <1>3, <1>4, <1>5, <1>6 DEF LoopNext

\* Steps of the launcher's synchronous sequences preserve the invariant.
LEMMA SwapInv == Orderly /\ IInv /\ SwapNext => IInv'
<1> SUFFICES ASSUME Orderly, IInv, SwapNext PROVE IInv'
  OBVIOUS
<1>t. TypeOK /\ TypeOK'
  BY SwapType DEF IInv
<1>m. MaxVersion \in Nat
  BY Bounds
<1> USE DEF IInv, dirs, data, control, SwapFrame
<1>1. CASE ApplyRemovesBackup
  <2> USE <1>1 DEF ApplyRemovesBackup
  <2>1. BackupsOrdered'
    BY DEF BackupsOrdered
  <2>2. ProcessesOk'
    BY DEF ProcessesOk, RequestsOk, TypeOK, Servers, Lifecycles
  <2>3. RequestsOk'
    BY DEF RequestsOk, ProcessesOk, TypeOK, Servers, MarkerOk, Lifecycles
  <2>4. ApplyOk'
    BY DEF ApplyOk, ProcessesOk, RequestsOk, SchemaOk
  <2>5. RollbackOk'
    BY DEF ProcessesOk, RollbackOk, PendingFileOk
  <2>6. PendingFileOk'
    BY DEF PendingFileOk, ProcessesOk, RequestsOk
  <2>7. MarkerOk'
    BY DEF MarkerOk, TypeOK, Servers, Lifecycles, ProcessesOk, RequestsOk
  <2>8. SchemaOk'
    BY DEF SchemaOk, TypeOK, Servers, ProcessesOk, ApplyOk
  <2> QED
    BY <1>t, <2>1, <2>2, <2>3, <2>4, <2>5, <2>6, <2>7, <2>8
<1>2. CASE ApplyMovesCurrent
  <2> USE <1>2 DEF ApplyMovesCurrent
  <2>1. BackupsOrdered'
    BY DEF BackupsOrdered
  <2>2. ProcessesOk'
    BY DEF ProcessesOk, RequestsOk, TypeOK, Servers, Lifecycles
  <2>3. RequestsOk'
    BY DEF RequestsOk, ProcessesOk, TypeOK, Servers, MarkerOk, Lifecycles
  <2>4. ApplyOk'
    BY DEF ApplyOk, ProcessesOk, RequestsOk, SchemaOk
  <2>5. RollbackOk'
    BY DEF ProcessesOk, RollbackOk, PendingFileOk
  <2>6. PendingFileOk'
    BY DEF PendingFileOk, ProcessesOk, RequestsOk
  <2>7. MarkerOk'
    BY DEF MarkerOk, TypeOK, Servers, Lifecycles, ProcessesOk, RequestsOk
  <2>8. SchemaOk'
    BY DEF SchemaOk, TypeOK, Servers, ProcessesOk, ApplyOk
  <2> QED
    BY <1>t, <2>1, <2>2, <2>3, <2>4, <2>5, <2>6, <2>7, <2>8
<1>3. CASE ApplyMovesStaging
  <2> USE <1>3 DEF ApplyMovesStaging
  <2>1. BackupsOrdered'
    BY DEF BackupsOrdered
  <2>2. ProcessesOk'
    BY DEF ProcessesOk, RequestsOk, TypeOK, Servers, Lifecycles
  <2>3. RequestsOk'
    BY DEF RequestsOk, ProcessesOk, TypeOK, Servers, MarkerOk, Lifecycles
  <2>4. ApplyOk'
    BY DEF ApplyOk, ProcessesOk, RequestsOk, SchemaOk
  <2>5. RollbackOk'
    BY DEF ProcessesOk, RollbackOk, PendingFileOk
  <2>6. PendingFileOk'
    BY DEF PendingFileOk, ProcessesOk, RequestsOk
  <2>7. MarkerOk'
    BY DEF MarkerOk, TypeOK, Servers, Lifecycles, ProcessesOk, RequestsOk
  <2>8. SchemaOk'
    <3>1. /\ staging \in Versions /\ backup \in Versions /\ backup < staging
          /\ db.schema <= backup /\ staging < nextVersion /\ backup < nextVersion
      BY <1>t DEF SchemaOk, ApplyOk, TypeOK
    <3>2. server.state = "none"
      BY DEF ProcessesOk
    <3> QED
      BY <1>t, <1>m, <3>1, <3>2, Numbers DEF SchemaOk
  <2> QED
    BY <1>t, <2>1, <2>2, <2>3, <2>4, <2>5, <2>6, <2>7, <2>8
<1>4. CASE ApplyRecordsPending
  <2> USE <1>4 DEF ApplyRecordsPending, NoCall, NoFile
  <2>a. pc' = "idle"
    BY DEF ProcessesOk
  <2>1. BackupsOrdered'
    BY DEF BackupsOrdered
  <2>2. ProcessesOk'
    BY DEF ProcessesOk, RequestsOk, TypeOK, Servers, Lifecycles
  <2>3. RequestsOk'
    BY DEF RequestsOk, ProcessesOk, TypeOK, Servers, MarkerOk, Lifecycles
  <2>4. ApplyOk'
    BY DEF ApplyOk, ProcessesOk, RequestsOk, SchemaOk
  <2>5. RollbackOk'
    BY DEF ProcessesOk, RollbackOk, PendingFileOk
  <2>6. PendingFileOk'
    <3>1. pendingFile'.age = 0 /\ pendingFile'.db = call.db
      OBVIOUS
    <3>2. pendingFile' # NoFile
      BY <3>1
    <3>3. ~(watch.left >= 0) /\ lifecycle.action = "none"
      BY DEF PendingFileOk, ProcessesOk
    <3>4. backup \in Versions /\ Saved(call.db, backup)
      BY DEF ApplyOk
    <3> QED
      BY <2>a, <3>1, <3>2, <3>3, <3>4 DEF PendingFileOk
  <2>7. MarkerOk'
    BY <2>a DEF MarkerOk, ApplyOk, ProcessesOk
  <2>8. SchemaOk'
    BY DEF SchemaOk, TypeOK, Servers, ProcessesOk, ApplyOk
  <2> QED
    BY <1>t, <2>1, <2>2, <2>3, <2>4, <2>5, <2>6, <2>7, <2>8
<1>5. CASE RollbackRemovesCurrent
  <2> USE <1>5 DEF RollbackRemovesCurrent
  <2>1. BackupsOrdered'
    BY DEF BackupsOrdered
  <2>2. ProcessesOk'
    BY DEF ProcessesOk, RequestsOk, TypeOK, Servers, Lifecycles
  <2>3. RequestsOk'
    BY DEF RequestsOk, ProcessesOk, TypeOK, Servers, MarkerOk, Lifecycles
  <2>4. ApplyOk'
    BY DEF ApplyOk, ProcessesOk, RequestsOk, SchemaOk
  <2>5. RollbackOk'
    BY DEF ProcessesOk, RollbackOk, PendingFileOk
  <2>6. PendingFileOk'
    BY DEF PendingFileOk, ProcessesOk, RequestsOk
  <2>7. MarkerOk'
    BY DEF MarkerOk, TypeOK, Servers, Lifecycles, ProcessesOk, RequestsOk
  <2>8. SchemaOk'
    <3>1. current' = NoDir /\ pc' = "roll.move" /\ server.state = "none"
      BY DEF ProcessesOk
    <3> QED
      BY <1>t, <3>1, Numbers DEF SchemaOk, TypeOK
  <2> QED
    BY <1>t, <2>1, <2>2, <2>3, <2>4, <2>5, <2>6, <2>7, <2>8
<1>6. CASE RollbackMovesBackup
  <2> USE <1>6 DEF RollbackMovesBackup
  <2>1. BackupsOrdered'
    BY DEF BackupsOrdered
  <2>2. ProcessesOk'
    BY DEF ProcessesOk, RequestsOk, TypeOK, Servers, Lifecycles
  <2>3. RequestsOk'
    BY DEF RequestsOk, ProcessesOk, TypeOK, Servers, MarkerOk, Lifecycles
  <2>4. ApplyOk'
    BY DEF ApplyOk, ProcessesOk, RequestsOk, SchemaOk
  <2>5. RollbackOk'
    BY DEF ProcessesOk, RollbackOk, PendingFileOk
  <2>6. PendingFileOk'
    BY DEF PendingFileOk, ProcessesOk, RequestsOk
  <2>7. MarkerOk'
    BY DEF MarkerOk, TypeOK, Servers, Lifecycles, ProcessesOk, RequestsOk
  <2>8. SchemaOk'
    <3>1. server.state = "none" /\ backup \in Versions
      BY DEF ProcessesOk, RollbackOk
    <3> QED
      BY <1>t, <1>m, <3>1, Numbers DEF SchemaOk, TypeOK
  <2> QED
    BY <1>t, <2>1, <2>2, <2>3, <2>4, <2>5, <2>6, <2>7, <2>8
<1>7. CASE RollbackRestoresDatabase
  <2> USE <1>7 DEF RollbackRestoresDatabase, NoCall
  <2>a. RestoreTarget # NoDb /\ \E b \in dbBackups : b.id = RestoreTarget
    BY <1>t, Numbers DEF RollbackOk
  <2>b. pc' = "roll.clear" /\ UNCHANGED call
    BY <2>a
  <2>c. db'.schema = current
    <3>1. PICK b \in dbBackups : b.id = RestoreTarget /\ db' = [schema |-> b.schema, marker |-> b.marker]
      BY <2>a
    <3>2. PICK c \in dbBackups : c.id = RestoreTarget /\ c.schema = current
      BY DEF RollbackOk
    <3> QED
      BY <3>1, <3>2 DEF BackupsOrdered
  <2>1. BackupsOrdered'
    BY DEF BackupsOrdered
  <2>2. ProcessesOk'
    BY DEF ProcessesOk, RequestsOk, TypeOK, Servers, Lifecycles
  <2>3. RequestsOk'
    BY DEF RequestsOk, ProcessesOk, TypeOK, Servers, MarkerOk, Lifecycles
  <2>4. ApplyOk'
    BY <2>b DEF ApplyOk
  <2>5. RollbackOk'
    BY DEF ProcessesOk, RollbackOk, PendingFileOk
  <2>6. PendingFileOk'
    BY <2>b DEF PendingFileOk, ProcessesOk
  <2>7. MarkerOk'
    BY <2>b DEF MarkerOk
  <2>8. SchemaOk'
    <3>1. server.state = "none"
      BY DEF ProcessesOk
    <3> QED
      BY <1>t, <2>b, <2>c, <3>1, Numbers DEF SchemaOk
  <2> QED
    BY <1>t, <2>1, <2>2, <2>3, <2>4, <2>5, <2>6, <2>7, <2>8
<1>8. CASE RollbackClearsPending
  <2> USE <1>8 DEF RollbackClearsPending, NoCall, NoFile
  <2>a. pc' \in {"idle", "fork"} /\ backup = NoDir
    BY <1>t DEF TypeOK, RollbackOk
  <2>1. BackupsOrdered'
    BY DEF BackupsOrdered
  <2>2. ProcessesOk'
    BY DEF ProcessesOk, RequestsOk, TypeOK, Servers, Lifecycles
  <2>3. RequestsOk'
    BY DEF RequestsOk, ProcessesOk, TypeOK, Servers, MarkerOk, Lifecycles
  <2>4. ApplyOk'
    BY <2>a DEF ApplyOk
  <2>5. RollbackOk'
    BY <2>a DEF RollbackOk
  <2>6. PendingFileOk'
    BY <2>a DEF PendingFileOk, ProcessesOk
  <2>7. MarkerOk'
    BY <2>a DEF MarkerOk
  <2>8. SchemaOk'
    BY DEF SchemaOk, TypeOK, Servers, ProcessesOk, ApplyOk
  <2> QED
    BY <1>t, <2>1, <2>2, <2>3, <2>4, <2>5, <2>6, <2>7, <2>8
<1>9. CASE ClearRemovesBackup
  <2> USE <1>9 DEF ClearRemovesBackup
  <2>1. BackupsOrdered'
    BY DEF BackupsOrdered
  <2>2. ProcessesOk'
    BY DEF ProcessesOk, RequestsOk, TypeOK, Servers, Lifecycles
  <2>3. RequestsOk'
    BY DEF RequestsOk, ProcessesOk, TypeOK, Servers, MarkerOk, Lifecycles
  <2>4. ApplyOk'
    BY DEF ApplyOk, ProcessesOk, RequestsOk, SchemaOk
  <2>5. RollbackOk'
    BY DEF ProcessesOk, RollbackOk, PendingFileOk
  <2>6. PendingFileOk'
    BY DEF PendingFileOk, ProcessesOk, RequestsOk
  <2>7. MarkerOk'
    BY DEF MarkerOk, TypeOK, Servers, Lifecycles, ProcessesOk, RequestsOk
  <2>8. SchemaOk'
    BY <1>t, Numbers DEF SchemaOk, TypeOK
  <2> QED
    BY <1>t, <2>1, <2>2, <2>3, <2>4, <2>5, <2>6, <2>7, <2>8
<1>10. CASE ClearUnlinksPending
  <2> USE <1>10 DEF ClearUnlinksPending, NoFile
  <2>1. BackupsOrdered'
    BY DEF BackupsOrdered
  <2>2. ProcessesOk'
    BY DEF ProcessesOk, RequestsOk, TypeOK, Servers, Lifecycles
  <2>3. RequestsOk'
    BY DEF RequestsOk, ProcessesOk, TypeOK, Servers, MarkerOk, Lifecycles
  <2>4. ApplyOk'
    BY DEF ApplyOk, ProcessesOk, RequestsOk, SchemaOk
  <2>5. RollbackOk'
    BY DEF ProcessesOk, RollbackOk, PendingFileOk
  <2>6. PendingFileOk'
    BY DEF PendingFileOk, ProcessesOk, RequestsOk
  <2>7. MarkerOk'
    BY DEF MarkerOk, TypeOK, Servers, Lifecycles, ProcessesOk, RequestsOk
  <2>8. SchemaOk'
    BY DEF SchemaOk, TypeOK, Servers, ProcessesOk, ApplyOk
  <2> QED
    BY <1>t, <2>1, <2>2, <2>3, <2>4, <2>5, <2>6, <2>7, <2>8
<1> QED
  BY <1>1, <1>2, <1>3, <1>4, <1>5, <1>6, <1>7, <1>8, <1>9, <1>10 DEF SwapNext

\* Time and restarts of the launcher preserve the invariant.
LEMMA MachineInv == Orderly /\ IInv /\ (Tick \/ Shutdown \/ PowerLoss \/ LauncherBoots) => IInv'
<1> SUFFICES ASSUME Orderly, IInv, Tick \/ Shutdown \/ PowerLoss \/ LauncherBoots PROVE IInv'
  OBVIOUS
<1>t. TypeOK /\ TypeOK'
  BY MachineType DEF IInv
<1>m. MaxVersion \in Nat
  BY Bounds
<1> USE DEF IInv, dirs, data, control
<1>1. CASE Tick
  <2> USE <1>1 DEF Tick, NoFile
  <2>a. pendingFile'.db = pendingFile.db /\ (pendingFile # NoFile => pendingFile' # NoFile)
    BY SMTT(30), <1>t, Bounds DEF TypeOK
  <2>b. watch'.db = watch.db /\ (watch'.left >= 0 => watch.left >= 0)
    BY <1>t, Bounds DEF TypeOK
  <2>1. BackupsOrdered'
    BY DEF BackupsOrdered
  <2>2. ProcessesOk'
    BY DEF ProcessesOk, RequestsOk, TypeOK, Servers, Lifecycles
  <2>3. RequestsOk'
    BY DEF RequestsOk, ProcessesOk, TypeOK, Servers, MarkerOk, Lifecycles
  <2>4. ApplyOk'
    BY DEF ApplyOk, ProcessesOk, RequestsOk, SchemaOk
  <2>5. RollbackOk'
    BY DEF ProcessesOk, RollbackOk, PendingFileOk
  <2>6. PendingFileOk'
    BY <2>a, <2>b DEF PendingFileOk
  <2>7. MarkerOk'
    BY DEF MarkerOk, TypeOK, Servers, Lifecycles, ProcessesOk, RequestsOk
  <2>8. SchemaOk'
    BY DEF SchemaOk, TypeOK, Servers, ProcessesOk, ApplyOk
  <2> QED
    BY <1>t, <2>1, <2>2, <2>3, <2>4, <2>5, <2>6, <2>7, <2>8
<1>2. CASE Shutdown
  <2> USE <1>2 DEF Shutdown, VolatileLost, NoCall, NoLifecycle, Disarmed, NoServer
  <2>1. BackupsOrdered'
    BY DEF BackupsOrdered
  <2>2. ProcessesOk'
    BY DEF ProcessesOk, RequestsOk, TypeOK, Servers, Lifecycles
  <2>3. RequestsOk'
    BY DEF RequestsOk, ProcessesOk, TypeOK, Servers, MarkerOk, Lifecycles
  <2>4. ApplyOk'
    BY DEF ApplyOk, ProcessesOk, RequestsOk, SchemaOk
  <2>5. RollbackOk'
    BY DEF ProcessesOk, RollbackOk, PendingFileOk
  <2>6. PendingFileOk'
    BY DEF PendingFileOk, ProcessesOk, RequestsOk
  <2>7. MarkerOk'
    BY DEF MarkerOk, TypeOK, Servers, Lifecycles, ProcessesOk, RequestsOk
  <2>8. SchemaOk'
    BY DEF SchemaOk, TypeOK, Servers, ProcessesOk, ApplyOk
  <2> QED
    BY <1>t, <2>1, <2>2, <2>3, <2>4, <2>5, <2>6, <2>7, <2>8
<1>3. CASE PowerLoss
  <2> USE <1>3 DEF PowerLoss, VolatileLost, NoCall, NoLifecycle, Disarmed, NoServer
  <2>a. pc \in Harmless
    BY DEF HarmlessLosses
  <2>b. backup' = backup /\ current' = current
    BY <2>a DEF Harmless, ApplyOk, Prepared
  <2>1. BackupsOrdered'
    BY DEF BackupsOrdered
  <2>2. ProcessesOk'
    BY DEF ProcessesOk, TypeOK
  <2>3. RequestsOk'
    BY DEF RequestsOk, TypeOK
  <2>4. ApplyOk'
    BY DEF ApplyOk
  <2>5. RollbackOk'
    BY DEF RollbackOk
  <2>6. PendingFileOk'
    BY <2>a, <2>b DEF Harmless, PendingFileOk, ApplyOk, RollbackOk, Prepared
  <2>7. MarkerOk'
    BY <2>a, <2>b DEF Harmless, MarkerOk, ProcessesOk, ApplyOk, RollbackOk, Prepared,
                     PendingFileOk
  <2>8. SchemaOk'
    BY <2>a, <2>b DEF Harmless, SchemaOk
  <2> QED
    BY <1>t, <2>1, <2>2, <2>3, <2>4, <2>5, <2>6, <2>7, <2>8
<1>4. CASE LauncherBoots
  <2> USE <1>4 DEF LauncherBoots
  <2>1. BackupsOrdered'
    BY DEF BackupsOrdered
  <2>2. ProcessesOk'
    BY DEF ProcessesOk, RequestsOk, TypeOK, Servers, Lifecycles
  <2>3. RequestsOk'
    BY DEF RequestsOk, ProcessesOk, TypeOK, Servers, MarkerOk, Lifecycles
  <2>4. ApplyOk'
    BY DEF ApplyOk, ProcessesOk, RequestsOk, SchemaOk
  <2>5. RollbackOk'
    BY DEF ProcessesOk, RollbackOk, PendingFileOk
  <2>6. PendingFileOk'
    BY DEF PendingFileOk, ProcessesOk, RequestsOk
  <2>7. MarkerOk'
    BY DEF MarkerOk, TypeOK, Servers, Lifecycles, ProcessesOk, RequestsOk
  <2>8. SchemaOk'
    BY DEF SchemaOk, TypeOK, Servers, ProcessesOk, ApplyOk
  <2> QED
    BY <1>t, <2>1, <2>2, <2>3, <2>4, <2>5, <2>6, <2>7, <2>8
<1> QED
  BY <1>1, <1>2, <1>3, <1>4


-----------------------------------------------------------------------------
\* Every reachable state satisfies the invariant.
LEMMA Invariance == ASSUME Orderly PROVE Spec => []IInv
<1>1. Init => IInv
  BY InitInv
<1>2. IInv /\ [Next]_vars => IInv'
  <2> SUFFICES ASSUME IInv, [Next]_vars PROVE IInv'
    OBVIOUS
  <2>1. CASE Next
    BY <2>1, ServerInv, LoopInv, SwapInv, MachineInv DEF Next
  <2>2. CASE UNCHANGED vars
    BY <2>2 DEF vars, dirs, data, control, IInv, TypeOK, BackupsOrdered, ProcessesOk, RequestsOk,
                ApplyOk, RollbackOk, PendingFileOk, MarkerOk, SchemaOk
  <2> QED
    BY <2>1, <2>2
<1> QED
  BY <1>1, <1>2, PTL DEF Spec

\* Whenever an old application is kept, the pending file names a DB backup that
\* holds that application's schema: the target of a rollback is never lost, for
\* any number of releases, backups, crashes and restarts.
THEOREM RollbackTargetKept == ASSUME Orderly PROVE Spec => []RollbackTargetExact
<1>1. IInv => RollbackTargetExact
  BY DEF IInv, PendingFileOk, RollbackTargetExact, AtRest
<1> QED
  BY <1>1, Invariance, PTL

\* No server of an older release is started over a newer schema.
THEOREM SchemaNeverNewer == ASSUME Orderly PROVE Spec => []NeverNewerSchema
<1>1. IInv => NeverNewerSchema
  BY DEF IInv, ProcessesOk, SchemaOk, NeverNewerSchema
<1> QED
  BY <1>1, Invariance, PTL

\* The status a running server shows is what the launcher will act upon.
THEOREM StatusAgrees == ASSUME Orderly PROVE Spec => []StatusTruthful
<1>1. IInv => StatusTruthful
  BY DEF IInv, ProcessesOk, MarkerOk, StatusTruthful
<1> QED
  BY <1>1, Invariance, PTL

\* The application kept for an unconfirmed update is never discarded by the next.
THEOREM UnconfirmedSurvives == ASSUME Orderly PROVE Spec => []UnconfirmedKept
<1>1. IInv => UnconfirmedKept
  BY DEF IInv, ApplyOk, UnconfirmedKept
<1> QED
  BY <1>1, Invariance, PTL

-----------------------------------------------------------------------------
(***************************************************************************)
(* The refinement.  Under the invariant the abstract state is a function   *)
(* of four things: the two directories, the schema and the control point.  *)
(***************************************************************************)

\* What an update that is about to be recorded replaces is the pair of its server,
\* and a rollback that begins finds the DB backup the pending file names.
SwitchOk ==
    /\ lifecycle.action = "update" => db.schema = current
    /\ pc \in {"apply.rm", "apply.moveCurrent"} => db.schema = current
    /\ pc \in {"apply.moveStaging", "apply.record"} => db.schema = backup
    /\ pc = "apply.record" => backup < current
    /\ pc = "roll.rm" => Saved(pendingFile.db, backup)

Moving == {"apply.moveStaging", "apply.record", "roll.move"}

\* The abstract state without the DB backups.
Mapped ==
    /\ Installed = IF pc \in Moving THEN backup ELSE current
    /\ SchemaNow = IF pc = "roll.move" THEN backup
                   ELSE IF pc = "roll.restore" THEN current ELSE db.schema
    /\ KeptPair = IF backup = NoDir \/ pc \in Moving \cup {"roll.restore"}
                  THEN Contract!Nothing
                  ELSE [release |-> backup, schema |-> backup]

\* A DB backup is found by its name.
LEMMA SavedIs ==
    ASSUME BackupsOrdered, NEW id, NEW version, NEW else, Saved(id, version)
    PROVE  SchemaOf(id, else) = version
<1>1. PICK b \in dbBackups : b.id = id /\ b.schema = version
  OBVIOUS
<1>2. \A c \in dbBackups : c.id = id => c = b
  BY <1>1 DEF BackupsOrdered
<1>3. (CHOOSE c \in dbBackups : c.id = id) = b
  BY <1>1, <1>2
<1> QED
  BY <1>1, <1>3 DEF SchemaOf

LEMMA MappingIs == IInv /\ SwitchOk => Mapped
<1> SUFFICES ASSUME IInv, SwitchOk PROVE Mapped
  OBVIOUS
<1>1. BackupsOrdered /\ RollbackOk /\ PendingFileOk /\ ApplyOk
  BY DEF IInv
<1>2. Installed = IF pc \in Moving THEN backup ELSE current
  BY DEF Installed, Applying, Moving
<1>3. SchemaNow = IF pc = "roll.move" THEN backup
                  ELSE IF pc = "roll.restore" THEN current ELSE db.schema
  <2>1. CASE pc = "roll.move"
    <3>1. Saved(RestoreTarget, backup)
      BY <1>1, <2>1 DEF RollbackOk
    <3>2. SchemaOf(RestoreTarget, db.schema) = backup
      BY <1>1, <3>1, SavedIs
    <3> QED
      BY <2>1, <3>2 DEF SchemaNow, RollingBack
  <2>2. CASE pc = "roll.restore"
    <3>1. Saved(RestoreTarget, current)
      BY <1>1, <2>2 DEF RollbackOk
    <3>2. SchemaOf(RestoreTarget, db.schema) = current
      BY <1>1, <3>1, SavedIs
    <3> QED
      BY <2>2, <3>2 DEF SchemaNow, RollingBack
  <2>3. CASE pc \notin {"roll.move", "roll.restore"}
    BY <2>3 DEF SchemaNow, RollingBack
  <2> QED
    BY <2>1, <2>2, <2>3
<1>4. KeptPair = IF backup = NoDir \/ pc \in Moving \cup {"roll.restore"}
                 THEN Contract!Nothing
                 ELSE [release |-> backup, schema |-> backup]
  <2>1. CASE backup = NoDir \/ pc \in Moving \cup {"roll.restore"}
    BY <2>1 DEF KeptPair, Contract!Nothing, Applying, RollingBack, Moving
  <2>2. CASE ~(backup = NoDir \/ pc \in Moving \cup {"roll.restore"})
    <3>1. Saved(pendingFile.db, backup)
      <4>1. CASE pc \in {"apply.rm", "apply.moveCurrent"}
        BY <1>1, <2>2, <4>1 DEF ApplyOk
      <4>2. CASE pc = "roll.rm"
        BY <4>2 DEF SwitchOk
      <4>3. CASE pc = "roll.clear"
        BY <1>1, <2>2, <4>3 DEF RollbackOk
      <4>4. CASE Settled
        BY <1>1, <2>2, <4>4 DEF PendingFileOk
      <4> QED
        BY <2>2, <4>1, <4>2, <4>3, <4>4 DEF Moving
    <3>2. SchemaOf(pendingFile.db, db.schema) = backup
      BY <1>1, <3>1, SavedIs
    <3> QED
      BY <2>2, <3>2 DEF KeptPair, Applying, RollingBack, Moving
  <2> QED
    BY <2>1, <2>2
<1> QED
  BY <1>2, <1>3, <1>4 DEF Mapped

LEMMA MappingNext == IInv' /\ SwitchOk' => Mapped'
  BY MappingIs, PTL

\* Steps that touch neither directories, schema, control point nor what is noted.
Aside == /\ UNCHANGED <<current, backup, pc, lifecycle>> /\ db'.schema = db.schema
         /\ UNCHANGED <<dbBackups, pendingFile>> \/ server.state = "up"

\* A server that boots finds nothing noted and no switch under way.
LEMMA BootAlone ==
    ASSUME IInv, ServerBoots
    PROVE  lifecycle.action = "none" /\ pc \notin ApplySteps \cup RollbackSteps
  BY DEF IInv, ProcessesOk, ServerBoots

LEMMA ServerAside == ASSUME Orderly, IInv, ServerNext PROVE Aside \/ ServerBoots
<1> USE DEF Aside, dirs, data, control
<1>t. db \in [schema : Versions, marker : BOOLEAN]
  BY DEF IInv, TypeOK
<1>1. CASE StageDeployment
  BY <1>1 DEF StageDeployment
<1>2. CASE StageCompletes
  BY <1>t, <1>2 DEF StageCompletes, IInv, ProcessesOk
<1>3. CASE StageBackupFails
  BY <1>3 DEF StageBackupFails
<1>4. CASE ApplyStagedUpdate
  BY <1>4 DEF ApplyStagedUpdate
<1>5. CASE ConfirmUpdate
  BY <1>t, <1>5 DEF ConfirmUpdate
<1>6. CASE RequestRollback
  BY <1>t, <1>6 DEF RequestRollback
<1>7. CASE InstallCloudUpdate
  BY <1>7 DEF InstallCloudUpdate
<1>8. CASE CloudArchiveArrives
  BY <1>8 DEF CloudArchiveArrives
<1>9. CASE ManageBackups
  BY <1>9 DEF ManageBackups
<1> QED
  BY <1>1, <1>2, <1>3, <1>4, <1>5, <1>6, <1>7, <1>8, <1>9 DEF ServerNext

\* A server runs only while the launcher is in no switch.
LEMMA NoSwitch ==
    ASSUME IInv, server.state # "none"
    PROVE  pc \notin ApplySteps \cup RollbackSteps
  BY DEF IInv, ProcessesOk

LEMMA ServerSwitch == ASSUME Orderly, IInv, SwitchOk, ServerNext PROVE SwitchOk'
<1>1. CASE ServerBoots
  BY <1>1, BootAlone DEF SwitchOk, ServerBoots, dirs, control
<1>2. CASE Aside /\ server.state = "up"
  BY <1>2, NoSwitch DEF SwitchOk, Aside
<1>3. CASE Aside /\ UNCHANGED <<dbBackups, pendingFile>>
  BY <1>3 DEF SwitchOk, Aside
<1> QED
  BY <1>1, <1>2, <1>3, ServerAside DEF Aside

LEMMA LoopSwitch == ASSUME Orderly, IInv, SwitchOk, LoopNext PROVE SwitchOk'
<1>t. db \in [schema : Versions, marker : BOOLEAN] /\ outbox \in Seq(Messages)
  BY DEF IInv, TypeOK
<1> USE DEF dirs, data
\* A rollback begins from a settled point, where the pending file is right.
<1>r. Settled /\ backup # NoDir => Saved(pendingFile.db, backup)
  BY DEF IInv, PendingFileOk
<1>1. CASE StartServer
  <2>1. Settled /\ (pc' = "roll.rm" => backup # NoDir) /\ pc' \in {"down", "roll.rm", "fork"}
    BY <1>1 DEF StartServer
  <2> QED
    BY <1>1, <1>r, <2>1 DEF SwitchOk, StartServer
<1>2. CASE Fork
  BY <1>2 DEF SwitchOk, Fork
<1>3. CASE ReceiveLifecycle
  <2>1. server.state = "up"
    BY <1>3 DEF IInv, ProcessesOk, ReceiveLifecycle
  <2>2. db.schema = current
    BY <2>1 DEF IInv, SchemaOk
  <2> QED
    BY <1>3, <2>2 DEF SwitchOk, ReceiveLifecycle
<1>4. CASE ReceiveConfirm
  BY <1>4 DEF SwitchOk, ReceiveConfirm
<1>5. CASE ServerExits
  <2>1. lifecycle'.action = "none" /\ UNCHANGED <<current, backup, pendingFile, db, dbBackups>> /\ pc = "idle"
    BY <1>5 DEF ServerExits, NoLifecycle
  <2>2. \/ pc' = "idle"
        \/ pc' = "roll.rm" /\ backup # NoDir
        \/ pc' = "apply.rm" /\ lifecycle.action = "update"
    BY <1>5, <2>1 DEF ServerExits, ExitForUpdate, ExitForRollback, ExitByCrash, ExitCleanly, BeginRollback
  <2> QED
    BY <1>r, <2>1, <2>2 DEF SwitchOk
<1>6. CASE WatchdogFires
  <2>1. UNCHANGED <<current, backup, pendingFile, db, dbBackups>> /\ pc = "idle"
    BY <1>6 DEF WatchdogFires
  <2>2. /\ pc' = "idle" \/ (pc' = "roll.rm" /\ backup # NoDir)
        /\ lifecycle' = lifecycle \/ lifecycle'.action = "rollback"
    BY <1>6, <2>1 DEF WatchdogFires, BeginRollback
  <2> QED
    BY <1>r, <2>1, <2>2 DEF SwitchOk
<1> QED
  BY <1>1, <1>2, <1>3, <1>4, <1>5, <1>6 DEF LoopNext

LEMMA SwapSwitch == ASSUME Orderly, IInv, SwitchOk, SwapNext PROVE SwitchOk'
<1> USE DEF dirs, data, SwapFrame
<1>n. (server.state = "none" /\ lifecycle.action = "none") \/ pc \in ClearSteps
  BY DEF IInv, ProcessesOk, SwapNext, ApplyRemovesBackup, ApplyMovesCurrent, ApplyMovesStaging,
     ApplyRecordsPending, RollbackRemovesCurrent, RollbackMovesBackup, RollbackRestoresDatabase,
     RollbackClearsPending, ClearRemovesBackup, ClearUnlinksPending
<1>c. call.then \in {"idle", "fork"}
  BY DEF IInv, TypeOK
<1>1. CASE ApplyRemovesBackup
  BY <1>1 DEF ApplyRemovesBackup, SwitchOk
<1>2. CASE ApplyMovesCurrent
  <2>1. current # NoDir
    BY <1>2, Bounds DEF ApplyMovesCurrent, IInv, SchemaOk
  <2> QED
    BY <1>2, <1>n, <2>1 DEF ApplyMovesCurrent, SwitchOk
<1>3. CASE ApplyMovesStaging
  <2>1. backup < staging
    BY <1>3 DEF ApplyMovesStaging, IInv, ApplyOk, SchemaOk
  <2> QED
    BY <1>3, <1>n, <2>1 DEF ApplyMovesStaging, SwitchOk
<1>4. CASE ApplyRecordsPending
  BY <1>4, <1>c, <1>n DEF ApplyRecordsPending, SwitchOk
<1>5. CASE RollbackRemovesCurrent
  BY <1>5, <1>n DEF RollbackRemovesCurrent, SwitchOk
<1>6. CASE RollbackMovesBackup
  BY <1>6, <1>n DEF RollbackMovesBackup, SwitchOk
<1>7. CASE RollbackRestoresDatabase
  BY <1>7, <1>c, <1>n DEF RollbackRestoresDatabase, SwitchOk
<1>8. CASE RollbackClearsPending
  BY <1>8, <1>c, <1>n DEF RollbackClearsPending, SwitchOk
<1>9. CASE ClearRemovesBackup
  BY <1>9 DEF ClearRemovesBackup, SwitchOk
<1>10. CASE ClearUnlinksPending
  BY <1>10 DEF ClearUnlinksPending, SwitchOk
<1> QED
  BY <1>1, <1>2, <1>3, <1>4, <1>5, <1>6, <1>7, <1>8, <1>9, <1>10 DEF SwapNext

LEMMA MachineSwitch ==
    ASSUME Orderly, IInv, SwitchOk, Tick \/ Shutdown \/ PowerLoss \/ LauncherBoots PROVE SwitchOk'
<1> USE DEF dirs, data
<1>1. CASE Tick
  <2>1. pendingFile'.db = pendingFile.db
    BY <1>1, Bounds DEF Tick, IInv, TypeOK, NoFile
  <2> QED
    BY <1>1, <2>1 DEF Tick, SwitchOk
<1>2. CASE Shutdown
  BY <1>2 DEF Shutdown, VolatileLost, NoLifecycle, SwitchOk
<1>3. CASE PowerLoss
  BY <1>3 DEF PowerLoss, VolatileLost, NoLifecycle, SwitchOk
<1>4. CASE LauncherBoots
  BY <1>4 DEF LauncherBoots, SwitchOk
<1> QED
  BY <1>1, <1>2, <1>3, <1>4

-----------------------------------------------------------------------------
(* Every step is one of the contract, or none.                               *)

Still == UNCHANGED <<Installed, SchemaNow, KeptPair>>

\* Nothing moves: only what the directories and the schema are counts.
LEMMA SameView ==
    ASSUME Mapped, Mapped', UNCHANGED <<current, backup>>, db'.schema = db.schema,
           pc' = pc \/ {pc, pc'} \cap (Moving \cup {"roll.restore"}) = {}
    PROVE  Still
  BY DEF Mapped, Moving, Still

LEMMA ServerStep ==
    ASSUME Orderly, IInv, Mapped, Mapped', ServerNext
    PROVE  Still \/ Contract!Migrate
<1>1. CASE Aside
  BY <1>1, SameView DEF Aside
<1>2. CASE ServerBoots
  <2>1. /\ UNCHANGED <<current, backup, pc>> /\ db'.schema = current /\ db.schema <= current
        /\ pc \notin Moving \cup {"roll.restore"}
    BY <1>2, BootAlone DEF ServerBoots, Bootable, dirs, control, Moving
  <2>2. /\ Installed = current /\ Installed' = current /\ SchemaNow = db.schema
        /\ SchemaNow' = current /\ KeptPair' = KeptPair
    BY <2>1 DEF Mapped, Moving
  <2>3. current \in Int /\ db.schema \in Int
    BY Numbers DEF IInv
  <2> QED
    BY <2>1, <2>2, <2>3 DEF Contract!Migrate, Still
<1> QED
  BY <1>1, <1>2, ServerAside

LEMMA LoopStep ==
    ASSUME Orderly, IInv, Mapped, Mapped', LoopNext
    PROVE  Still
<1>1. UNCHANGED <<current, backup, db>>
  BY DEF LoopNext, StartServer, Fork, ReceiveLifecycle, ReceiveConfirm, ServerExits, WatchdogFires,
         dirs, data
<1>2. pc \in {"start", "idle", "fork"}
  BY DEF LoopNext, StartServer, Fork, ReceiveLifecycle, ReceiveConfirm, ServerExits, WatchdogFires
<1>3. pc' \in {"down", "fork", "idle", "clear.rm", "roll.rm", "apply.rm"}
  BY <1>2 DEF LoopNext, StartServer, Fork, ReceiveLifecycle, ReceiveConfirm, ServerExits, WatchdogFires,
     ExitForUpdate, ExitForRollback, ExitByCrash, ExitCleanly, BeginRollback
<1> QED
  BY <1>1, <1>2, <1>3, SameView DEF Moving

\* The update takes effect when it is recorded, the rollback when it begins to remove
\* the new release, the confirmation when the old one is removed.
LEMMA SwapStep ==
    ASSUME Orderly, IInv, SwitchOk, Mapped, Mapped', SwapNext
    PROVE  Still \/ Contract!Apply \/ Contract!RollBack \/ Contract!Confirm
<1> USE DEF dirs, data
<1>c. call.then \in {"idle", "fork"} /\ current \in Dirs /\ backup \in Dirs
  BY DEF IInv, TypeOK
<1>1. CASE ApplyRemovesBackup
  <2>1. backup = NoDir
    BY <1>1 DEF ApplyRemovesBackup, IInv, ApplyOk
  <2> QED
    BY <1>1, <2>1, SameView DEF ApplyRemovesBackup, Moving
<1>2. CASE ApplyMovesCurrent
  <2>1. backup = NoDir /\ current # NoDir
    BY <1>2, Bounds DEF ApplyMovesCurrent, IInv, ApplyOk, SchemaOk
  <2>2. backup' = current /\ db' = db /\ pc = "apply.moveCurrent" /\ pc' = "apply.moveStaging"
    BY <1>2, <2>1 DEF ApplyMovesCurrent
  <2> QED
    BY <2>1, <2>2 DEF Mapped, Still, Moving
<1>3. CASE ApplyMovesStaging
  BY <1>3 DEF ApplyMovesStaging, Mapped, Still, Moving
<1>4. CASE ApplyRecordsPending
  <2>1. /\ pc = "apply.record" /\ pc' = "idle" /\ UNCHANGED <<current, backup, db>>
    BY <1>4 DEF ApplyRecordsPending, IInv, ProcessesOk
  <2>2. backup \in Versions /\ current \in Versions /\ backup < current /\ db.schema = backup
    BY <2>1 DEF IInv, ApplyOk, SchemaOk, SwitchOk
  <2>3. backup # NoDir
    BY <2>2, Bounds
  <2>4. Installed = backup /\ SchemaNow = backup /\ KeptPair = Contract!Nothing
    BY <2>1, <2>2 DEF Mapped, Moving
  <2>5. Installed' = current /\ SchemaNow' = backup /\ KeptPair' = [release |-> backup, schema |-> backup]
    BY <2>1, <2>2, <2>3 DEF Mapped, Moving
  <2> QED
    BY <2>2, <2>4, <2>5 DEF Contract!Apply
<1>5. CASE RollbackRemovesCurrent
  <2>1. /\ pc = "roll.rm" /\ pc' = "roll.move" /\ UNCHANGED <<backup, db>>
    BY <1>5 DEF RollbackRemovesCurrent
  <2>2. backup \in Versions
    BY <2>1 DEF IInv, RollbackOk
  <2>3. backup # NoDir
    BY <2>2, Bounds
  <2>4. KeptPair = [release |-> backup, schema |-> backup] /\ KeptPair # Contract!Nothing
    BY <2>1, <2>3 DEF Mapped, Moving, Contract!Nothing
  <2>5. Installed' = backup /\ SchemaNow' = backup /\ KeptPair' = Contract!Nothing
    BY <2>1 DEF Mapped, Moving
  <2> QED
    BY <2>4, <2>5 DEF Contract!RollBack
<1>6. CASE RollbackMovesBackup
  BY <1>6 DEF RollbackMovesBackup, Mapped, Still, Moving
<1>7. CASE RollbackRestoresDatabase
  <2>1. pc = "roll.restore" /\ UNCHANGED <<current, backup>> /\ backup = NoDir
    BY <1>7 DEF RollbackRestoresDatabase, IInv, RollbackOk
  <2>2. PICK b \in dbBackups : b.id = RestoreTarget /\ b.schema = current
    BY <2>1 DEF IInv, RollbackOk
  <2>3. RestoreTarget # NoDb
    BY <2>2, Numbers DEF IInv
  <2>4. pc' = "roll.clear" /\ db'.schema = current
    BY <1>7, <2>2, <2>3 DEF RollbackRestoresDatabase, IInv, BackupsOrdered
  <2> QED
    BY <2>1, <2>4 DEF Mapped, Still, Moving
<1>8. CASE RollbackClearsPending
  BY <1>8, <1>c, SameView DEF RollbackClearsPending, Moving
<1>9. CASE ClearRemovesBackup
  <2>1. pc = "clear.rm" /\ pc' = "clear.unlink" /\ UNCHANGED <<current, db>> /\ backup' = NoDir
    BY <1>9 DEF ClearRemovesBackup
  <2>2. CASE backup = NoDir
    BY <2>1, <2>2, SameView DEF Moving
  <2>3. CASE backup # NoDir
    <3>1. KeptPair # Contract!Nothing /\ KeptPair' = Contract!Nothing
      BY <2>1, <2>3 DEF Mapped, Moving, Contract!Nothing
    <3>2. UNCHANGED <<Installed, SchemaNow>>
      BY <2>1 DEF Mapped, Moving
    <3> QED
      BY <3>1, <3>2 DEF Contract!Confirm
  <2> QED
    BY <2>2, <2>3
<1>10. CASE ClearUnlinksPending
  BY <1>10, SameView DEF ClearUnlinksPending, Moving
<1> QED
  BY <1>1, <1>2, <1>3, <1>4, <1>5, <1>6, <1>7, <1>8, <1>9, <1>10 DEF SwapNext

LEMMA MachineStep ==
    ASSUME Orderly, IInv, Mapped, Mapped', Tick \/ Shutdown \/ PowerLoss \/ LauncherBoots
    PROVE  Still
<1> USE DEF dirs, data
<1>1. CASE Tick
  BY <1>1, SameView DEF Tick
<1>2. CASE Shutdown
  BY <1>2, SameView DEF Shutdown, VolatileLost, Moving
<1>3. CASE PowerLoss
  <2>1. pc \in Harmless /\ pc' = "down" /\ UNCHANGED db
    BY <1>3 DEF PowerLoss, VolatileLost, HarmlessLosses
  <2>2. UNCHANGED <<current, backup>>
    BY <1>3, <2>1 DEF PowerLoss, Harmless, IInv, ApplyOk
  <2> QED
    BY <2>1, <2>2, SameView DEF Harmless, Moving
<1>4. CASE LauncherBoots
  BY <1>4, SameView DEF LauncherBoots, Moving
<1> QED
  BY <1>1, <1>2, <1>3, <1>4

\* The launcher, the server and their files implement the contract of an update: application
\* and schema are switched, kept, confirmed and brought back as one pair, wherever the
\* eight file-system calls of a switch and a rollback stand.
THEOREM ContractImplemented == ASSUME Orderly PROVE Spec => ImplementsContract
<1> USE Orderly
<1>1. Init => IInv /\ SwitchOk /\ Contract!ContractInit
  <2> SUFFICES ASSUME Init PROVE IInv /\ SwitchOk /\ Contract!ContractInit
    OBVIOUS
  <2>1. IInv
    BY InitInv
  <2>2. SwitchOk
    BY DEF Init, SwitchOk, NoLifecycle
  <2>3. Mapped
    BY <2>1, <2>2, MappingIs
  <2>4. Contract!ContractInit
    BY <2>3 DEF Init, Mapped, Moving, Contract!ContractInit
  <2> QED
    BY <2>1, <2>2, <2>4
<1>2. IInv /\ SwitchOk /\ [Next]_vars => SwitchOk'
  <2> SUFFICES ASSUME IInv, SwitchOk, [Next]_vars PROVE SwitchOk'
    OBVIOUS
  <2>1. CASE UNCHANGED vars
    BY <2>1 DEF vars, dirs, data, control, SwitchOk
  <2> QED
    BY <2>1, ServerSwitch, LoopSwitch, SwapSwitch, MachineSwitch DEF Next
<1>3. IInv /\ IInv' /\ SwitchOk /\ SwitchOk' /\ [Next]_vars
         => [Contract!ContractNext]_(Contract!contractVars)
  <2> SUFFICES ASSUME IInv, IInv', SwitchOk, SwitchOk', [Next]_vars
               PROVE  Contract!ContractNext \/ UNCHANGED <<Installed, SchemaNow, KeptPair>>
    BY DEF Contract!contractVars
  <2>1. Mapped /\ Mapped'
    BY MappingIs, MappingNext
  <2>2. CASE UNCHANGED vars
    BY <2>1, <2>2, SameView DEF vars, dirs, data, control, Still
  <2>3. CASE Next
    BY <2>1, <2>3, ServerStep, LoopStep, SwapStep, MachineStep DEF Next, Still, Contract!ContractNext
  <2> QED
    BY <2>2, <2>3
<1>4. Spec => []IInv
  BY Invariance
<1> QED
  BY <1>1, <1>2, <1>3, <1>4, PTL DEF Spec, ImplementsContract, Contract!ContractSpec

-----------------------------------------------------------------------------
(***************************************************************************)
(* A complete application stays on disk.  This needs no careful            *)
(* administrator: only that the power does not fail in the middle of one   *)
(* of the two removals of backup/.                                         *)
(***************************************************************************)
Whole == PowerLossAt \cap {"apply.rm", "clear.rm"} = {}

\* A server exists only between the launcher's sequences, and only a running one has
\* begun anything.
ServerOk ==
    /\ server.state # "none" => pc \in {"idle"} \cup ClearSteps /\ ~startDue
    /\ pc \in ClearSteps => server.state = "up"
    /\ server.state # "up" =>
          /\ server.due = NoDb /\ ~server.deploying /\ server.cloud = "idle"
          /\ outbox = <<>> /\ lifecycle.action # "update"
    /\ pc = "fork" \/ (pc \in RollbackSteps /\ call.then = "fork") => ~startDue
    /\ pc \in ApplySteps => call.then = "idle"

\* What each step of a switch and of a rollback finds in the directories.
FilesOk ==
    /\ backup # Torn
    /\ AppOnDisk
    /\ server.state = "up" => current \in Versions
    /\ pc \in {"apply.rm", "apply.moveCurrent"} => current \in Versions /\ staging # NoDir
    /\ pc = "apply.moveStaging" => staging # NoDir /\ backup \in Versions
    /\ pc \in {"roll.rm", "roll.move"} => backup \in Versions

DiskInv == TypeOK /\ ServerOk /\ FilesOk

\* Steps of the server: it runs, and the directories it works on are not those that count.
LEMMA ServerDisk == ASSUME DiskInv, ServerNext PROVE ServerOk' /\ FilesOk'
<1> USE DEF DiskInv
<1>s. server \in Servers /\ current \in Dirs /\ staging \in Versions \cup {NoDir}
  BY DEF TypeOK
<1>1. UNCHANGED <<current, backup, control>>
  BY DEF ServerNext, ServerBoots, StageDeployment, StageCompletes, StageBackupFails,
     ApplyStagedUpdate, ConfirmUpdate, RequestRollback, InstallCloudUpdate,
     CloudArchiveArrives, ManageBackups, dirs, control
<1>2. server.state # "none" /\ server'.state # "none" /\ (server.state = "up" => server'.state = "up")
  <2>1. server.state # "none"
    BY DEF ServerNext, ServerBoots, StageDeployment, Serving, StageCompletes, StageBackupFails,
       ApplyStagedUpdate, ConfirmUpdate, RequestRollback, InstallCloudUpdate,
       CloudArchiveArrives, ManageBackups, ServerOk
  <2>2. server'.state \in {server.state, "up"}
    BY <1>s DEF ServerNext, ServerBoots, StageDeployment, StageCompletes, StageBackupFails,
       ApplyStagedUpdate, ConfirmUpdate, RequestRollback, InstallCloudUpdate,
       CloudArchiveArrives, ManageBackups, Servers
  <2> QED
    BY <2>1, <2>2
<1>3. server'.state = "up"
  BY <1>s DEF ServerNext, ServerBoots, StageDeployment, Serving, StageCompletes, StageBackupFails,
     ApplyStagedUpdate, ConfirmUpdate, RequestRollback, InstallCloudUpdate,
     CloudArchiveArrives, ManageBackups, ServerOk, Servers
<1>4. current \in Versions
  <2>1. ServerBoots \/ server.state = "up" \/ server.state # "booting"
    BY DEF ServerNext, StageDeployment, Serving, StageCompletes, StageBackupFails,
       ApplyStagedUpdate, ConfirmUpdate, RequestRollback, InstallCloudUpdate,
       CloudArchiveArrives, ManageBackups, ServerOk
  <2>2. CASE ServerBoots
    BY <1>s, <2>2, Bounds DEF ServerBoots, Bootable, ServerOk, FilesOk, TypeOK
  <2>3. CASE ~ServerBoots
    <3>1. server.state = "up"
      BY <1>2, <1>s, <2>1, <2>3 DEF Servers
    <3> QED
      BY <3>1, <1>s DEF FilesOk, ServerOk, TypeOK
  <2> QED
    BY <2>2, <2>3
<1>5. pc \in {"idle"} \cup ClearSteps
  BY <1>2 DEF ServerOk
<1>6. ServerOk'
  BY <1>1, <1>2, <1>3, <1>5 DEF ServerOk, control
<1>7. FilesOk'
  BY <1>1, <1>4, <1>5 DEF FilesOk, AppOnDisk, control
<1> QED
  BY <1>6, <1>7

\* Steps of the event loop touch no directory; a switch or a rollback begins from what
\* it finds there.
LEMMA LoopDisk == ASSUME DiskInv, LoopNext PROVE ServerOk' /\ FilesOk'
<1> USE DEF DiskInv, dirs, data
<1>t. server \in Servers /\ outbox \in Seq(Messages) /\ backup \in Dirs /\ lifecycle \in Lifecycles
  BY DEF TypeOK
<1>1. CASE StartServer
  <2>1. server.state = "none" /\ outbox = <<>> /\ backup \in Versions \cup {NoDir}
    BY <1>1, <1>t DEF StartServer, ServerOk, FilesOk
  <2>2. /\ pc' \in {"down", "fork"} \/ (pc' = "roll.rm" /\ backup # NoDir)
        /\ ~startDue' /\ UNCHANGED <<dirs, server, outbox, lifecycle>>
    BY <1>1 DEF StartServer
  <2>3. ServerOk'
    BY <2>1, <2>2 DEF ServerOk
  <2>4. FilesOk'
    BY <2>1, <2>2 DEF FilesOk, AppOnDisk
  <2> QED
    BY <2>3, <2>4
<1>2. CASE Fork
  <2>1. server'.state = "booting" /\ server'.due = NoDb /\ ~server'.deploying
        /\ server'.cloud = "idle"
    BY <1>2 DEF Fork, NoServer
  <2>2. server.state = "none" /\ ~startDue
    BY <1>2 DEF Fork, ServerOk
  <2>3. ServerOk'
    BY <1>2, <2>1, <2>2 DEF Fork, ServerOk
  <2>4. FilesOk'
    BY <1>2, <2>1 DEF Fork, FilesOk, AppOnDisk
  <2> QED
    BY <2>3, <2>4
<1>3. CASE ReceiveLifecycle
  <2>1. server.state = "up" /\ server'.state = "up" /\ pc' = "idle" /\ ~startDue
    BY <1>3, <1>t DEF ReceiveLifecycle, ServerOk, Servers
  <2>2. ServerOk'
    BY <1>3, <2>1 DEF ReceiveLifecycle, ServerOk
  <2>3. FilesOk'
    BY <1>3, <2>1 DEF ReceiveLifecycle, FilesOk, AppOnDisk
  <2> QED
    BY <2>2, <2>3
<1>4. CASE ReceiveConfirm
  <2>1. server.state = "up" /\ ~startDue
    BY <1>4 DEF ReceiveConfirm, ServerOk
  <2>2. ServerOk'
    BY <1>4, <2>1 DEF ReceiveConfirm, ServerOk
  <2>3. FilesOk'
    BY <1>4, <2>1 DEF ReceiveConfirm, FilesOk, AppOnDisk
  <2> QED
    BY <2>2, <2>3
<1>5. CASE ServerExits
  <2>1. /\ server' = NoServer /\ lifecycle' = NoLifecycle /\ UNCHANGED <<dirs, outbox>>
        /\ outbox = <<>> /\ pc = "idle"
    BY <1>5 DEF ServerExits
  <2>2. \/ pc' = "idle"
        \/ pc' = "roll.rm" /\ backup # NoDir /\ call'.then = "idle"
        \/ /\ pc' = "apply.rm" /\ call'.then = "idle" /\ staging # NoDir
           /\ lifecycle.action = "update"
    BY <1>5, <2>1 DEF ServerExits, ExitForUpdate, ExitForRollback, ExitByCrash, ExitCleanly, BeginRollback
  <2>3. pc' = "apply.rm" => current \in Versions
    BY <2>2 DEF ServerOk, FilesOk
  <2>4. ServerOk'
    BY <2>1, <2>2 DEF ServerOk, NoServer, NoLifecycle
  <2>5. FilesOk'
    BY <1>t, <2>1, <2>2, <2>3 DEF FilesOk, AppOnDisk, NoServer
  <2> QED
    BY <2>4, <2>5
<1>6. CASE WatchdogFires
  <2>1. UNCHANGED <<dirs, outbox, startDue>> /\ pc = "idle"
    BY <1>6 DEF WatchdogFires
  <2>2. /\ server'.state = server.state /\ server'.due = server.due
        /\ server'.deploying = server.deploying /\ server'.cloud = server.cloud
        /\ lifecycle' = lifecycle \/ lifecycle'.action = "rollback"
    <3>1. server' \in {server, [server EXCEPT !.exiting = TRUE]}
      BY <1>6 DEF WatchdogFires
    <3>2. lifecycle' \in {lifecycle, [action |-> "rollback", db |-> watch.db]}
      BY <1>6 DEF WatchdogFires
    <3> QED
      BY <1>t, <3>1, <3>2 DEF Servers
  <2>3. \/ pc' = "idle"
        \/ pc' = "roll.rm" /\ backup # NoDir /\ call'.then = "idle" /\ server.state = "none"
    BY <1>6, <2>1 DEF WatchdogFires, BeginRollback
  <2>4. ServerOk'
    BY <2>1, <2>2, <2>3 DEF ServerOk
  <2>5. FilesOk'
    BY <1>t, <2>1, <2>2, <2>3 DEF FilesOk, AppOnDisk
  <2> QED
    BY <2>4, <2>5
<1> QED
  BY <1>1, <1>2, <1>3, <1>4, <1>5, <1>6 DEF LoopNext

\* Each file-system call leaves a complete application in current/ or in backup/.
LEMMA SwapDisk == ASSUME DiskInv, SwapNext PROVE ServerOk' /\ FilesOk'
<1> USE DEF DiskInv, dirs, data, SwapFrame
<1>t. call.then \in {"idle", "fork"} /\ current \in Dirs /\ staging \in Versions \cup {NoDir}
  BY DEF TypeOK
<1>n. server.state = "none" \/ pc \in ClearSteps
  BY DEF ServerOk, SwapNext, ApplyRemovesBackup, ApplyMovesCurrent, ApplyMovesStaging,
     ApplyRecordsPending, RollbackRemovesCurrent, RollbackMovesBackup, RollbackRestoresDatabase,
     RollbackClearsPending, ClearRemovesBackup, ClearUnlinksPending
<1>1. ServerOk'
  <2>1. UNCHANGED <<server, outbox, lifecycle, startDue>>
    BY DEF SwapNext, ApplyRemovesBackup, ApplyMovesCurrent, ApplyMovesStaging,
       ApplyRecordsPending, RollbackRemovesCurrent, RollbackMovesBackup, RollbackRestoresDatabase,
       RollbackClearsPending, ClearRemovesBackup, ClearUnlinksPending
  <2>2. CASE pc \in ClearSteps
    <3>1. pc' \in {"clear.unlink", "idle"}
      BY <2>2 DEF SwapNext, ApplyRemovesBackup, ApplyMovesCurrent, ApplyMovesStaging,
         ApplyRecordsPending, RollbackRemovesCurrent, RollbackMovesBackup, RollbackRestoresDatabase,
         RollbackClearsPending, ClearRemovesBackup, ClearUnlinksPending
    <3> QED
      BY <2>1, <2>2, <3>1 DEF ServerOk
  <2>3. CASE pc \in ApplySteps
    <3>1. call.then = "idle"
      BY <2>3 DEF ServerOk
    <3>2. pc' = "idle" \/ (pc' \in ApplySteps /\ call' = call)
      BY <2>3, <3>1 DEF SwapNext, ApplyRemovesBackup, ApplyMovesCurrent, ApplyMovesStaging,
         ApplyRecordsPending, RollbackRemovesCurrent, RollbackMovesBackup, RollbackRestoresDatabase,
         RollbackClearsPending, ClearRemovesBackup, ClearUnlinksPending
    <3> QED
      BY <1>n, <2>1, <2>3, <3>1, <3>2 DEF ServerOk
  <2>4. CASE pc \in RollbackSteps
    <3>1. \/ pc' \in RollbackSteps /\ call' = call
          \/ pc' = call.then
      BY <2>4 DEF SwapNext, ApplyRemovesBackup, ApplyMovesCurrent, ApplyMovesStaging,
         ApplyRecordsPending, RollbackRemovesCurrent, RollbackMovesBackup, RollbackRestoresDatabase,
         RollbackClearsPending, ClearRemovesBackup, ClearUnlinksPending
    <3> QED
      BY <1>t, <1>n, <2>1, <2>4, <3>1 DEF ServerOk
  <2>5. pc \in ClearSteps \cup ApplySteps \cup RollbackSteps
    BY DEF SwapNext, ApplyRemovesBackup, ApplyMovesCurrent, ApplyMovesStaging,
       ApplyRecordsPending, RollbackRemovesCurrent, RollbackMovesBackup, RollbackRestoresDatabase,
       RollbackClearsPending, ClearRemovesBackup, ClearUnlinksPending
  <2> QED
    BY <2>2, <2>3, <2>4, <2>5
<1>2. FilesOk'
  <2> USE DEF FilesOk, AppOnDisk
  <2>1. CASE ApplyRemovesBackup
    BY <1>n, <2>1 DEF ApplyRemovesBackup
  <2>2. CASE ApplyMovesCurrent
    BY <1>n, <2>2, Bounds DEF ApplyMovesCurrent
  <2>3. CASE ApplyMovesStaging
    BY <1>n, <1>t, <2>3 DEF ApplyMovesStaging
  <2>4. CASE ApplyRecordsPending
    BY <1>n, <1>t, <2>4 DEF ApplyRecordsPending
  <2>5. CASE RollbackRemovesCurrent
    BY <1>n, <2>5 DEF RollbackRemovesCurrent
  <2>6. CASE RollbackMovesBackup
    BY <1>n, <2>6 DEF RollbackMovesBackup
  <2>7. CASE RollbackRestoresDatabase
    BY <1>n, <1>t, <2>7 DEF RollbackRestoresDatabase
  <2>8. CASE RollbackClearsPending
    BY <1>n, <1>t, <2>8 DEF RollbackClearsPending
  <2>9. CASE ClearRemovesBackup
    BY <2>9 DEF ClearRemovesBackup, ServerOk
  <2>10. CASE ClearUnlinksPending
    BY <2>10 DEF ClearUnlinksPending
  <2> QED
    BY <2>1, <2>2, <2>3, <2>4, <2>5, <2>6, <2>7, <2>8, <2>9, <2>10 DEF SwapNext
<1> QED
  BY <1>1, <1>2

\* A power loss tears at most the directory that is being removed, and the removal of
\* current/ begins only beside a complete backup/.
LEMMA MachineDisk ==
    ASSUME Whole, DiskInv, Tick \/ Shutdown \/ PowerLoss \/ LauncherBoots
    PROVE  ServerOk' /\ FilesOk'
<1> USE DEF DiskInv, dirs, data
<1>1. CASE Tick
  BY <1>1 DEF Tick, ServerOk, FilesOk, AppOnDisk
<1>2. ASSUME VolatileLost PROVE ServerOk' /\ server'.state = "none" /\ pc' = "down"
  BY <1>2 DEF VolatileLost, ServerOk, NoServer, NoLifecycle
<1>3. CASE Shutdown
  BY <1>2, <1>3 DEF Shutdown, FilesOk, AppOnDisk
<1>4. CASE PowerLoss
  <2>1. backup' = backup /\ (current' = current \/ pc = "roll.rm")
    BY <1>4 DEF PowerLoss, Whole
  <2> QED
    BY <1>2, <1>4, <2>1 DEF PowerLoss, FilesOk, AppOnDisk
<1>5. CASE LauncherBoots
  BY <1>5 DEF LauncherBoots, ServerOk, FilesOk, AppOnDisk
<1> QED
  BY <1>1, <1>3, <1>4, <1>5

\* Whatever the administrator does and wherever else the power fails, one of the two
\* directories holds a complete application: a switch never destroys the last one
\* (applyUpdate, applyRollback and clearBackupDir, one file-system call after the other).
THEOREM ApplicationSurvives == ASSUME Whole PROVE Spec => []AppOnDisk
<1> USE Whole
<1>1. Init => DiskInv
  BY InitType, Bounds DEF Init, DiskInv, ServerOk, FilesOk, AppOnDisk, NoServer, NoLifecycle
<1>2. DiskInv /\ [Next]_vars => DiskInv'
  <2> SUFFICES ASSUME DiskInv, [Next]_vars PROVE DiskInv'
    OBVIOUS
  <2>1. CASE UNCHANGED vars
    BY <2>1 DEF DiskInv, vars, dirs, data, control, TypeOK, ServerOk, FilesOk, AppOnDisk
  <2>2. CASE Next
    <3>1. TypeOK'
      BY <2>2, ServerType, LoopType, SwapType, MachineType DEF Next, DiskInv
    <3>2. ServerOk' /\ FilesOk'
      BY <2>2, ServerDisk, LoopDisk, SwapDisk, MachineDisk DEF Next
    <3> QED
      BY <3>1, <3>2 DEF DiskInv
  <2> QED
    BY <2>1, <2>2
<1>3. DiskInv => AppOnDisk
  BY DEF DiskInv, FilesOk
<1> QED
  BY <1>1, <1>2, <1>3, PTL DEF Spec
=============================================================================
