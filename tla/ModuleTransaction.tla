-------------------------- MODULE ModuleTransaction --------------------------
(***************************************************************************)
(* One update, downgrade or restoration of the installed modules: the      *)
(* controller's worker (module_service.submit/_accept_execution), the      *)
(* transaction it runs (module_executor.execute, _rollback, recover), the  *)
(* files they leave on disk, and the backend that is stopped, replaced and *)
(* started again.  The controller may lose power between any two steps;    *)
(* the backend dies with it and may die alone.                             *)
(*                                                                         *)
(* step names what the controller does next.  A call that raises is the    *)
(* action Raise (in execute) or UndoRaises (in _rollback); a journal write *)
(* that raises has changed the record in memory already, as _write does.   *)
(*                                                                         *)
(* The gate is reduced to the operation that closes it, and a write of a   *)
(* user to one step: MaintenanceGate and ProcessJobs model the drain, and  *)
(* the request that is withdrawn before the watch has ever seen it.        *)
(***************************************************************************)
EXTENDS Naturals, FiniteSets

CONSTANTS
    Write,          \* writes of users
    Down,           \* no backend process
    NoBackup,
    FilesMayStick,  \* clear_maintenance may fail: a file is held open or denied
    MayBeDown,      \* a plan may find the backend stopped before it asks for a drain
    RestartMayBeLate, \* a restart asked for while nothing ran may act on an operation
    MaxOperations,  \* model bounds
    MaxCrashes

Operation == 1 .. MaxOperations
None == 0                       \* no operation; as a release, the first Setup
\* Numbered by the operation that installs it, an older program too: _revalidate
\* refuses a plan whose program cannot read the data it will find.
Release == 0 .. MaxOperations

Database == [schema : Release, writes : SUBSET Write]
BackupOf == [database : Database, config : Release]

ASSUME TransactionAssumption ==
    /\ {FilesMayStick, MayBeDown, RestartMayBeLate} \subseteq BOOLEAN
    /\ {MaxOperations, MaxCrashes} \subseteq Nat
    /\ Down \notin Nat
    /\ NoBackup \notin BackupOf

VARIABLES
    \* on disk
    journal,       \* module-operation.json
    active,        \* active.json
    database, config, backups,
    request,       \* operation in module-maintenance-request.json
    ready,         \* operation with ready = true in module-maintenance-ready.json
    \* the controller process
    step, caller,  \* what runs next, and for whom (see Return)
    record,        \* the journal's record in memory
    plan,          \* [op, restore: a backup to restore or None, migrate]
    \* the backend process
    backend,       \* the release that runs, or Down
    gate,          \* the operation that closes the gate, or None
    \* history
    acknowledged,  \* writes users were told of
    discarded,     \* writes given up by an acknowledged restoration
    operations, crashes

fileVars == <<request, ready>>
dataVars == <<database, config>>
diskVars == <<journal, active, dataVars, backups, fileVars>>
controlVars == <<step, caller, record, plan>>
backendVars == <<backend, gate>>
historyVars == <<acknowledged, discarded, operations, crashes>>
vars == <<diskVars, controlVars, backendVars, historyVars>>

\* Mutant: a committed operation is taken for one to recover.
TerminalForgetting == {"none", "rolled_back", "failed"}

Terminal == {"none", "committed", "rolled_back", "failed"}
JournalState == Terminal \union
    {"downloading", "draining", "stopping", "backing_up", "installing", "restoring",
     "migrating", "validating", "rolling_back", "recovery_required"}

\* The steps inside the try of execute and of _rollback.
Executing == {"download", "quiesce", "await", "stop", "save", "backup", "install",
              "restore", "restore_database", "restore_config", "migration", "migrate",
              "activate", "drop_ready", "validate", "start", "check", "commit"}
Undoing == {"decide", "untouched_start", "untouched_end", "undo_stop", "undo_database",
            "undo_config", "undo_active", "undo_ready", "undo_start", "undo_check",
            "undo_end"}
Clearing == {"commit_request", "commit_ready", "untouched_request", "untouched_ready",
             "undone_request", "undone_ready", "finish_request", "finish_ready",
             "boot_request", "boot_ready"}
Step == Executing \union Undoing \union Clearing \union
    {"off", "idle", "prepare", "begin", "rollback", "give_up", "finish",
     "finish_failed", "boot_start"}

Record == [state : JournalState, op : Operation \union {None}, previous : Release,
           backup : Operation \union {None}, changed : BOOLEAN, wasRunning : BOOLEAN]

TypeOK ==
    /\ {journal, record} \subseteq Record
    /\ {active, config} \subseteq Release
    /\ database \in Database
    /\ backups \in [Operation -> BackupOf \union {NoBackup}]
    /\ \A r \in {journal, record} : r.backup # None => backups[r.backup] # NoBackup
    /\ {request, ready, gate} \subseteq Operation \union {None}
    /\ step \in Step
    /\ caller \in {"work", "withdraw", "recover", "boot"}
    /\ plan \in [op : Operation \union {None}, restore : Operation \union {None},
                 migrate : BOOLEAN]
    /\ backend \in Release \union {Down}
    /\ acknowledged \subseteq Write /\ discarded \subseteq acknowledged
    /\ operations \in 0 .. MaxOperations /\ crashes \in 0 .. MaxCrashes

EmptyRecord == [state |-> "none", op |-> None, previous |-> 0, backup |-> None,
                changed |-> FALSE, wasRunning |-> FALSE]

Init ==
    /\ journal = EmptyRecord /\ record = EmptyRecord
    /\ active = 0 /\ config = 0
    /\ database = [schema |-> 0, writes |-> {}]
    /\ backups = [o \in Operation |-> NoBackup]
    /\ request = None /\ ready = None
    /\ step = "idle" /\ caller = "work"
    /\ plan = [op |-> None, restore |-> None, migrate |-> FALSE]
    /\ backend \in {0, Down} /\ gate = None
    /\ acknowledged = {} /\ discarded = {}
    /\ operations = 0 /\ crashes = 0

(* ------------------------------- helpers ------------------------------- *)

Goes(from, to) == step = from /\ step' = to

\* _write: the record in memory, then the journal; a write that raises leaves
\* the journal and goes where the exception goes.
Log(from, to, onError, changes) ==
    /\ step = from
    /\ record' = changes
    /\ \/ journal' = changes /\ step' = to
       \/ journal' = journal /\ step' = onError

\* Mutant: a backend that starts looks for no request.
StartBackendOpen ==
    IF backend # Down
    THEN UNCHANGED <<backendVars, dataVars>>
    ELSE backend' = active /\ gate' = None /\ UNCHANGED dataVars

\* start_backend: nothing when it runs already.  A new process reads the
\* selected release, closes its gate at once when a request stands (_startup),
\* and may migrate database and configuration to its own format.
StartBackend ==
    IF backend # Down
    THEN UNCHANGED <<backendVars, dataVars>>
    ELSE /\ backend' = active
         /\ gate' = request
         /\ \/ UNCHANGED database
            \/ database.schema < active /\ database' = [database EXCEPT !.schema = active]
         /\ \/ UNCHANGED config
            \/ config < active /\ config' = active

StopBackend == backend' = Down /\ gate' = None

\* restore_backup replaces the database in one step, then copies files.
RestoreDatabase(b) == database' = backups[b].database
RestoreConfig(b) == config' = backups[b].config

\* Where a rollback that ended well, or gave up, returns to.
Return(restored) ==
    CASE caller = "work" -> "finish"
      [] caller = "boot" /\ restored -> "boot_start"
      [] OTHER -> "idle"

(* --------------------------- accepting a plan --------------------------- *)

NewPlan(op) ==
    plan' \in [op : {op}, migrate : BOOLEAN,
               restore : {None} \union {b \in Operation : backups[b] # NoBackup}]

\* submit: the request for the drain is written before the plan is prepared.
Submit ==
    /\ Goes("idle", "prepare")
    /\ journal.state \in Terminal
    /\ operations < MaxOperations /\ operations' = operations + 1
    /\ plan' = [op |-> operations', restore |-> None, migrate |-> FALSE]
    /\ request' = operations'
    /\ caller' = "work"
    /\ UNCHANGED <<journal, active, dataVars, backups, ready, record, backendVars,
                   acknowledged, discarded, crashes>>

\* _prepare: a plan, without a restoration, or no plan.
Prepare ==
    /\ Goes("prepare", "begin")
    /\ \E m \in BOOLEAN : plan' = [plan EXCEPT !.migrate = m]
    /\ UNCHANGED <<diskVars, caller, record, backendVars, historyVars>>

\* Mutant: the request of a plan that could not be prepared stands for ever.
PrepareFailsSilently ==
    /\ Goes("prepare", "idle")
    /\ UNCHANGED <<diskVars, caller, record, plan, backendVars, historyVars>>

PrepareFails ==
    /\ Goes("prepare", "finish")
    /\ caller' = "withdraw"
    /\ UNCHANGED <<diskVars, record, plan, backendVars, historyVars>>

\* execute of a prepared plan; only here a restoration can be acknowledged.
Accept ==
    /\ Goes("idle", "begin")
    /\ journal.state \in Terminal
    /\ backend # Down \/ MayBeDown
    /\ operations < MaxOperations /\ operations' = operations + 1
    /\ NewPlan(operations')
    /\ caller' = "work"
    /\ UNCHANGED <<diskVars, record, backendVars, acknowledged, discarded, crashes>>

(* ------------------------------- execute ------------------------------- *)

\* Under installation_lock; a plan that became stale is refused before the
\* journal is touched.
Begin ==
    /\ \/ Log("begin", "download", "finish",
              [EmptyRecord EXCEPT !.state = "downloading", !.op = plan.op,
                                  !.previous = active, !.wasRunning = backend # Down])
       \/ Goes("begin", "finish") /\ UNCHANGED <<journal, record>>
    /\ UNCHANGED <<active, dataVars, backups, fileVars, caller, plan, backendVars,
                   historyVars>>

\* stage_update touches nothing that runs.
Download ==
    /\ Log("download", "quiesce", "rollback", [record EXCEPT !.state = "draining"])
    /\ UNCHANGED <<active, dataVars, backups, fileVars, caller, plan, backendVars,
                   historyVars>>

\* _quiesce: a backend that is down needs no drain.
Quiesce ==
    /\ Goes("quiesce", "await")
    /\ request' = IF backend = Down THEN request ELSE plan.op
    /\ UNCHANGED <<journal, active, dataVars, backups, ready, caller, record, plan,
                   backendVars, historyVars>>

\* The acknowledgement of this operation, or no backend.  (The 900 s: Raise.)
Drained ==
    /\ backend = Down \/ ready = plan.op
    /\ Log("await", "stop", "rollback", [record EXCEPT !.state = "stopping"])
    /\ UNCHANGED <<active, dataVars, backups, fileVars, caller, plan, backendVars,
                   historyVars>>

Stop ==
    /\ Goes("stop", "save")
    /\ StopBackend
    /\ UNCHANGED <<diskVars, caller, record, plan, historyVars>>

\* Mutant: the backup is journaled before it is made.
LogBackupTooEarly ==
    /\ Log("save", "backup", "rollback",
           [record EXCEPT !.state = "backing_up", !.backup = plan.op])
    /\ UNCHANGED <<active, dataVars, backups, fileVars, caller, plan, backendVars,
                   historyVars>>

LogBackup ==
    /\ Log("save", "backup", "rollback", [record EXCEPT !.state = "backing_up"])
    /\ UNCHANGED <<active, dataVars, backups, fileVars, caller, plan, backendVars,
                   historyVars>>

\* create_operation_backup: complete under its final name, or not there.
Backup ==
    /\ Goes("backup", "install")
    /\ backups' = [backups EXCEPT ![plan.op] = [database |-> database, config |-> config]]
    /\ UNCHANGED <<journal, active, dataVars, fileVars, caller, record, plan,
                   backendVars, historyVars>>

LogInstall ==
    /\ Log("install", IF plan.restore # None THEN "restore" ELSE "migration", "rollback",
           [record EXCEPT !.state = "installing", !.backup = plan.op])
    /\ UNCHANGED <<active, dataVars, backups, fileVars, caller, plan, backendVars,
                   historyVars>>

LogRestore ==
    /\ Log("restore", "restore_database", "rollback",
           [record EXCEPT !.state = "restoring", !.changed = TRUE])
    /\ UNCHANGED <<active, dataVars, backups, fileVars, caller, plan, backendVars,
                   historyVars>>

Restore ==
    /\ \/ /\ Goes("restore_database", "restore_config")
          /\ RestoreDatabase(plan.restore)
          /\ UNCHANGED config
       \/ /\ Goes("restore_config", "migration")
          /\ RestoreConfig(plan.restore)
          /\ UNCHANGED database
    /\ UNCHANGED <<journal, active, backups, fileVars, caller, record, plan, backendVars,
                   historyVars>>

LogMigration ==
    /\ \/ plan.migrate /\ Log("migration", "migrate", "rollback",
              [record EXCEPT !.state = "migrating", !.changed = TRUE])
       \/ ~ plan.migrate /\ Goes("migration", "activate") /\ UNCHANGED <<journal, record>>
    /\ UNCHANGED <<active, dataVars, backups, fileVars, caller, plan, backendVars,
                   historyVars>>

Migrate ==
    /\ Goes("migrate", "activate")
    /\ database' = [database EXCEPT !.schema = plan.op]
    /\ UNCHANGED <<journal, active, config, backups, fileVars, caller, record, plan,
                   backendVars, historyVars>>

\* activate_module_set: one atomic replacement of active.json.
Activate ==
    /\ Goes("activate", "drop_ready")
    /\ active' = plan.op
    /\ UNCHANGED <<journal, dataVars, backups, fileVars, caller, record, plan,
                   backendVars, historyVars>>

\* Mutant: all of the maintenance is over once the release is selected.
DropBoth ==
    /\ Goes("drop_ready", "validate")
    /\ request' = None /\ ready' = None
    /\ UNCHANGED <<journal, active, dataVars, backups, caller, record, plan,
                   backendVars, historyVars>>

\* Only the acknowledgement: the request keeps the new backend's gate closed
\* until its health is known.
DropReady ==
    /\ Goes("drop_ready", "validate")
    /\ ready' = None
    /\ UNCHANGED <<journal, active, dataVars, backups, request, caller, record, plan,
                   backendVars, historyVars>>

\* Mutant: starting a release is not taken for a change of the data.
LogValidateUnchanged ==
    /\ Log("validate", "start", "rollback", [record EXCEPT !.state = "validating"])
    /\ UNCHANGED <<active, dataVars, backups, fileVars, caller, plan, backendVars,
                   historyVars>>

\* "Starting selected code can itself migrate the DB."
LogValidate ==
    /\ Log("validate", "start", "rollback",
           [record EXCEPT !.state = "validating", !.changed = TRUE])
    /\ UNCHANGED <<active, dataVars, backups, fileVars, caller, plan, backendVars,
                   historyVars>>

Start ==
    /\ Goes("start", "check")
    /\ StartBackend
    /\ UNCHANGED <<journal, active, backups, fileVars, caller, record, plan, historyVars>>

\* _backend_ready: this process serves its own health.  (Otherwise: Raise.)
Check ==
    /\ Goes("check", "commit")
    /\ backend # Down
    /\ UNCHANGED <<diskVars, caller, record, plan, backendVars, historyVars>>

LogCommit ==
    /\ Log("commit", "commit_request", "rollback", [record EXCEPT !.state = "committed"])
    /\ discarded' = discarded \union
           IF journal' = record' /\ plan.restore # None
           THEN acknowledged \ backups[plan.restore].database.writes ELSE {}
    /\ UNCHANGED <<active, dataVars, backups, fileVars, caller, plan, backendVars,
                   acknowledged, operations, crashes>>

\* Any call of execute can raise before it has an effect, or after it: then it
\* is the Raise of the next step.
Raise ==
    /\ step \in Executing
    /\ step' = "rollback"
    /\ UNCHANGED <<diskVars, caller, record, plan, backendVars, historyVars>>

(* ------------------------------- rollback ------------------------------- *)

LogRollback ==
    /\ Log("rollback", "decide", "give_up", [record EXCEPT !.state = "rolling_back"])
    /\ UNCHANGED <<active, dataVars, backups, fileVars, caller, plan, backendVars,
                   historyVars>>

\* Mutant: only the data is looked at, not the selected release.
DecideByData ==
    /\ step = "decide"
    /\ step' = IF ~ record.changed THEN "untouched_request" ELSE "undo_stop"
    /\ UNCHANGED <<diskVars, caller, record, plan, backendVars, historyVars>>

\* A failure before anything changed leaves a backend whose writers may still
\* be busy alone.
Decide ==
    /\ step = "decide"
    /\ step' = IF ~ record.changed /\ active = record.previous
               THEN "untouched_request" ELSE "undo_stop"
    /\ UNCHANGED <<diskVars, caller, record, plan, backendVars, historyVars>>

UntouchedStart ==
    /\ Goes("untouched_start", "untouched_end")
    /\ IF record.wasRunning THEN StartBackend ELSE UNCHANGED <<backendVars, dataVars>>
    /\ UNCHANGED <<journal, active, backups, fileVars, caller, record, plan, historyVars>>

UntouchedEnd ==
    /\ Log("untouched_end", Return(TRUE), "give_up", [record EXCEPT !.state = "rolled_back"])
    /\ UNCHANGED <<active, dataVars, backups, fileVars, caller, plan, backendVars,
                   historyVars>>

UndoStop ==
    /\ Goes("undo_stop", IF record.changed THEN "undo_database" ELSE "undo_active")
    /\ StopBackend
    /\ UNCHANGED <<diskVars, caller, record, plan, historyVars>>

UndoData ==
    /\ record.backup # None
    /\ \/ /\ Goes("undo_database", "undo_config")
          /\ RestoreDatabase(record.backup)
          /\ UNCHANGED config
       \/ /\ Goes("undo_config", "undo_active")
          /\ RestoreConfig(record.backup)
          /\ UNCHANGED database
    /\ UNCHANGED <<journal, active, backups, fileVars, caller, record, plan,
                   backendVars, historyVars>>

UndoActive ==
    /\ Goes("undo_active", "undo_ready")
    /\ active' = record.previous
    /\ UNCHANGED <<journal, dataVars, backups, fileVars, caller, record, plan,
                   backendVars, historyVars>>

UndoReady ==
    /\ Goes("undo_ready", IF record.wasRunning THEN "undo_start" ELSE "undo_end")
    /\ ready' = None
    /\ UNCHANGED <<journal, active, dataVars, backups, request, caller, record, plan,
                   backendVars, historyVars>>

UndoStart ==
    /\ Goes("undo_start", "undo_check")
    /\ StartBackend
    /\ UNCHANGED <<journal, active, backups, fileVars, caller, record, plan, historyVars>>

UndoCheck ==
    /\ Goes("undo_check", "undo_end")
    /\ backend # Down
    /\ UNCHANGED <<diskVars, caller, record, plan, backendVars, historyVars>>

UndoEnd ==
    /\ Log("undo_end", "undone_request", "give_up", [record EXCEPT !.state = "rolled_back"])
    /\ UNCHANGED <<active, dataVars, backups, fileVars, caller, plan, backendVars,
                   historyVars>>

UndoRaises ==
    /\ step \in Undoing
    /\ step' = "give_up"
    /\ UNCHANGED <<diskVars, caller, record, plan, backendVars, historyVars>>

\* Mutant: a rollback that failed is begun again, and again.
GiveUpNever ==
    /\ Goes("give_up", "rollback")
    /\ UNCHANGED <<diskVars, caller, record, plan, backendVars, historyVars>>

\* The data may be half restored: no backend may serve it.  The last write of
\* the journal can raise too, and then the older record stays.
GiveUp ==
    /\ Goes("give_up", Return(FALSE))
    /\ \/ record.changed /\ StopBackend
       \/ UNCHANGED backendVars
    /\ record' = [record EXCEPT !.state = "recovery_required"]
    /\ journal' \in {journal, record'}
    /\ UNCHANGED <<active, dataVars, backups, fileVars, caller, plan, historyVars>>

(* ------------------------ the end of an operation ------------------------ *)

\* clear_maintenance removes the request, then the acknowledgement; where the
\* exception goes depends on the caller.
ClearRequest ==
    /\ \/ Goes("commit_request", "commit_ready")
       \/ Goes("untouched_request", "untouched_ready")
       \/ Goes("undone_request", "undone_ready")
       \/ Goes("finish_request", "finish_ready")
       \/ Goes("boot_request", "boot_ready")
    /\ request' = None
    /\ UNCHANGED <<journal, active, dataVars, backups, ready, caller, record, plan,
                   backendVars, historyVars>>

ClearReady ==
    /\ \/ Goes("commit_ready", "finish")
       \/ Goes("untouched_ready", "untouched_start")
       \/ Goes("undone_ready", Return(TRUE))
       \/ Goes("finish_ready", "idle")
       \/ Goes("boot_ready", "boot_start")
    /\ ready' = None
    /\ UNCHANGED <<journal, active, dataVars, backups, request, caller, record, plan,
                   backendVars, historyVars>>

\* remove_file gives up after eight attempts.
Stuck ==
    /\ FilesMayStick
    /\ \/ step \in {"commit_request", "commit_ready"} /\ step' = "rollback"
       \/ /\ step \in {"untouched_request", "untouched_ready", "undone_request", "undone_ready"}
          /\ step' = "give_up"
       \/ /\ step \in {"finish_request", "finish_ready"}
          /\ step' = IF caller = "withdraw" THEN "idle" ELSE "finish_failed"
       \/ step \in {"boot_request", "boot_ready"} /\ step' = "idle"
    /\ UNCHANGED <<diskVars, caller, record, plan, backendVars, historyVars>>

\* The worker's finally: the maintenance ends unless there is something to recover.
Finish ==
    /\ Goes("finish", IF journal.state \in Terminal THEN "finish_request" ELSE "idle")
    /\ UNCHANGED <<diskVars, caller, record, plan, backendVars, historyVars>>

\* A maintenance that cannot be ended is left to recovery, once an operation
\* has a record; that write can raise too.
FinishFailed ==
    /\ Goes("finish_failed", "idle")
    /\ \/ UNCHANGED journal
       \/ journal.state # "none" /\ journal' = [journal EXCEPT !.state = "recovery_required"]
    /\ UNCHANGED <<active, dataVars, backups, fileVars, caller, record, plan, backendVars,
                   historyVars>>

(* ------------------------ recovery and restarts ------------------------- *)

\* module_recover of the control pipe.
Recover ==
    /\ Goes("idle", "rollback")
    /\ journal.state \notin Terminal
    /\ record' = journal /\ caller' = "recover"
    /\ UNCHANGED <<diskVars, plan, backendVars, historyVars>>

\* The backend is in a job that closes with the controller.
PowerLoss ==
    /\ crashes < MaxCrashes /\ crashes' = crashes + 1
    /\ step # "off" /\ step' = "off"
    /\ StopBackend
    /\ UNCHANGED <<diskVars, caller, record, plan, acknowledged, discarded, operations>>

Boot ==
    /\ \/ journal.state \in Terminal /\ Goes("off", "boot_request") /\ UNCHANGED record
       \/ journal.state \notin Terminal /\ Goes("off", "rollback") /\ record' = journal
    /\ caller' = "boot"
    /\ UNCHANGED <<diskVars, plan, backendVars, historyVars>>

\* Autostart, if it is on; a backend that cannot start is left for later.
BootStart ==
    /\ Goes("boot_start", "idle")
    /\ StartBackend \/ UNCHANGED <<backendVars, dataVars>>
    /\ UNCHANGED <<journal, active, backups, fileVars, caller, record, plan, historyVars>>

(* ---------------------------- the environment --------------------------- *)

\* start_backend of the control pipe, and the second half of its restart_backend (the
\* first is BackendDies): no operation runs, none to recover.  That is asked when the command
\* arrives; a restart acts one second later, and does not ask again.
UserStart ==
    /\ backend = Down /\ step # "off"
    /\ RestartMayBeLate \/ (step = "idle" /\ journal.state \in Terminal)
    /\ StartBackend
    /\ UNCHANGED <<journal, active, backups, fileVars, controlVars, historyVars>>

\* stop_backend of the control pipe, or a crash of the backend.
BackendDies ==
    /\ backend # Down
    /\ MayBeDown \/ request # None \/ step \notin {"begin", "download", "quiesce"}
    /\ StopBackend
    /\ UNCHANGED <<diskVars, controlVars, historyVars>>

\* One round of start_module_maintenance_watch, by what it finds.
Watch ==
    /\ backend # Down
    /\ \/ request # None /\ gate = None /\ gate' = request /\ UNCHANGED ready
       \/ request # None /\ gate = request /\ ready # gate /\ ready' = gate /\ UNCHANGED gate
       \/ request = None /\ gate # None /\ gate' = None /\ ready' = None
    /\ UNCHANGED <<journal, active, dataVars, backups, request, controlVars, backend,
                   historyVars>>

UserWrite(w) ==
    /\ backend # Down /\ gate = None
    /\ w \notin acknowledged /\ acknowledged' = acknowledged \union {w}
    /\ database' = [database EXCEPT !.writes = @ \union {w}]
    /\ UNCHANGED <<journal, active, config, backups, fileVars, controlVars, backendVars,
                   discarded, operations, crashes>>

(* ----------------------------- specification ---------------------------- *)

Execute ==
    \/ Download \/ Quiesce \/ Drained \/ Stop \/ LogBackup \/ Backup \/ LogInstall
    \/ LogRestore \/ Restore \/ LogMigration \/ Migrate \/ Activate \/ DropReady
    \/ LogValidate \/ Start \/ Check \/ LogCommit \/ Raise

Undo ==
    \/ LogRollback \/ Decide \/ UntouchedStart \/ UntouchedEnd \/ UndoStop \/ UndoData
    \/ UndoActive \/ UndoReady \/ UndoStart \/ UndoCheck \/ UndoEnd \/ UndoRaises
    \/ GiveUp

\* What the controller does on its own, once an operation is accepted.
Controller ==
    \/ Prepare \/ PrepareFails \/ Begin
    \/ Execute
    \/ Undo
    \/ ClearRequest \/ ClearReady \/ Stuck \/ Finish \/ FinishFailed
    \/ Boot \/ BootStart

Next ==
    \/ Submit \/ Accept \/ Recover
    \/ Controller
    \/ PowerLoss
    \/ UserStart \/ BackendDies \/ Watch
    \/ \E w \in Write : UserWrite(w)

Spec == Init /\ [][Next]_vars
FairSpec == Spec /\ WF_vars(Controller)

(* ------------------------------ properties ------------------------------ *)

\* A backend never meets a database or a configuration in the format of a
\* release newer than its own, however a transaction, its rollback and a
\* recovery were interrupted.
CodeFitsData ==
    backend # Down => database.schema <= backend /\ config <= backend

\* The writes that would be found again if the controller lost power now: those
\* of the database, or of the backup a recovery would restore.
Kept ==
    IF journal.state \in Terminal \/ ~ journal.changed \/ journal.backup = None
    THEN database.writes ELSE backups[journal.backup].database.writes

\* What users were told is saved is never lost, neither now nor to a recovery
\* from here, unless a committed restoration, whose loss was acknowledged,
\* gave it up.
WritesAreKept == acknowledged \ discarded \subseteq Kept

\* Users are served by a release whose health was verified, or by the one that
\* ran before the operation touched anything ("keep admission closed in the new
\* backend until health is verified").
OnlyVerifiedServes ==
    backend # Down /\ gate = None =>
        \/ journal.state \in Terminal
        \/ ~ journal.changed /\ backend = journal.previous

\* What the journal has decided is what is installed: all of the new release,
\* or all of the previous one and data it can read.
DecidedMeansInstalled ==
    /\ journal.state = "committed" => active = journal.op
    /\ journal.state = "rolled_back" =>
        /\ active = journal.previous
        /\ database.schema <= active /\ config <= active

Atomic ==
    INSTANCE AtomicRelease WITH
        Nobody <- Down,
        release <- IF journal.state = "committed" THEN journal.op ELSE journal.previous,
        served <- IF backend # Down /\ gate = None THEN backend ELSE Down,
        writes <- Kept,
        copies <- {backups[o].database.writes : o \in {b \in Operation : backups[b] # NoBackup}}

\* The transaction, its failures and its recovery implement one atomic
\* replacement of the release, made while nobody is served.
ImplementsAtomicRelease == Atomic!Spec

\* Every operation, rollback, recovery and boot of the controller ends, and the
\* controller takes the next command.
OperationsEnd == step # "idle" ~> step = "idle"

\* A request does not keep the application closed for ever: it is withdrawn,
\* or an administrator is asked to recover.
RequestsAreWithdrawn ==
    request # None ~> request = None \/ (step = "idle" /\ journal.state \notin Terminal)
=============================================================================
