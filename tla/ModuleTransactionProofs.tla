----------------------- MODULE ModuleTransactionProofs -----------------------
(***************************************************************************)
(* Theorems about ModuleTransaction, for any number of operations, losses  *)
(* of power and writes, with files that stick and a backend that stops,    *)
(* where a restart a user asks for acts before the next operation begins.  *)
(*                                                                         *)
(* CodeFitsData is not inductive: whether the data fits the code that is   *)
(* started next is decided many steps earlier, by what the journal said    *)
(* when the data was changed, and by which backup it names.                *)
(***************************************************************************)
EXTENDS ModuleTransaction, TLAPS

Fits(d, c, r) == d.schema <= r /\ c <= r
DataFits(r) == Fits(database, config, r)
BackupFits(b, r) ==
    backups[b] # NoBackup /\ Fits(backups[b].database, backups[b].config, r)

\* A recovery from this record finds data its previous release can read: the
\* data as it is, or the backup the record names.
Recoverable(r) ==
    IF r.changed THEN r.backup # None /\ BackupFits(r.backup, r.previous)
                 ELSE DataFits(r.previous)

\* No format is newer than the latest operation.
Bounded ==
    /\ {active, config, database.schema, journal.previous, record.previous}
         \subseteq 0 .. operations
    /\ \A b \in Operation : backups[b] # NoBackup =>
         Fits(backups[b].database, backups[b].config, operations)

Planned == {"prepare", "begin"} \union Executing

PlanInv ==
    /\ step \in Planned =>
         /\ plan.op = operations /\ plan.op # None
         /\ plan.restore # None => backups[plan.restore] # NoBackup
    /\ step \in {"restore", "restore_database", "restore_config"} => plan.restore # None

BackendInv ==
    /\ backend # Down => backend = active /\ DataFits(active)
    /\ step \in {"off", "save", "backup", "install", "restore", "restore_database",
                 "restore_config", "migration", "migrate", "activate", "drop_ready",
                 "validate", "start", "undo_database", "undo_config", "undo_active",
                 "undo_ready", "undo_start"}
         => backend = Down

\* A journal without an operation to recover means data that fits.
JournalInv ==
    /\ Recoverable(journal)
    /\ journal.state \in Terminal =>
         /\ DataFits(active)
         /\ ~ journal.changed => active = journal.previous
    /\ journal.state = "committed" => active = journal.op
    /\ journal.state = "rolled_back" => active = journal.previous
    /\ step \in {"prepare", "begin", "commit_request", "commit_ready", "undone_request",
                 "undone_ready", "boot_request", "boot_ready", "boot_start"}
         => journal.state \in Terminal

\* The record in memory is the one on disk, but for a write that failed.
RecordInv ==
    /\ step \in Executing \union Undoing \union
                {"commit_request", "commit_ready", "untouched_request", "untouched_ready",
                 "undone_request", "undone_ready"} => record = journal
    /\ step \in Executing \union Undoing \union {"untouched_request", "untouched_ready"}
         => record.state \notin Terminal
    /\ step \in {"rollback", "give_up"} => Recoverable(record)

\* How far execute has come, and what its record says of it.
Unchanged == {"download", "quiesce", "await", "stop", "save", "backup", "install"}
BackedUp == Executing \ Unchanged

ExecuteInv ==
    /\ step \in Executing => record.op = plan.op
    /\ step \in Unchanged => ~ record.changed
    /\ step = "install" => BackupFits(plan.op, record.previous)
    /\ step \in BackedUp => record.backup = plan.op /\ BackupFits(plan.op, record.previous)
    /\ step \in {"restore_database", "restore_config", "migrate", "start", "check", "commit"}
         => record.changed
    /\ step \in {"drop_ready", "validate", "start", "check", "commit"} => active = plan.op

\* How far the rollback has come.
UndoInv ==
    /\ step \in {"untouched_request", "untouched_ready", "untouched_start", "untouched_end"}
         => ~ record.changed /\ active = record.previous
    /\ step \in {"undo_database", "undo_config"} => record.changed
    /\ step = "undo_config" => database.schema <= record.previous
    /\ step \in {"undo_active", "undo_ready", "undo_start", "undo_check", "undo_end"}
         => DataFits(record.previous)
    /\ step \in {"undo_ready", "undo_start", "undo_check", "undo_end"}
         => active = record.previous

IInv ==
    /\ TypeOK /\ Bounded /\ PlanInv /\ BackendInv /\ JournalInv /\ RecordInv
    /\ ExecuteInv /\ UndoInv

(* ------------------------------- operators ------------------------------ *)

\* What a write of the journal does to the record: the state s, changed = c and
\* backup = b, in memory in any case and on disk unless it raises.
LogEffect(from, to, onError, s, c, b) ==
    /\ step = from
    /\ record' \in Record
    /\ record'.state = s /\ record'.changed = c /\ record'.backup = b
    /\ record'.op = record.op /\ record'.previous = record.previous
    /\ \/ journal' = record' /\ step' = to
       \/ journal' = journal /\ step' = onError

\* _write of a new state.
LEMMA LogState ==
    ASSUME record \in Record, NEW from, NEW to, NEW onError, NEW s \in JournalState,
           Log(from, to, onError, [record EXCEPT !.state = s])
    PROVE  LogEffect(from, to, onError, s, record.changed, record.backup)
  BY DEF Log, LogEffect, Record

\* _write of a new state that owns up to a change of the data.
LEMMA LogChanged ==
    ASSUME record \in Record, NEW from, NEW to, NEW onError, NEW s \in JournalState,
           Log(from, to, onError, [record EXCEPT !.state = s, !.changed = TRUE])
    PROVE  LogEffect(from, to, onError, s, TRUE, record.backup)
  BY DEF Log, LogEffect, Record

\* _write of a new state that names the backup.
LEMMA LogNamesBackup ==
    ASSUME record \in Record, NEW from, NEW to, NEW onError, NEW s \in JournalState,
           NEW b \in Operation,
           Log(from, to, onError, [record EXCEPT !.state = s, !.backup = b])
    PROVE  LogEffect(from, to, onError, s, record.changed, b)
  BY DEF Log, LogEffect, Record

\* Return without its CASE, which the SMT backend does not translate.
LEMMA ReturnCases ==
    ASSUME NEW restored \in BOOLEAN
    PROVE  Return(restored) = IF caller = "work" THEN "finish"
                              ELSE IF caller = "boot" /\ restored THEN "boot_start"
                              ELSE "idle"
<1>1. CASE caller = "work"
  BY <1>1 DEF Return
<1>2. CASE caller # "work" /\ caller = "boot" /\ restored
  BY <1>2 DEF Return
<1>3. CASE caller # "work" /\ ~ (caller = "boot" /\ restored)
  BY <1>3 DEF Return
<1> QED
  BY <1>1, <1>2, <1>3

\* A migration changes the format and stays a database.
LEMMA SchemaSet ==
    ASSUME database \in Database, NEW r \in Release,
           database' = [database EXCEPT !.schema = r]
    PROVE  database' \in Database /\ database'.schema = r
  BY DEF Database

\* What start_backend can do: nothing to a backend that runs; otherwise the
\* selected release runs, and data it migrates is raised to its own format.
Started ==
    /\ backend' \in {backend, active}
    /\ gate' \in {gate, request}
    /\ database' \in Database
    /\ \/ database'.schema = database.schema
       \/ database.schema < active /\ database'.schema = active
    /\ \/ config' = config
       \/ config < active /\ config' = active
    /\ backend # Down => UNCHANGED <<backend, gate, database, config>>

\* start_backend does no more than that.
LEMMA StartEffect ==
    ASSUME database \in Database, active \in Release, StartBackend
    PROVE  Started
<1>1. CASE backend # Down
  <2>1. UNCHANGED <<backend, gate, database, config>>
    BY <1>1 DEF StartBackend, backendVars, dataVars
  <2> QED
    BY <2>1 DEF Started
<1>2. CASE backend = Down
  <2>1. /\ backend' = active /\ gate' = request
        /\ config' = config \/ (config < active /\ config' = active)
    BY <1>2 DEF StartBackend
  <2>2. CASE UNCHANGED database
    BY <1>2, <2>1, <2>2 DEF Started
  <2>3. CASE database.schema < active /\ database' = [database EXCEPT !.schema = active]
    <3>1. database' \in Database /\ database'.schema = active
      BY <2>3, SchemaSet
    <3> QED
      BY <1>2, <2>1, <2>3, <3>1 DEF Started
  <2> QED
    BY <1>2, <2>2, <2>3 DEF StartBackend
<1> QED
  BY <1>1, <1>2

\* A backup that exists has a format.
LEMMA BackupType ==
    ASSUME TypeOK, NEW b \in Operation, backups[b] # NoBackup
    PROVE  /\ backups[b] \in BackupOf
           /\ backups[b].database \in Database /\ backups[b].database.schema \in Release
           /\ backups[b].config \in Release
<1>1. backups[b] \in BackupOf
  BY DEF TypeOK
<1> QED
  BY <1>1 DEF BackupOf, Database

\* A new operation makes no format too new.
LEMMA BoundsGrow ==
    ASSUME TypeOK, Bounded, operations' = operations + 1,
           UNCHANGED <<active, database, config, journal, record, backups>>
    PROVE  Bounded'
<1>1. \A b \in Operation : backups[b] # NoBackup =>
         backups[b].database.schema \in Release /\ backups[b].config \in Release
  BY BackupType
<1>2. {operations, active, config, database.schema, journal.previous, record.previous}
        \subseteq Nat
  BY DEF TypeOK, Record, Database, Release
<1> QED
  BY <1>1, <1>2 DEF Bounded, Fits, Release

(* ------------------------- accepting an operation ----------------------- *)

\* An operation that is accepted, prepared or refused.
LEMMA AcceptingSteps ==
    IInv /\ (Submit \/ Prepare \/ PrepareFails \/ Accept \/ Begin) => IInv'
<1> SUFFICES ASSUME IInv, Submit \/ Prepare \/ PrepareFails \/ Accept \/ Begin
             PROVE  IInv'
  OBVIOUS
<1> USE DEF IInv, None, Operation, Release
<1> DEFINE PlanType == [op : Operation \union {None}, restore : Operation \union {None},
                        migrate : BOOLEAN]
<1>1. CASE Submit
  <2>1. /\ operations' = operations + 1 /\ operations' \in Operation
        /\ Goes("idle", "prepare") /\ journal.state \in Terminal
        /\ plan' = [op |-> operations', restore |-> None, migrate |-> FALSE]
        /\ request' = operations' /\ caller' = "work"
        /\ UNCHANGED <<journal, active, database, config, backups, ready, record, backend,
                       gate, acknowledged, discarded, crashes>>
    BY <1>1, TransactionAssumption DEF Submit, TypeOK, dataVars, backendVars
  <2>2. plan' \in PlanType /\ plan'.op = operations' /\ plan'.restore = None
    BY <2>1
  <2>3. TypeOK'
    BY <2>1, <2>2 DEF TypeOK, Goes, Step
  <2>4. Bounded'
    BY <2>1, BoundsGrow
  <2> QED
    BY <2>1, <2>2, <2>3, <2>4
    DEF Goes, PlanInv, BackendInv, JournalInv, RecordInv, ExecuteInv, UndoInv, Planned,
        Executing, Undoing, Unchanged, BackedUp, Recoverable, DataFits, BackupFits, Fits
<1>2. CASE Prepare
  <2>1. plan' \in PlanType /\ plan'.op = plan.op /\ plan'.restore = plan.restore
    BY <1>2 DEF Prepare, TypeOK
  <2>2. /\ Goes("prepare", "begin")
        /\ UNCHANGED <<diskVars, caller, record, backendVars, historyVars>>
    BY <1>2 DEF Prepare
  <2>3. TypeOK' /\ Bounded'
    BY <2>1, <2>2
    DEF TypeOK, Bounded, Fits, Goes, Step, diskVars, dataVars, fileVars, backendVars,
        historyVars
  <2> QED
    BY <2>1, <2>2, <2>3
    DEF Goes, PlanInv, BackendInv, JournalInv, RecordInv, ExecuteInv, UndoInv, Planned,
        Executing, Undoing, Unchanged, BackedUp, Recoverable, DataFits, BackupFits, Fits,
        diskVars, dataVars, backendVars, historyVars
<1>3. CASE PrepareFails
  BY <1>3
  DEF PrepareFails, TypeOK, Bounded, Goes, Step, PlanInv, BackendInv, JournalInv,
      RecordInv, ExecuteInv, UndoInv, Planned, Executing, Undoing, Unchanged, BackedUp,
      Recoverable, DataFits, BackupFits, Fits, diskVars, dataVars, fileVars, backendVars,
      historyVars
<1>4. CASE Accept
  <2>1. /\ operations' = operations + 1 /\ operations' \in Operation
        /\ Goes("idle", "begin") /\ journal.state \in Terminal /\ caller' = "work"
        /\ UNCHANGED <<journal, active, database, config, backups, request, ready, record,
                       backend, gate, acknowledged, discarded, crashes>>
    BY <1>4, TransactionAssumption
    DEF Accept, TypeOK, diskVars, dataVars, fileVars, backendVars
  <2>2. /\ plan' \in PlanType /\ plan'.op = operations'
        /\ plan'.restore # None => backups[plan'.restore] # NoBackup
    BY <1>4, <2>1 DEF Accept, NewPlan
  <2>3. TypeOK'
    BY <2>1, <2>2 DEF TypeOK, Goes, Step
  <2>4. Bounded'
    BY <2>1, BoundsGrow
  <2> QED
    BY <2>1, <2>2, <2>3, <2>4
    DEF Goes, PlanInv, BackendInv, JournalInv, RecordInv, ExecuteInv, UndoInv, Planned,
        Executing, Undoing, Unchanged, BackedUp, Recoverable, DataFits, BackupFits, Fits
<1>5. CASE Begin
  <2> DEFINE r == [EmptyRecord EXCEPT !.state = "downloading", !.op = plan.op,
                                      !.previous = active, !.wasRunning = backend # Down]
  <2>1. /\ r \in Record /\ r.state = "downloading" /\ r.op = plan.op
        /\ r.previous = active /\ ~ r.changed /\ r.backup = None
    BY DEF EmptyRecord, Record, TypeOK, JournalState
  <2>2. \/ /\ record' = r /\ step = "begin"
           /\ \/ journal' = r /\ step' = "download"
              \/ journal' = journal /\ step' = "finish"
        \/ Goes("begin", "finish") /\ UNCHANGED <<journal, record>>
    BY <1>5 DEF Begin, Log
  <2> HIDE DEF r
  <2>3. UNCHANGED <<active, database, config, backups, request, ready, caller, plan,
                    backend, gate, acknowledged, discarded, operations, crashes>>
    BY <1>5 DEF Begin, dataVars, fileVars, backendVars, historyVars
  <2>4. TypeOK' /\ Bounded'
    BY <2>1, <2>2, <2>3 DEF TypeOK, Bounded, Fits, Goes, Step, Executing
  <2> QED
    BY <2>1, <2>2, <2>3, <2>4
    DEF Goes, PlanInv, BackendInv, JournalInv, RecordInv, ExecuteInv, UndoInv, Planned,
        Executing, Undoing, Unchanged, BackedUp, Recoverable, DataFits, BackupFits, Fits,
        Terminal
<1> QED
  BY <1>1, <1>2, <1>3, <1>4, <1>5

(* ------------------------------- execute -------------------------------- *)

\* A step of execute that writes the journal and nothing else.
LEMMA LogSteps ==
    IInv /\ (Download \/ Drained \/ LogBackup \/ LogInstall \/ LogRestore \/ LogMigration
             \/ LogValidate) => IInv'
<1> SUFFICES ASSUME IInv, Download \/ Drained \/ LogBackup \/ LogInstall \/ LogRestore
                          \/ LogMigration \/ LogValidate
             PROVE  IInv'
  OBVIOUS
<1> USE DEF IInv, Executing, Undoing, Unchanged, BackedUp, Recoverable, DataFits,
            BackupFits, Fits, None
<1>1. record \in Record /\ backups \in [Operation -> BackupOf \union {NoBackup}]
  BY DEF TypeOK
<1>2. UNCHANGED <<active, database, config, backups, request, ready, caller, plan,
                  backend, gate, acknowledged, discarded, operations, crashes>>
  BY DEF Download, Drained, LogBackup, LogInstall, LogRestore, LogMigration, LogValidate,
         dataVars, fileVars, backendVars, historyVars
<1>3. CASE Download
  <2>1. LogEffect("download", "quiesce", "rollback", "draining",
                  record.changed, record.backup)
    BY <1>1, <1>3, LogState DEF Download, JournalState
  <2> QED
    BY <1>2, <2>1
    DEF LogEffect, TypeOK, Step, Bounded, PlanInv, Planned, BackendInv, JournalInv,
        RecordInv, ExecuteInv, UndoInv, JournalState, Terminal
<1>4. CASE Drained
  <2>1. LogEffect("await", "stop", "rollback", "stopping", record.changed, record.backup)
    BY <1>1, <1>4, LogState DEF Drained, JournalState
  <2> QED
    BY <1>2, <2>1
    DEF LogEffect, TypeOK, Step, Bounded, PlanInv, Planned, BackendInv, JournalInv,
        RecordInv, ExecuteInv, UndoInv, JournalState, Terminal
<1>5. CASE LogBackup
  <2>1. LogEffect("save", "backup", "rollback", "backing_up",
                  record.changed, record.backup)
    BY <1>1, <1>5, LogState DEF LogBackup, JournalState
  <2> QED
    BY <1>2, <2>1
    DEF LogEffect, TypeOK, Step, Bounded, PlanInv, Planned, BackendInv, JournalInv,
        RecordInv, ExecuteInv, UndoInv, JournalState, Terminal
<1>6. CASE LogInstall
  <2>1. step = "install"
    BY <1>6 DEF LogInstall, Log
  <2>2. plan.op \in Operation
    BY <2>1 DEF TypeOK, PlanInv, Planned
  <2>3. LogEffect("install", IF plan.restore # None THEN "restore" ELSE "migration",
                  "rollback", "installing", record.changed, plan.op)
    BY <1>1, <1>6, <2>2, LogNamesBackup DEF LogInstall, JournalState
  <2> QED
    BY <1>2, <2>1, <2>2, <2>3
    DEF LogEffect, TypeOK, Step, Bounded, PlanInv, Planned, BackendInv, JournalInv,
        RecordInv, ExecuteInv, UndoInv, JournalState, Terminal
<1>7. CASE LogRestore
  <2>1. LogEffect("restore", "restore_database", "rollback", "restoring",
                  TRUE, record.backup)
    BY <1>1, <1>7, LogChanged DEF LogRestore, JournalState
  <2> QED
    BY <1>2, <2>1
    DEF LogEffect, TypeOK, Step, Bounded, PlanInv, Planned, BackendInv, JournalInv,
        RecordInv, ExecuteInv, UndoInv, JournalState, Terminal
<1>8. CASE LogMigration
  <2>1. \/ LogEffect("migration", "migrate", "rollback", "migrating",
                     TRUE, record.backup)
        \/ Goes("migration", "activate") /\ UNCHANGED <<journal, record>>
    BY <1>1, <1>8, LogChanged DEF LogMigration, JournalState
  <2> QED
    BY <1>2, <2>1
    DEF LogEffect, Goes, TypeOK, Step, Bounded, PlanInv, Planned, BackendInv, JournalInv,
        RecordInv, ExecuteInv, UndoInv, JournalState, Terminal
<1>9. CASE LogValidate
  <2>1. LogEffect("validate", "start", "rollback", "validating", TRUE, record.backup)
    BY <1>1, <1>9, LogChanged DEF LogValidate, JournalState
  <2> QED
    BY <1>2, <2>1
    DEF LogEffect, TypeOK, Step, Bounded, PlanInv, Planned, BackendInv, JournalInv,
        RecordInv, ExecuteInv, UndoInv, JournalState, Terminal
<1> QED
  BY <1>3, <1>4, <1>5, <1>6, <1>7, <1>8, <1>9

\* A step of execute that makes the backup, or changes the data, the selected
\* release or the backend.
LEMMA EffectSteps ==
    IInv /\ (Stop \/ Backup \/ Restore \/ Migrate \/ Activate \/ Start) => IInv'
<1> SUFFICES ASSUME IInv, Stop \/ Backup \/ Restore \/ Migrate \/ Activate \/ Start
             PROVE  IInv'
  OBVIOUS
<1> USE DEF IInv, Executing, Undoing, Unchanged, BackedUp, Recoverable, DataFits,
            BackupFits, Fits, None, Goes
<1>1. plan.op = operations /\ plan.op \in Operation
  BY DEF Stop, Backup, Restore, Migrate, Activate, Start, TypeOK, PlanInv, Planned
<1>2. CASE Stop
  BY <1>2
  DEF Stop, StopBackend, TypeOK, Step, Bounded, PlanInv, Planned, BackendInv, JournalInv,
      RecordInv, ExecuteInv, UndoInv, Terminal, diskVars, dataVars, fileVars, historyVars
<1>3. CASE Backup
  <2> DEFINE b == [database |-> database, config |-> config]
  <2>1. b \in BackupOf /\ b # NoBackup /\ b.database = database /\ b.config = config
    BY TransactionAssumption DEF BackupOf, TypeOK
  <2>2. /\ backups' = [backups EXCEPT ![plan.op] = b] /\ Goes("backup", "install")
        /\ UNCHANGED <<journal, active, database, config, request, ready, caller, record,
                       plan, backend, gate, acknowledged, discarded, operations, crashes>>
    BY <1>3 DEF Backup, dataVars, fileVars, backendVars, historyVars
  <2> HIDE DEF b
  <2>3. /\ backups' \in [Operation -> BackupOf \union {NoBackup}]
        /\ backups'[plan.op] = b
        /\ \A o \in Operation : o # plan.op => backups'[o] = backups[o]
    BY <1>1, <2>1, <2>2 DEF TypeOK
  <2>4. \A o \in Operation : backups[o] # NoBackup => backups'[o] # NoBackup
    BY <2>1, <2>3
  <2>5. TypeOK'
    BY <2>2, <2>3, <2>4 DEF TypeOK, Step, Record
  <2>6. Bounded' /\ PlanInv' /\ BackendInv'
    BY <1>1, <2>1, <2>2, <2>3, <2>4 DEF TypeOK, Bounded, PlanInv, Planned, BackendInv
  <2>7. ~ journal.changed /\ journal.previous = record.previous /\ record = journal
    BY <2>2 DEF ExecuteInv, RecordInv
  <2>8. JournalInv' /\ RecordInv'
    BY <2>2, <2>7 DEF JournalInv, RecordInv, Terminal
  <2>9. ExecuteInv' /\ UndoInv'
    BY <1>1, <2>1, <2>2, <2>3, <2>7 DEF JournalInv, ExecuteInv, UndoInv
  <2> QED
    BY <2>5, <2>6, <2>8, <2>9
<1>4. CASE Restore
  <2>1. /\ step \in {"restore_database", "restore_config"}
        /\ step' \in {"restore_config", "migration"}
        /\ UNCHANGED <<journal, active, backups, request, ready, caller, record, plan,
                       backend, gate, acknowledged, discarded, operations, crashes>>
    BY <1>4 DEF Restore, fileVars, backendVars, historyVars
  <2>2. plan.restore \in Operation /\ backups[plan.restore] # NoBackup
    BY <2>1 DEF PlanInv, Planned, TypeOK
  <2>3. /\ backups[plan.restore].database \in Database
        /\ backups[plan.restore].config \in Release
        /\ Fits(backups[plan.restore].database, backups[plan.restore].config, operations)
    BY <2>2, BackupType DEF Bounded
  <2>4. \/ database' = backups[plan.restore].database /\ config' = config
        \/ config' = backups[plan.restore].config /\ database' = database
    BY <1>4 DEF Restore, RestoreDatabase, RestoreConfig
  <2>5. TypeOK'
    BY <2>1, <2>3, <2>4 DEF TypeOK, Step
  <2>6. Bounded'
    BY <2>1, <2>2, <2>3, <2>4, BackupType DEF TypeOK, Bounded, Release
  <2> QED
    BY <2>1, <2>3, <2>4, <2>5, <2>6
    DEF PlanInv, Planned, BackendInv, JournalInv, RecordInv, ExecuteInv, UndoInv, Terminal
<1>5. CASE Migrate
  <2>1. /\ database' \in Database /\ database'.schema = plan.op
        /\ Goes("migrate", "activate")
        /\ UNCHANGED <<journal, active, config, backups, request, ready, caller, record,
                       plan, backend, gate, acknowledged, discarded, operations, crashes>>
    BY <1>1, <1>5, SchemaSet
    DEF Migrate, TypeOK, Operation, Release, fileVars, backendVars, historyVars
  <2> QED
    BY <1>1, <2>1
    DEF TypeOK, Step, Bounded, PlanInv, Planned, BackendInv, JournalInv, RecordInv,
        ExecuteInv, UndoInv, Terminal, Operation
<1>6. CASE Activate
  BY <1>1, <1>6
  DEF Activate, TypeOK, Step, Bounded, PlanInv, Planned, BackendInv, JournalInv, RecordInv,
      ExecuteInv, UndoInv, Terminal, Operation, Release, dataVars, fileVars, backendVars,
      historyVars
<1>7. CASE Start
  <2>1. /\ Started /\ Goes("start", "check")
        /\ UNCHANGED <<journal, active, backups, request, ready, caller, record, plan,
                       acknowledged, discarded, operations, crashes>>
    BY <1>7, StartEffect DEF Start, TypeOK, fileVars, historyVars
  <2> QED
    BY <1>1, <2>1
    DEF Started, TypeOK, Step, Bounded, PlanInv, Planned, BackendInv, JournalInv,
        RecordInv, ExecuteInv, UndoInv, Terminal, Operation, Release, Database
<1> QED
  BY <1>2, <1>3, <1>4, <1>5, <1>6, <1>7

\* A step of execute that only looks, or that touches the maintenance files,
\* the commit, and any exception.
LEMMA OtherExecuteSteps ==
    IInv /\ (Quiesce \/ DropReady \/ Check \/ LogCommit \/ Raise) => IInv'
<1> SUFFICES ASSUME IInv, Quiesce \/ DropReady \/ Check \/ LogCommit \/ Raise
             PROVE  IInv'
  OBVIOUS
<1> USE DEF IInv, Executing, Undoing, Unchanged, BackedUp, Recoverable, DataFits,
            BackupFits, Fits, None, Goes
<1>1. CASE Quiesce \/ DropReady
  BY <1>1
  DEF Quiesce, DropReady, TypeOK, Step, Bounded, PlanInv, Planned, BackendInv, JournalInv,
      RecordInv, ExecuteInv, UndoInv, Terminal, dataVars, backendVars, historyVars
<1>2. CASE Check \/ Raise
  BY <1>2
  DEF Check, Raise, TypeOK, Step, Bounded, PlanInv, Planned, BackendInv, JournalInv,
      RecordInv, ExecuteInv, UndoInv, Terminal, diskVars, dataVars, fileVars, backendVars,
      historyVars
<1>3. CASE LogCommit
  <2>1. LogEffect("commit", "commit_request", "rollback", "committed",
                  record.changed, record.backup)
    BY <1>3, LogState DEF LogCommit, JournalState, Terminal, TypeOK
  <2>2. /\ discarded' \subseteq acknowledged
        /\ UNCHANGED <<active, database, config, backups, request, ready, caller, plan,
                       backend, gate, acknowledged, operations, crashes>>
    BY <1>3 DEF LogCommit, TypeOK, dataVars, fileVars, backendVars
  <2>3. active = operations /\ record.op = active /\ record.changed /\ record = journal
    BY <2>1 DEF LogEffect, PlanInv, Planned, ExecuteInv, RecordInv
  <2>4. DataFits(active)
    BY <2>3 DEF Bounded, TypeOK
  <2>5. TypeOK' /\ Bounded' /\ PlanInv' /\ BackendInv'
    BY <2>1, <2>2
    DEF LogEffect, TypeOK, Step, Clearing, Bounded, PlanInv, Planned, BackendInv
  <2>6. JournalInv'
    BY <2>1, <2>2, <2>3, <2>4 DEF LogEffect, JournalInv, Terminal
  <2>7. RecordInv' /\ ExecuteInv' /\ UndoInv'
    BY <2>1, <2>2, <2>3
    DEF LogEffect, JournalInv, RecordInv, ExecuteInv, UndoInv, Terminal
  <2> QED
    BY <2>5, <2>6, <2>7
<1> QED
  BY <1>1, <1>2, <1>3

(* ------------------------------- rollback ------------------------------- *)

\* A step of the rollback that writes the journal.
LEMMA UndoLogSteps ==
    IInv /\ (LogRollback \/ UntouchedEnd \/ UndoEnd \/ GiveUp) => IInv'
<1> SUFFICES ASSUME IInv, LogRollback \/ UntouchedEnd \/ UndoEnd \/ GiveUp
             PROVE  IInv'
  OBVIOUS
<1> USE DEF IInv, Executing, Undoing, Unchanged, BackedUp, Recoverable, DataFits,
            BackupFits, Fits, None, Goes
<1>1. record \in Record
  BY DEF TypeOK
<1>2. CASE LogRollback
  <2>1. LogEffect("rollback", "decide", "give_up", "rolling_back",
                  record.changed, record.backup)
    BY <1>1, <1>2, LogState DEF LogRollback, JournalState
  <2>2. UNCHANGED <<active, database, config, backups, request, ready, caller, plan,
                    backend, gate, acknowledged, discarded, operations, crashes>>
    BY <1>2 DEF LogRollback, dataVars, fileVars, backendVars, historyVars
  <2> QED
    BY <2>1, <2>2
    DEF LogEffect, TypeOK, Step, Bounded, PlanInv, Planned, BackendInv, JournalInv,
        RecordInv, ExecuteInv, UndoInv, JournalState, Terminal
<1>3. CASE UntouchedEnd
  <2>1. LogEffect("untouched_end", Return(TRUE), "give_up", "rolled_back",
                  record.changed, record.backup)
    BY <1>1, <1>3, LogState DEF UntouchedEnd, JournalState, Terminal
  <2>2. UNCHANGED <<active, database, config, backups, request, ready, caller, plan,
                    backend, gate, acknowledged, discarded, operations, crashes>>
    BY <1>3 DEF UntouchedEnd, dataVars, fileVars, backendVars, historyVars
  <2>3. \/ journal' = record' /\ step' \in {"finish", "boot_start", "idle"}
        \/ journal' = journal /\ step' = "give_up"
    BY <2>1, ReturnCases DEF LogEffect
  <2>4. TypeOK' /\ Bounded'
    BY <2>1, <2>2, <2>3 DEF LogEffect, TypeOK, Step, Bounded
  <2>5. PlanInv' /\ BackendInv' /\ JournalInv'
    BY <2>1, <2>2, <2>3
    DEF LogEffect, PlanInv, Planned, BackendInv, JournalInv, RecordInv, UndoInv, Terminal
  <2>6. RecordInv' /\ ExecuteInv' /\ UndoInv'
    BY <2>1, <2>2, <2>3
    DEF LogEffect, JournalInv, RecordInv, ExecuteInv, UndoInv, Terminal
  <2> QED
    BY <2>4, <2>5, <2>6
<1>4. CASE UndoEnd
  <2>1. LogEffect("undo_end", "undone_request", "give_up", "rolled_back",
                  record.changed, record.backup)
    BY <1>1, <1>4, LogState DEF UndoEnd, JournalState, Terminal
  <2>2. UNCHANGED <<active, database, config, backups, request, ready, caller, plan,
                    backend, gate, acknowledged, discarded, operations, crashes>>
    BY <1>4 DEF UndoEnd, dataVars, fileVars, backendVars, historyVars
  <2> QED
    BY <2>1, <2>2
    DEF LogEffect, TypeOK, Step, Clearing, Bounded, PlanInv, Planned, BackendInv,
        JournalInv, RecordInv, ExecuteInv, UndoInv, JournalState, Terminal
<1>5. CASE GiveUp
  <2>1. /\ record' \in Record /\ record'.state = "recovery_required"
        /\ record'.previous = record.previous /\ record'.changed = record.changed
        /\ record'.backup = record.backup
    BY <1>1, <1>5 DEF GiveUp, Record, JournalState
  <2>2. /\ step = "give_up" /\ step' \in {"finish", "idle"}
        /\ UNCHANGED <<backend, gate>> \/ (backend' = Down /\ gate' = None)
        /\ journal' \in {journal, record'}
        /\ UNCHANGED <<active, database, config, backups, request, ready, caller, plan,
                       acknowledged, discarded, operations, crashes>>
    BY <1>5, ReturnCases
    DEF GiveUp, StopBackend, dataVars, fileVars, backendVars, historyVars
  <2>3. TypeOK' /\ Bounded'
    BY <2>1, <2>2 DEF TypeOK, Step, Bounded
  <2> QED
    BY <2>1, <2>2, <2>3
    DEF PlanInv, Planned, BackendInv, JournalInv, RecordInv, ExecuteInv, UndoInv, Terminal
<1> QED
  BY <1>2, <1>3, <1>4, <1>5

\* A step of the rollback that restores the data or the selected release, or
\* starts or stops the backend.
LEMMA UndoEffectSteps ==
    IInv /\ (UntouchedStart \/ UndoStop \/ UndoData \/ UndoActive \/ UndoStart) => IInv'
<1> SUFFICES ASSUME IInv, UntouchedStart \/ UndoStop \/ UndoData \/ UndoActive \/ UndoStart
             PROVE  IInv'
  OBVIOUS
<1> USE DEF IInv, Executing, Undoing, Unchanged, BackedUp, Recoverable, DataFits,
            BackupFits, Fits, None, Goes
<1>1. CASE UntouchedStart
  <2>1. /\ Started \/ UNCHANGED <<backend, gate, database, config>>
        /\ Goes("untouched_start", "untouched_end")
        /\ UNCHANGED <<journal, active, backups, request, ready, caller, record, plan,
                       acknowledged, discarded, operations, crashes>>
    BY <1>1, StartEffect
    DEF UntouchedStart, TypeOK, dataVars, fileVars, backendVars, historyVars
  <2> QED
    BY <2>1
    DEF Started, TypeOK, Step, Bounded, PlanInv, Planned, BackendInv, JournalInv,
        RecordInv, ExecuteInv, UndoInv, Terminal, Release, Database
<1>2. CASE UndoStop
  BY <1>2
  DEF UndoStop, StopBackend, TypeOK, Step, Bounded, PlanInv, Planned, BackendInv,
      JournalInv, RecordInv, ExecuteInv, UndoInv, Terminal, diskVars, dataVars, fileVars,
      historyVars
<1>3. CASE UndoData
  <2>1. /\ step \in {"undo_database", "undo_config"}
        /\ step' = IF step = "undo_database" THEN "undo_config" ELSE "undo_active"
        /\ UNCHANGED <<journal, active, backups, request, ready, caller, record, plan,
                       backend, gate, acknowledged, discarded, operations, crashes>>
    BY <1>3 DEF UndoData, fileVars, backendVars, historyVars
  <2>2. record = journal /\ record.changed /\ record.backup \in Operation
    BY <1>3, <2>1 DEF UndoData, RecordInv, UndoInv, TypeOK, Record
  <2>3. BackupFits(record.backup, record.previous)
    BY <2>2 DEF JournalInv
  <2>4. /\ backups[record.backup].database \in Database
        /\ backups[record.backup].database.schema \in Release
        /\ backups[record.backup].config \in Release
        /\ Fits(backups[record.backup].database, backups[record.backup].config, operations)
    BY <2>2, <2>3, BackupType DEF Bounded
  <2>5. \/ /\ step = "undo_database"
           /\ database' = backups[record.backup].database /\ config' = config
        \/ /\ step = "undo_config"
           /\ config' = backups[record.backup].config /\ database' = database
    BY <1>3 DEF UndoData, RestoreDatabase, RestoreConfig
  <2>6. TypeOK'
    BY <2>1, <2>4, <2>5 DEF TypeOK, Step
  <2>7. Bounded'
    BY <2>1, <2>4, <2>5 DEF TypeOK, Bounded, Release
  <2> QED
    BY <2>1, <2>2, <2>3, <2>5, <2>6, <2>7
    DEF PlanInv, Planned, BackendInv, JournalInv, RecordInv, ExecuteInv, UndoInv
<1>4. CASE UndoActive
  <2>1. /\ Goes("undo_active", "undo_ready") /\ active' = record.previous
        /\ UNCHANGED <<journal, database, config, backups, request, ready, caller, record,
                       plan, backend, gate, acknowledged, discarded, operations, crashes>>
    BY <1>4 DEF UndoActive, dataVars, fileVars, backendVars, historyVars
  <2>2. TypeOK' /\ Bounded'
    BY <2>1 DEF TypeOK, Record, Step, Bounded
  <2>3. record = journal /\ record.state \notin Terminal
    BY <2>1 DEF RecordInv
  <2>4. PlanInv' /\ BackendInv'
    BY <2>1 DEF PlanInv, Planned, BackendInv
  <2>5. JournalInv' /\ RecordInv'
    BY <2>1, <2>3 DEF JournalInv, RecordInv, Terminal
  <2>6. ExecuteInv' /\ UndoInv'
    BY <2>1 DEF ExecuteInv, UndoInv
  <2> QED
    BY <2>2, <2>4, <2>5, <2>6
<1>5. CASE UndoStart
  <2>1. /\ Started /\ Goes("undo_start", "undo_check")
        /\ UNCHANGED <<journal, active, backups, request, ready, caller, record, plan,
                       acknowledged, discarded, operations, crashes>>
    BY <1>5, StartEffect DEF UndoStart, TypeOK, fileVars, historyVars
  <2> QED
    BY <2>1
    DEF Started, TypeOK, Step, Bounded, PlanInv, Planned, BackendInv, JournalInv,
        RecordInv, ExecuteInv, UndoInv, Terminal, Release, Database
<1> QED
  BY <1>1, <1>2, <1>3, <1>4, <1>5

\* A step of the rollback that only looks, and its exceptions.
LEMMA OtherUndoSteps ==
    IInv /\ (Decide \/ UndoReady \/ UndoCheck \/ UndoRaises) => IInv'
<1> SUFFICES ASSUME IInv, Decide \/ UndoReady \/ UndoCheck \/ UndoRaises
             PROVE  IInv'
  OBVIOUS
<1> USE DEF IInv, TypeOK, Bounded, PlanInv, Planned, BackendInv, JournalInv, RecordInv,
            ExecuteInv, UndoInv, Executing, Undoing, Unchanged, BackedUp, Recoverable,
            DataFits, BackupFits, Fits, None, Goes, Step, Terminal
<1>1. CASE Decide
  BY <1>1 DEF Decide, Clearing, diskVars, dataVars, fileVars, backendVars, historyVars
<1>2. CASE UndoReady
  BY <1>2 DEF UndoReady, dataVars, backendVars, historyVars
<1>3. CASE UndoCheck \/ UndoRaises
  BY <1>3 DEF UndoCheck, UndoRaises, diskVars, dataVars, fileVars, backendVars, historyVars
<1> QED
  BY <1>1, <1>2, <1>3

(* -------------------- the end of an operation, restarts ----------------- *)

\* The end of an operation, a recovery and a boot of the controller.
LEMMA EndingSteps ==
    IInv /\ (ClearRequest \/ ClearReady \/ Stuck \/ Finish \/ FinishFailed
             \/ Recover \/ Boot \/ BootStart) => IInv'
<1> SUFFICES ASSUME IInv, ClearRequest \/ ClearReady \/ Stuck \/ Finish \/ FinishFailed
                          \/ Recover \/ Boot \/ BootStart
             PROVE  IInv'
  OBVIOUS
<1> USE DEF IInv, PlanInv, Planned, BackendInv, JournalInv, RecordInv, ExecuteInv, UndoInv,
            Executing, Undoing, Unchanged, BackedUp, Recoverable, DataFits, BackupFits,
            Fits, None, Goes, Terminal
<1>1. CASE ClearRequest
  <2>1. TypeOK' /\ Bounded'
    BY <1>1 DEF ClearRequest, TypeOK, Step, Clearing, Bounded, dataVars, backendVars,
                historyVars
  <2> QED
    BY <1>1, <2>1 DEF ClearRequest, dataVars, backendVars, historyVars
<1>2. CASE ClearReady
  <2>1. /\ \/ step = "commit_ready" /\ step' = "finish"
           \/ step = "untouched_ready" /\ step' = "untouched_start"
           \/ step = "undone_ready" /\ step' \in {"finish", "boot_start", "idle"}
           \/ step = "finish_ready" /\ step' = "idle"
           \/ step = "boot_ready" /\ step' = "boot_start"
        /\ ready' = None
        /\ UNCHANGED <<journal, active, database, config, backups, request, caller, record,
                       plan, backend, gate, acknowledged, discarded, operations, crashes>>
    BY <1>2, ReturnCases DEF ClearReady, dataVars, backendVars, historyVars
  <2>2. TypeOK' /\ Bounded'
    BY <2>1 DEF TypeOK, Step, Clearing, Bounded
  <2> QED
    BY <2>1, <2>2
<1>3. CASE Stuck
  <2>1. /\ \/ step \in {"commit_request", "commit_ready"} /\ step' = "rollback"
           \/ /\ step \in {"untouched_request", "untouched_ready", "undone_request",
                           "undone_ready"}
              /\ step' = "give_up"
           \/ step' \in {"idle", "finish_failed"}
        /\ UNCHANGED <<journal, active, database, config, backups, request, ready, caller,
                       record, plan, backend, gate, acknowledged, discarded, operations,
                       crashes>>
    BY <1>3 DEF Stuck, diskVars, dataVars, fileVars, backendVars, historyVars
  <2>2. TypeOK' /\ Bounded'
    BY <2>1 DEF TypeOK, Step, Bounded
  <2> QED
    BY <2>1, <2>2
<1>4. CASE Finish
  BY <1>4 DEF Finish, TypeOK, Step, Clearing, Bounded, diskVars, dataVars, fileVars,
              backendVars, historyVars
<1>5. CASE FinishFailed
  <2>1. \/ UNCHANGED journal
        \/ /\ journal' \in Record /\ journal'.state = "recovery_required"
           /\ journal'.previous = journal.previous
           /\ journal'.changed = journal.changed /\ journal'.backup = journal.backup
    BY <1>5 DEF FinishFailed, TypeOK, Record, JournalState
  <2>2. /\ Goes("finish_failed", "idle")
        /\ UNCHANGED <<active, database, config, backups, request, ready, caller, record,
                       plan, backend, gate, acknowledged, discarded, operations, crashes>>
    BY <1>5 DEF FinishFailed, dataVars, fileVars, backendVars, historyVars
  <2>3. TypeOK' /\ Bounded'
    BY <2>1, <2>2 DEF TypeOK, Step, Bounded
  <2> QED
    BY <2>1, <2>2, <2>3
<1>6. CASE Recover \/ Boot
  <2>1. /\ \/ step' = "rollback" /\ record' = journal
           \/ step' = "boot_request" /\ record' = record /\ journal.state \in Terminal
        /\ caller' \in {"recover", "boot"}
        /\ UNCHANGED <<journal, active, database, config, backups, request, ready, plan,
                       backend, gate, acknowledged, discarded, operations, crashes>>
    BY <1>6 DEF Recover, Boot, diskVars, dataVars, fileVars, backendVars, historyVars
  <2>2. TypeOK' /\ Bounded'
    BY <2>1 DEF TypeOK, Step, Clearing, Bounded
  <2> QED
    BY <2>1, <2>2
<1>7. CASE BootStart
  <2>1. /\ Started \/ UNCHANGED <<backend, gate, database, config>>
        /\ Goes("boot_start", "idle")
        /\ UNCHANGED <<journal, active, backups, request, ready, caller, record, plan,
                       acknowledged, discarded, operations, crashes>>
    BY <1>7, StartEffect
    DEF BootStart, TypeOK, dataVars, fileVars, backendVars, historyVars
  <2> QED
    BY <2>1 DEF Started, TypeOK, Step, Bounded, Release, Database
<1> QED
  BY <1>1, <1>2, <1>3, <1>4, <1>5, <1>6, <1>7

\* Losses of power, and what happens beside the controller.
LEMMA EnvironmentSteps ==
    ASSUME RestartMayBeLate = FALSE, IInv,
           PowerLoss \/ UserStart \/ BackendDies \/ Watch \/ \E w \in Write : UserWrite(w)
    PROVE  IInv'
<1> USE DEF IInv, PlanInv, Planned, BackendInv, JournalInv, RecordInv, ExecuteInv, UndoInv,
            Executing, Undoing, Unchanged, BackedUp, Recoverable, DataFits, BackupFits,
            Fits, None, Goes, Terminal, TypeOK, Bounded
<1>1. CASE PowerLoss
  BY <1>1, TransactionAssumption
  DEF PowerLoss, StopBackend, Step, diskVars, dataVars, fileVars
<1>2. CASE UserStart
  <2>1. /\ Started /\ step = "idle" /\ journal.state \in Terminal
        /\ UNCHANGED <<journal, active, backups, request, ready, step, caller, record, plan,
                       acknowledged, discarded, operations, crashes>>
    BY <1>2, StartEffect DEF UserStart, fileVars, controlVars, historyVars
  <2> QED
    BY <2>1 DEF Started, Release, Database
<1>3. CASE BackendDies
  BY <1>3
  DEF BackendDies, StopBackend, diskVars, dataVars, fileVars, controlVars, historyVars
<1>4. CASE Watch
  BY <1>4 DEF Watch, dataVars, controlVars, historyVars
<1>5. ASSUME NEW w \in Write, UserWrite(w)
      PROVE  IInv'
  <2>1. /\ database' \in Database /\ database'.schema = database.schema
        /\ acknowledged' = acknowledged \union {w}
        /\ UNCHANGED <<journal, active, config, backups, request, ready, step, caller,
                       record, plan, backend, gate, discarded, operations, crashes>>
    BY <1>5 DEF UserWrite, Database, fileVars, controlVars, backendVars
  <2> QED
    BY <2>1
<1> QED
  BY <1>1, <1>2, <1>3, <1>4, <1>5

(* ------------------------------- theorems ------------------------------- *)

\* At first nothing is installed that is newer than the first release.
LEMMA InitIInv == Init => IInv
<1> SUFFICES ASSUME Init
             PROVE  IInv
  OBVIOUS
<1> USE DEF Init, None
<1>1. EmptyRecord \in Record
  BY TransactionAssumption DEF EmptyRecord, Record, JournalState, Terminal, Release
<1>2. database \in Database /\ database.schema = 0
  BY TransactionAssumption DEF Database, Release
<1>3. TypeOK
  BY <1>1, <1>2, TransactionAssumption DEF TypeOK, EmptyRecord, Release, Step
<1>4. Bounded /\ PlanInv /\ BackendInv
  BY <1>2 DEF Bounded, PlanInv, Planned, BackendInv, Executing, DataFits, Fits, EmptyRecord
<1>5. JournalInv /\ RecordInv
  BY <1>2 DEF JournalInv, RecordInv, Recoverable, EmptyRecord, Executing, Undoing, Terminal,
              DataFits, Fits
<1>6. ExecuteInv /\ UndoInv
  BY DEF ExecuteInv, UndoInv, Executing, Unchanged, BackedUp
<1> QED
  BY <1>3, <1>4, <1>5, <1>6 DEF IInv

\* No step of the controller, of the backend or of power breaks the invariant.
LEMMA Inductive ==
    ASSUME RestartMayBeLate = FALSE, IInv, [Next]_vars
    PROVE  IInv'
<1>1. IInv /\ UNCHANGED vars => IInv'
  BY DEF IInv, TypeOK, Bounded, PlanInv, BackendInv, JournalInv, RecordInv, ExecuteInv,
         UndoInv, Recoverable, DataFits, BackupFits, Fits, vars, diskVars, dataVars,
         fileVars, controlVars, backendVars, historyVars
<1>2. Execute =>
        \/ Download \/ Drained \/ LogBackup \/ LogInstall \/ LogRestore \/ LogMigration
        \/ LogValidate
        \/ Stop \/ Backup \/ Restore \/ Migrate \/ Activate \/ Start
        \/ Quiesce \/ DropReady \/ Check \/ LogCommit \/ Raise
  BY DEF Execute
<1>3. Undo =>
        \/ LogRollback \/ UntouchedEnd \/ UndoEnd \/ GiveUp
        \/ UntouchedStart \/ UndoStop \/ UndoData \/ UndoActive \/ UndoStart
        \/ Decide \/ UndoReady \/ UndoCheck \/ UndoRaises
  BY DEF Undo
<1> QED
  BY <1>1, <1>2, <1>3, AcceptingSteps, LogSteps, EffectSteps, OtherExecuteSteps,
     UndoLogSteps, UndoEffectSteps, OtherUndoSteps, EndingSteps, EnvironmentSteps
  DEF Next, Controller

\* The invariant holds in every reachable state.
THEOREM Invariant ==
    ASSUME RestartMayBeLate = FALSE
    PROVE  Spec => []IInv
<1>1. IInv /\ [Next]_vars => IInv'
  BY Inductive
<1> QED
  BY <1>1, InitIInv, PTL DEF Spec

\* Every variable keeps its type, and a record only names a backup that is
\* there: _rollback never restores what was not backed up.
THEOREM TypeCorrect ==
    ASSUME RestartMayBeLate = FALSE
    PROVE  Spec => []TypeOK
<1>1. IInv => TypeOK
  BY DEF IInv
<1> QED
  BY <1>1, Invariant, PTL

\* However often execute, _rollback and recover are interrupted or fail, a
\* backend that runs never meets a format newer than its own.
THEOREM CodeAlwaysFitsData ==
    ASSUME RestartMayBeLate = FALSE
    PROVE  Spec => []CodeFitsData
<1>1. IInv => CodeFitsData
  BY DEF IInv, BackendInv, DataFits, Fits, CodeFitsData
<1> QED
  BY <1>1, Invariant, PTL

\* A journal that says committed or rolled_back tells what is installed: the
\* new release, or the previous one with data it can read.
THEOREM DecisionsAreInstalled ==
    ASSUME RestartMayBeLate = FALSE
    PROVE  Spec => []DecidedMeansInstalled
<1>1. IInv => DecidedMeansInstalled
  BY DEF IInv, JournalInv, DataFits, Fits, Terminal, DecidedMeansInstalled
<1> QED
  BY <1>1, Invariant, PTL
=============================================================================
