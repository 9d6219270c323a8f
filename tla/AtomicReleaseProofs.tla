------------------------- MODULE AtomicReleaseProofs -------------------------
(***************************************************************************)
(* ModuleTransaction implements AtomicRelease, for any number of           *)
(* operations, losses of power and writes, where the maintenance files can *)
(* be removed, a plan finds its backend running and a restart acts in      *)
(* time.  README.md says what becomes of each property without that.       *)
(*                                                                         *)
(* Neither what serves nor what is kept is inductive: that a write meets   *)
(* an open gate depends on the request that is on disk, who withdraws it   *)
(* on what the journal decided, and what a recovery will restore on the    *)
(* backup that was made before the last writer was gone.                   *)
(***************************************************************************)
EXTENDS ModuleTransactionProofs

\* No write of a user is taken.
NoOneServed == backend = Down \/ gate # None

Told == acknowledged \ discarded
InBackup(b) == backups[b].database.writes

\* An operation is newer than anything before it, and its backup is not made yet.
NotBackedUp == {"prepare", "begin", "download", "quiesce", "await", "stop", "save", "backup"}

NumberInv ==
    /\ step \in {"prepare", "begin"} => active < plan.op
    /\ step \in Executing => record.previous < record.op
    /\ step \in NotBackedUp => backups[plan.op] = NoBackup
    /\ \A o \in Operation : backups[o] # NoBackup => o <= operations
    /\ journal.state \in {"none", "failed"} => ~ journal.changed

\* The request stands from the drain to the commit, or to the end of the
\* rollback, and not beyond it.
Asked == Executing \ {"download", "quiesce"}
Withdrawn == {"untouched_ready", "untouched_start", "untouched_end", "undone_ready",
              "finish_ready", "boot_ready", "boot_start"}

RequestInv ==
    /\ step # "finish_failed"
    /\ step \in Withdrawn => request = None
    /\ step = "idle" /\ journal.state \in Terminal => request = None
    /\ step = "prepare" \/ step \in Asked => request = plan.op
    /\ step \in {"begin", "download", "quiesce"} =>
         request = plan.op \/ (request = None /\ backend # Down)
    /\ step \in {"finish_request", "finish_ready"} => journal.state \in Terminal

\* While an operation is unfinished, the previous release serves, or nobody is
\* served and no start changes that.
AdmissionInv ==
    /\ journal.state \notin Terminal =>
         IF journal.changed THEN request # None /\ NoOneServed
                            ELSE backend # Down => active = journal.previous
    /\ step \in {"rollback", "give_up"} =>
         /\ journal.state \notin Terminal
         /\ record.previous = journal.previous
         /\ journal.changed => record.changed
         /\ record.changed => request # None /\ NoOneServed

\* Where the writes are that execute, a rollback or a recovery will keep.
Reverted == {"undo_config", "undo_active", "undo_ready", "undo_start", "undo_check", "undo_end"}

WritesInv ==
    /\ Told \subseteq Kept
    /\ step = "install" \/ step \in BackedUp =>
         (plan.restore = None \/ ~ record.changed => database.writes = InBackup(plan.op))
    /\ step \in BackedUp \ {"restore", "restore_database"} =>
         (plan.restore # None => database.writes = InBackup(plan.restore))
    /\ step \in {"rollback", "give_up"} =>
         (record.changed => InBackup(record.backup) = Kept)
    /\ step \in Reverted => database.writes = Kept

\* The release the journal says is installed.
Installed == IF journal.state = "committed" THEN journal.op ELSE journal.previous

\* Most steps change neither that, nor what is kept, nor the backups.
Still == UNCHANGED <<Installed, Kept, backups>>

SafeInv == IInv /\ NumberInv /\ RequestInv /\ AdmissionInv /\ WritesInv

(* ------------------------------- operators ------------------------------ *)

\* What start_backend does to the admission: a backend that was down closes its
\* gate for the request that stands.  A migration keeps what users wrote.
Opened ==
    /\ backend # Down => UNCHANGED <<backend, gate>>
    /\ backend = Down => backend' = active /\ gate' = request
    /\ database'.writes = database.writes

\* start_backend does that.
LEMMA OpenEffect ==
    ASSUME database \in Database, StartBackend
    PROVE  Opened
<1>1. CASE backend # Down
  BY <1>1 DEF StartBackend, Opened, backendVars, dataVars
<1>2. CASE backend = Down
  <2>1. database'.writes = database.writes
    BY <1>2 DEF StartBackend, Database
  <2> QED
    BY <1>2, <2>1 DEF StartBackend, Opened
<1> QED
  BY <1>1, <1>2

(* ------------------------- accepting an operation ----------------------- *)

\* An operation that is accepted, prepared or refused.
LEMMA SafeAccepting ==
    ASSUME ~ MayBeDown, SafeInv, Submit \/ Prepare \/ PrepareFails \/ Accept \/ Begin
    PROVE  NumberInv' /\ RequestInv' /\ AdmissionInv' /\ WritesInv' /\ Still
<1> USE DEF SafeInv, IInv, Executing, Undoing, Unchanged, BackedUp, None, Goes,
            NoOneServed, Told, InBackup, NotBackedUp, Asked, Withdrawn, Reverted, Still, Installed,
            Operation, Release
<1>1. CASE Submit
  <2>1. /\ operations' = operations + 1 /\ operations' \in Operation
        /\ Goes("idle", "prepare") /\ journal.state \in Terminal
        /\ plan'.op = operations' /\ request' = operations' /\ caller' = "work"
        /\ UNCHANGED <<journal, active, database, config, backups, ready, record, backend,
                       gate, acknowledged, discarded, crashes>>
    BY <1>1, TransactionAssumption DEF Submit, TypeOK, dataVars, backendVars
  <2>2. active < operations' /\ operations \in Nat /\ active <= operations
    BY <2>1 DEF Bounded, TypeOK
  <2>3. NumberInv'
    BY <2>1, <2>2 DEF NumberInv
  <2> QED
    BY <2>1, <2>3 DEF RequestInv, AdmissionInv, WritesInv, Kept
<1>2. CASE Prepare
  <2>1. plan'.op = plan.op
    BY <1>2 DEF Prepare, TypeOK
  <2> QED
    BY <1>2, <2>1
    DEF Prepare, NumberInv, RequestInv, AdmissionInv, WritesInv, Kept, diskVars, dataVars,
        fileVars, backendVars, historyVars
<1>3. CASE PrepareFails
  BY <1>3
  DEF PrepareFails, NumberInv, RequestInv, AdmissionInv, WritesInv, Kept, diskVars,
      dataVars, fileVars, backendVars, historyVars
<1>4. CASE Accept
  <2>1. /\ operations' = operations + 1 /\ operations' \in Operation
        /\ Goes("idle", "begin") /\ journal.state \in Terminal /\ backend # Down
        /\ UNCHANGED <<journal, active, database, config, backups, request, ready, record,
                       backend, gate, acknowledged, discarded, crashes>>
    BY <1>4, TransactionAssumption
    DEF Accept, TypeOK, diskVars, dataVars, fileVars, backendVars
  <2>2. plan'.op = operations'
    BY <1>4 DEF Accept, NewPlan
  <2>3. active < operations' /\ operations \in Nat /\ active <= operations
    BY <2>1 DEF Bounded, TypeOK
  <2>4. NumberInv'
    BY <2>1, <2>2, <2>3 DEF NumberInv
  <2> QED
    BY <2>1, <2>2, <2>4 DEF RequestInv, AdmissionInv, WritesInv, Kept
<1>5. CASE Begin
  <2> DEFINE r == [EmptyRecord EXCEPT !.state = "downloading", !.op = plan.op,
                                      !.previous = active, !.wasRunning = backend # Down]
  <2>1. /\ r.state = "downloading" /\ r.op = plan.op
        /\ r.previous = active /\ ~ r.changed /\ r.backup = None
    BY DEF EmptyRecord
  <2>2. \/ /\ record' = r /\ step = "begin"
           /\ \/ journal' = r /\ step' = "download"
              \/ journal' = journal /\ step' = "finish"
        \/ Goes("begin", "finish") /\ UNCHANGED <<journal, record>>
    BY <1>5 DEF Begin, Log
  <2> HIDE DEF r
  <2>3. UNCHANGED <<active, database, config, backups, request, ready, caller, plan,
                    backend, gate, acknowledged, discarded, operations, crashes>>
    BY <1>5 DEF Begin, dataVars, fileVars, backendVars, historyVars
  <2>4. NumberInv' /\ RequestInv'
    BY <2>1, <2>2, <2>3 DEF NumberInv, RequestInv, Terminal
  <2>5. journal.state \in Terminal
    BY <2>2 DEF JournalInv
  <2>6. AdmissionInv'
    BY <2>1, <2>2, <2>3, <2>5 DEF AdmissionInv, Terminal
  <2>7. WritesInv'
    BY <2>1, <2>2, <2>3, <2>5 DEF WritesInv, Kept, Terminal
  <2>8. Still
    BY <2>1, <2>2, <2>3, <2>5 DEF Kept, JournalInv, NumberInv, Terminal
  <2> QED
    BY <2>4, <2>6, <2>7, <2>8
<1> QED
  BY <1>1, <1>2, <1>3, <1>4, <1>5

(* ------------------------------- execute -------------------------------- *)

\* While execute changes anything, no write of a user is taken, and a write of
\* the journal keeps it so.
LEMMA SafeExecuteLogs ==
    ASSUME SafeInv, Download \/ Drained \/ LogBackup \/ LogInstall \/ LogRestore
                    \/ LogMigration \/ LogValidate
    PROVE  NumberInv' /\ RequestInv' /\ AdmissionInv' /\ WritesInv' /\ Still
<1> USE DEF SafeInv, IInv, Executing, Undoing, Unchanged, BackedUp, None,
            NoOneServed, Told, InBackup, NotBackedUp, Asked, Withdrawn, Reverted, Still, Installed
<1>1. record \in Record
  BY DEF TypeOK
<1>2. UNCHANGED <<active, database, config, backups, request, ready, caller, plan,
                  backend, gate, acknowledged, discarded, operations, crashes>>
  BY DEF Download, Drained, LogBackup, LogInstall, LogRestore, LogMigration, LogValidate,
         dataVars, fileVars, backendVars, historyVars
<1>3. /\ step \in Executing /\ record = journal /\ journal.state \notin Terminal
      /\ plan.op # None
  BY DEF Download, Drained, LogBackup, LogInstall, LogRestore, LogMigration, LogValidate,
         Log, Goes, RecordInv, PlanInv, Planned
<1>4. CASE Download
  <2>1. LogEffect("download", "quiesce", "rollback", "draining",
                  record.changed, record.backup)
    BY <1>1, <1>4, LogState DEF Download, JournalState
  <2>2. ~ record.changed
    BY <2>1 DEF LogEffect, ExecuteInv
  <2> QED
    BY <1>2, <1>3, <2>1, <2>2
    DEF LogEffect, NumberInv, RequestInv, AdmissionInv, WritesInv, Kept, Terminal
<1>5. CASE Drained
  <2>1. LogEffect("await", "stop", "rollback", "stopping", record.changed, record.backup)
    BY <1>1, <1>5, LogState DEF Drained, JournalState
  <2>2. ~ record.changed
    BY <2>1 DEF LogEffect, ExecuteInv
  <2> QED
    BY <1>2, <1>3, <2>1, <2>2
    DEF LogEffect, NumberInv, RequestInv, AdmissionInv, WritesInv, Kept, Terminal
<1>6. CASE LogBackup
  <2>1. LogEffect("save", "backup", "rollback", "backing_up",
                  record.changed, record.backup)
    BY <1>1, <1>6, LogState DEF LogBackup, JournalState
  <2>2. ~ record.changed
    BY <2>1 DEF LogEffect, ExecuteInv
  <2> QED
    BY <1>2, <1>3, <2>1, <2>2
    DEF LogEffect, NumberInv, RequestInv, AdmissionInv, WritesInv, Kept, Terminal
<1>7. CASE LogInstall
  <2>1. step = "install"
    BY <1>7 DEF LogInstall, Log
  <2>2. plan.op \in Operation
    BY <2>1 DEF TypeOK, PlanInv, Planned
  <2>3. LogEffect("install", IF plan.restore # None THEN "restore" ELSE "migration",
                  "rollback", "installing", record.changed, plan.op)
    BY <1>1, <1>7, <2>2, LogNamesBackup DEF LogInstall, JournalState
  <2>4. ~ record.changed
    BY <2>1 DEF ExecuteInv
  <2> QED
    BY <1>2, <1>3, <2>1, <2>3, <2>4
    DEF LogEffect, NumberInv, RequestInv, AdmissionInv, WritesInv, Kept, Terminal
<1>8. CASE LogRestore
  <2>1. LogEffect("restore", "restore_database", "rollback", "restoring",
                  TRUE, record.backup)
    BY <1>1, <1>8, LogChanged DEF LogRestore, JournalState
  <2>2. backend = Down /\ record.backup = plan.op
    BY <2>1 DEF LogEffect, BackendInv, ExecuteInv
  <2> QED
    BY <1>2, <1>3, <2>1, <2>2
    DEF LogEffect, NumberInv, RequestInv, AdmissionInv, WritesInv, Kept, Terminal
<1>9. CASE LogMigration
  <2>1. \/ LogEffect("migration", "migrate", "rollback", "migrating",
                     TRUE, record.backup)
        \/ Goes("migration", "activate") /\ UNCHANGED <<journal, record>>
    BY <1>1, <1>9, LogChanged DEF LogMigration, JournalState
  <2>2. backend = Down /\ record.backup = plan.op
    BY <2>1 DEF LogEffect, Goes, BackendInv, ExecuteInv
  <2> QED
    BY <1>2, <1>3, <2>1, <2>2
    DEF LogEffect, Goes, NumberInv, RequestInv, AdmissionInv, WritesInv, Kept, Terminal
<1>10. CASE LogValidate
  <2>1. LogEffect("validate", "start", "rollback", "validating", TRUE, record.backup)
    BY <1>1, <1>10, LogChanged DEF LogValidate, JournalState
  <2>2. backend = Down /\ record.backup = plan.op
    BY <2>1 DEF LogEffect, BackendInv, ExecuteInv
  <2> QED
    BY <1>2, <1>3, <2>1, <2>2
    DEF LogEffect, NumberInv, RequestInv, AdmissionInv, WritesInv, Kept, Terminal
<1> QED
  BY <1>4, <1>5, <1>6, <1>7, <1>8, <1>9, <1>10

\* The backup is what users wrote when the last writer was gone, and what is
\* restored is the copy the plan names.
LEMMA SafeEffects ==
    ASSUME SafeInv, Stop \/ Backup \/ Restore \/ Migrate \/ Activate \/ Start
    PROVE  NumberInv' /\ RequestInv' /\ AdmissionInv' /\ WritesInv' /\ (Still \/ Backup)
<1> USE DEF SafeInv, IInv, Executing, Undoing, Unchanged, BackedUp, None, Goes,
            NoOneServed, Told, InBackup, NotBackedUp, Asked, Withdrawn, Reverted, Still, Installed
<1>1. /\ plan.op = operations /\ plan.op \in Operation /\ request = plan.op
      /\ step \in Executing /\ record = journal /\ journal.state \notin Terminal
  BY DEF Stop, Backup, Restore, Migrate, Activate, Start, TypeOK, PlanInv, Planned,
         RecordInv, RequestInv
<1>2. CASE Stop
  BY <1>1, <1>2
  DEF Stop, StopBackend, ExecuteInv, NumberInv, RequestInv, AdmissionInv, WritesInv, Kept,
      diskVars, dataVars, fileVars, historyVars
<1>3. CASE Backup
  <2> DEFINE b == [database |-> database, config |-> config]
  <2>1. b.database = database /\ b # NoBackup
    BY TransactionAssumption DEF BackupOf, TypeOK
  <2>2. /\ backups' = [backups EXCEPT ![plan.op] = b] /\ Goes("backup", "install")
        /\ UNCHANGED <<journal, active, database, config, request, ready, caller, record,
                       plan, backend, gate, acknowledged, discarded, operations, crashes>>
    BY <1>3 DEF Backup, dataVars, fileVars, backendVars, historyVars
  <2> HIDE DEF b
  <2>3. /\ backups'[plan.op] = b
        /\ \A o \in Operation : o # plan.op => backups'[o] = backups[o]
    BY <1>1, <2>2 DEF TypeOK
  <2>4. ~ journal.changed /\ operations \in Nat
    BY <1>1, <2>2 DEF ExecuteInv, TypeOK
  <2>5. NumberInv' /\ RequestInv' /\ AdmissionInv'
    BY <1>1, <2>2, <2>3, <2>4 DEF NumberInv, RequestInv, AdmissionInv
  <2>6. Kept' = Kept /\ Kept = database.writes
    BY <2>2, <2>4 DEF Kept
  <2>7. WritesInv'
    BY <2>1, <2>2, <2>3, <2>6 DEF WritesInv
  <2> QED
    BY <1>3, <2>5, <2>7
<1>4. CASE Restore
  <2>1. UNCHANGED <<journal, active, backups, request, ready, caller, record, plan,
                    backend, gate, acknowledged, discarded, operations, crashes>>
    BY <1>4 DEF Restore, fileVars, backendVars, historyVars
  <2>2. \/ /\ Goes("restore_database", "restore_config")
           /\ database' = backups[plan.restore].database
        \/ Goes("restore_config", "migration") /\ database' = database
    BY <1>4 DEF Restore, RestoreDatabase
  <2>3. record.changed /\ record.backup # None /\ plan.restore # None
    BY <1>1, <2>2 DEF ExecuteInv, PlanInv, Operation
  <2>4. NumberInv' /\ RequestInv' /\ AdmissionInv'
    BY <1>1, <2>1, <2>2 DEF NumberInv, RequestInv, AdmissionInv
  <2>5. Kept' = Kept
    BY <1>1, <2>1, <2>3 DEF Kept
  <2>6. WritesInv'
    BY <2>1, <2>2, <2>3, <2>5 DEF WritesInv
  <2> QED
    BY <2>1, <2>4, <2>5, <2>6
<1>5. CASE Migrate
  <2>1. /\ database'.writes = database.writes /\ Goes("migrate", "activate")
        /\ UNCHANGED <<journal, active, config, backups, request, ready, caller, record,
                       plan, backend, gate, acknowledged, discarded, operations, crashes>>
    BY <1>5 DEF Migrate, TypeOK, Database, fileVars, backendVars, historyVars
  <2> QED
    BY <1>1, <2>1 DEF NumberInv, RequestInv, AdmissionInv, WritesInv, Kept
<1>6. CASE Activate
  <2>1. backend = Down
    BY <1>6 DEF Activate, BackendInv
  <2> QED
    BY <1>1, <1>6, <2>1
    DEF Activate, NumberInv, RequestInv, AdmissionInv, WritesInv, Kept, dataVars, fileVars,
        backendVars, historyVars
<1>7. CASE Start
  <2>1. /\ Opened /\ Goes("start", "check")
        /\ UNCHANGED <<journal, active, backups, request, ready, caller, record, plan,
                       acknowledged, discarded, operations, crashes>>
    BY <1>7, OpenEffect DEF Start, TypeOK, fileVars, historyVars
  <2>2. record.changed /\ backend = Down
    BY <2>1 DEF ExecuteInv, BackendInv
  <2> QED
    BY <1>1, <2>1, <2>2 DEF Opened, NumberInv, RequestInv, AdmissionInv, WritesInv, Kept
<1> QED
  BY <1>2, <1>3, <1>4, <1>5, <1>6, <1>7

\* The drain is asked for, the commit decides; any exception leaves to the
\* rollback what execute has reached.
LEMMA SafeOtherExecute ==
    ASSUME ~ MayBeDown, SafeInv, Quiesce \/ DropReady \/ Check \/ LogCommit \/ Raise
    PROVE  NumberInv' /\ RequestInv' /\ AdmissionInv' /\ WritesInv' /\ (Still \/ LogCommit)
<1> USE DEF SafeInv, IInv, Executing, Undoing, Unchanged, BackedUp, None, Goes,
            NoOneServed, Told, InBackup, NotBackedUp, Asked, Withdrawn, Reverted, Still, Installed
<1>1. /\ step \in Executing /\ record = journal /\ journal.state \notin Terminal
      /\ plan.op # None
  BY DEF Quiesce, DropReady, Check, LogCommit, Raise, Log, RecordInv, PlanInv, Planned
<1>2. CASE Quiesce \/ DropReady \/ Check
  BY <1>1, <1>2
  DEF Quiesce, DropReady, Check, NumberInv, RequestInv, AdmissionInv, WritesInv, Kept,
      diskVars, dataVars, fileVars, backendVars, historyVars
<1>3. CASE LogCommit
  <2>1. LogEffect("commit", "commit_request", "rollback", "committed",
                  record.changed, record.backup)
    BY <1>3, LogState DEF LogCommit, JournalState, Terminal, TypeOK
  <2>2. /\ discarded' = discarded \union
             IF journal' = record' /\ plan.restore # None
             THEN acknowledged \ backups[plan.restore].database.writes ELSE {}
        /\ UNCHANGED <<active, database, config, backups, request, ready, caller, plan,
                       backend, gate, acknowledged, operations, crashes>>
    BY <1>3 DEF LogCommit, dataVars, fileVars, backendVars
  <2>3. record.changed /\ record.backup = plan.op /\ request = plan.op
    BY <2>1 DEF LogEffect, ExecuteInv, RequestInv
  <2>4. Kept = InBackup(plan.op)
    BY <1>1, <2>3 DEF Kept
  <2>5. NumberInv' /\ RequestInv' /\ AdmissionInv'
    BY <1>1, <2>1, <2>2, <2>3
    DEF LogEffect, NumberInv, RequestInv, AdmissionInv, Terminal
  <2>6. CASE journal' = record' /\ step' = "commit_request"
    <3>1. Kept' = database.writes
      BY <2>1, <2>2, <2>6 DEF LogEffect, Kept, Terminal
    <3>2. Told' \subseteq Kept'
      BY <2>1, <2>2, <2>4, <2>6, <3>1 DEF LogEffect, WritesInv
    <3> QED
      BY <1>3, <2>5, <2>6, <3>2 DEF WritesInv
  <2>7. CASE journal' = journal /\ step' = "rollback"
    <3>1. Kept' = Kept /\ discarded' = discarded
      BY <1>1, <2>1, <2>2, <2>7 DEF LogEffect, Kept, Terminal
    <3> QED
      BY <2>1, <2>2, <2>3, <2>4, <2>5, <2>7, <3>1 DEF LogEffect, WritesInv
  <2> QED
    BY <2>1, <2>6, <2>7 DEF LogEffect
<1>4. CASE Raise
  <2>1. /\ step' = "rollback"
        /\ UNCHANGED <<journal, active, database, config, backups, request, ready, caller,
                       record, plan, backend, gate, acknowledged, discarded, operations,
                       crashes>>
    BY <1>4 DEF Raise, diskVars, dataVars, fileVars, backendVars, historyVars
  <2>2. record.changed => record.backup # None
    BY <1>1 DEF JournalInv, Recoverable
  <2> QED
    BY <1>1, <2>1, <2>2 DEF NumberInv, RequestInv, AdmissionInv, WritesInv, Kept
<1> QED
  BY <1>2, <1>3, <1>4

(* ------------------------------- rollback ------------------------------- *)

\* What a rollback writes down is what it found, and what it will restore.
LEMMA SafeUndoLogs ==
    ASSUME SafeInv, LogRollback \/ UntouchedEnd \/ UndoEnd \/ GiveUp
    PROVE  NumberInv' /\ RequestInv' /\ AdmissionInv' /\ WritesInv' /\ Still
<1> USE DEF SafeInv, IInv, Executing, Undoing, Unchanged, BackedUp, None, Goes,
            NoOneServed, Told, InBackup, NotBackedUp, Asked, Withdrawn, Reverted, Still, Installed
<1>1. record \in Record
  BY DEF TypeOK
<1>2. CASE LogRollback
  <2>1. LogEffect("rollback", "decide", "give_up", "rolling_back",
                  record.changed, record.backup)
    BY <1>1, <1>2, LogState DEF LogRollback, JournalState
  <2>2. UNCHANGED <<active, database, config, backups, request, ready, caller, plan,
                    backend, gate, acknowledged, discarded, operations, crashes>>
    BY <1>2 DEF LogRollback, dataVars, fileVars, backendVars, historyVars
  <2>3. record.changed => record.backup # None
    BY <2>1 DEF LogEffect, RecordInv, Recoverable
  <2>4. NumberInv' /\ RequestInv' /\ AdmissionInv'
    BY <2>1, <2>2 DEF LogEffect, NumberInv, RequestInv, AdmissionInv, Terminal
  <2>5. Kept' = Kept
    BY <2>1, <2>2, <2>3 DEF LogEffect, Kept, Terminal, AdmissionInv, WritesInv
  <2>6. Installed' = Installed
    BY <2>1 DEF LogEffect, Terminal, AdmissionInv
  <2> QED
    BY <2>1, <2>2, <2>4, <2>5, <2>6 DEF LogEffect, WritesInv
<1>3. CASE UntouchedEnd
  <2>1. LogEffect("untouched_end", Return(TRUE), "give_up", "rolled_back",
                  record.changed, record.backup)
    BY <1>1, <1>3, LogState DEF UntouchedEnd, JournalState, Terminal
  <2>2. UNCHANGED <<active, database, config, backups, request, ready, caller, plan,
                    backend, gate, acknowledged, discarded, operations, crashes>>
    BY <1>3 DEF UntouchedEnd, dataVars, fileVars, backendVars, historyVars
  <2>3. \/ journal' = record' /\ step' \in {"finish", "boot_start", "idle"}
        \/ journal' = journal /\ step' = "give_up"
    BY <2>1, ReturnCases DEF LogEffect
  <2>4. /\ record = journal /\ record.state \notin Terminal /\ ~ record.changed
        /\ request = None
    BY <2>1 DEF LogEffect, RecordInv, UndoInv, RequestInv
  <2>5. NumberInv' /\ RequestInv' /\ AdmissionInv'
    BY <2>1, <2>2, <2>3, <2>4
    DEF LogEffect, NumberInv, RequestInv, AdmissionInv, Terminal
  <2>6. Kept' = Kept
    BY <2>1, <2>2, <2>3, <2>4 DEF LogEffect, Kept
  <2>7. Installed' = Installed
    BY <2>1, <2>3, <2>4 DEF LogEffect, Terminal
  <2> QED
    BY <2>1, <2>2, <2>3, <2>4, <2>5, <2>6, <2>7 DEF LogEffect, WritesInv
<1>4. CASE UndoEnd
  <2>1. LogEffect("undo_end", "undone_request", "give_up", "rolled_back",
                  record.changed, record.backup)
    BY <1>1, <1>4, LogState DEF UndoEnd, JournalState, Terminal
  <2>2. UNCHANGED <<active, database, config, backups, request, ready, caller, plan,
                    backend, gate, acknowledged, discarded, operations, crashes>>
    BY <1>4 DEF UndoEnd, dataVars, fileVars, backendVars, historyVars
  <2>3. /\ record = journal /\ record.state \notin Terminal
        /\ database.writes = Kept
        /\ record.changed => record.backup # None
    BY <2>1 DEF LogEffect, RecordInv, JournalInv, Recoverable, WritesInv
  <2>4. NumberInv' /\ RequestInv' /\ AdmissionInv'
    BY <2>1, <2>2, <2>3
    DEF LogEffect, NumberInv, RequestInv, AdmissionInv, Terminal
  <2>5. Kept' = Kept
    BY <2>1, <2>2, <2>3 DEF LogEffect, Kept, Terminal
  <2>6. step' = "give_up" => (record.changed => InBackup(record.backup) = Kept)
    BY <2>3 DEF Kept
  <2>7. Installed' = Installed
    BY <2>1, <2>3 DEF LogEffect, Terminal
  <2> QED
    BY <2>1, <2>2, <2>4, <2>5, <2>6, <2>7 DEF LogEffect, WritesInv
<1>5. CASE GiveUp
  <2>1. /\ record' \in Record /\ record'.state = "recovery_required"
        /\ record'.previous = record.previous /\ record'.changed = record.changed
        /\ record'.backup = record.backup
    BY <1>1, <1>5 DEF GiveUp, Record, JournalState
  <2>2. /\ step = "give_up" /\ step' \in {"finish", "idle"}
        /\ UNCHANGED <<backend, gate>> \/ (backend' = Down /\ gate' = None)
        /\ journal' \in {journal, record'}
        /\ UNCHANGED <<active, database, config, backups, request, ready, caller, plan,
                       acknowledged, discarded, operations, crashes>>
    BY <1>5, ReturnCases
    DEF GiveUp, StopBackend, dataVars, fileVars, backendVars, historyVars
  <2>3. record.changed => record.backup # None
    BY <2>2 DEF RecordInv, Recoverable
  <2>4. NumberInv' /\ RequestInv' /\ AdmissionInv'
    BY <2>1, <2>2 DEF NumberInv, RequestInv, AdmissionInv, Terminal
  <2>5. Kept' = Kept
    BY <2>1, <2>2, <2>3 DEF Kept, Terminal, AdmissionInv, WritesInv
  <2>6. Installed' = Installed
    BY <2>1, <2>2 DEF Terminal, AdmissionInv
  <2> QED
    BY <2>2, <2>4, <2>5, <2>6 DEF WritesInv
<1> QED
  BY <1>2, <1>3, <1>4, <1>5

\* The data is restored to what a recovery would keep; the backend it is
\* started for is the previous release.
LEMMA SafeUndoEffects ==
    ASSUME SafeInv, UntouchedStart \/ UndoStop \/ UndoData \/ UndoActive \/ UndoStart
    PROVE  NumberInv' /\ RequestInv' /\ AdmissionInv' /\ WritesInv' /\ Still
<1> USE DEF SafeInv, IInv, Executing, Undoing, Unchanged, BackedUp, None, Goes,
            NoOneServed, Told, InBackup, NotBackedUp, Asked, Withdrawn, Reverted, Still, Installed
<1>1. /\ step \in Undoing /\ record = journal /\ journal.state \notin Terminal
      /\ record.changed => record.backup # None
  BY DEF UntouchedStart, UndoStop, UndoData, UndoActive, UndoStart, RecordInv, JournalInv,
         Recoverable
<1>2. CASE UntouchedStart
  <2>1. /\ Opened \/ UNCHANGED <<backend, gate, database, config>>
        /\ Goes("untouched_start", "untouched_end")
        /\ UNCHANGED <<journal, active, backups, request, ready, caller, record, plan,
                       acknowledged, discarded, operations, crashes>>
    BY <1>2, OpenEffect
    DEF UntouchedStart, TypeOK, dataVars, fileVars, backendVars, historyVars
  <2>2. ~ record.changed /\ active = record.previous
    BY <2>1 DEF UndoInv
  <2> QED
    BY <1>1, <2>1, <2>2 DEF Opened, NumberInv, RequestInv, AdmissionInv, WritesInv, Kept
<1>3. CASE UndoStop
  BY <1>1, <1>3
  DEF UndoStop, StopBackend, NumberInv, RequestInv, AdmissionInv, WritesInv, Kept,
      diskVars, dataVars, fileVars, historyVars
<1>4. CASE UndoData
  <2>1. /\ step \in {"undo_database", "undo_config"}
        /\ step' = IF step = "undo_database" THEN "undo_config" ELSE "undo_active"
        /\ UNCHANGED <<journal, active, backups, request, ready, caller, record, plan,
                       backend, gate, acknowledged, discarded, operations, crashes>>
    BY <1>4 DEF UndoData, fileVars, backendVars, historyVars
  <2>2. \/ step = "undo_database" /\ database' = backups[record.backup].database
        \/ step = "undo_config" /\ database' = database
    BY <1>4 DEF UndoData, RestoreDatabase
  <2>3. record.changed /\ record.backup # None
    BY <1>1, <2>1 DEF UndoInv
  <2>4. Kept = InBackup(record.backup) /\ Kept' = Kept
    BY <1>1, <2>1, <2>3 DEF Kept
  <2>5. NumberInv' /\ RequestInv' /\ AdmissionInv'
    BY <1>1, <2>1 DEF NumberInv, RequestInv, AdmissionInv
  <2> QED
    BY <2>1, <2>2, <2>4, <2>5 DEF WritesInv
<1>5. CASE UndoActive
  <2>1. backend = Down
    BY <1>5 DEF UndoActive, BackendInv
  <2> QED
    BY <1>1, <1>5, <2>1
    DEF UndoActive, NumberInv, RequestInv, AdmissionInv, WritesInv, Kept, dataVars,
        fileVars, backendVars, historyVars
<1>6. CASE UndoStart
  <2>1. /\ Opened /\ Goes("undo_start", "undo_check")
        /\ UNCHANGED <<journal, active, backups, request, ready, caller, record, plan,
                       acknowledged, discarded, operations, crashes>>
    BY <1>6, OpenEffect DEF UndoStart, TypeOK, fileVars, historyVars
  <2>2. active = record.previous
    BY <2>1 DEF UndoInv
  <2> QED
    BY <1>1, <2>1, <2>2 DEF Opened, NumberInv, RequestInv, AdmissionInv, WritesInv, Kept
<1> QED
  BY <1>2, <1>3, <1>4, <1>5, <1>6

\* A step of the rollback that only looks, and its exceptions.
LEMMA SafeOtherUndo ==
    ASSUME SafeInv, Decide \/ UndoReady \/ UndoCheck \/ UndoRaises
    PROVE  NumberInv' /\ RequestInv' /\ AdmissionInv' /\ WritesInv' /\ Still
<1> USE DEF SafeInv, IInv, Executing, Undoing, Unchanged, BackedUp, None, Goes,
            NoOneServed, Told, InBackup, NotBackedUp, Asked, Withdrawn, Reverted, Still, Installed
<1>1. /\ step \in Undoing /\ record = journal /\ journal.state \notin Terminal
      /\ record.changed => record.backup # None
  BY DEF Decide, UndoReady, UndoCheck, UndoRaises, RecordInv, JournalInv, Recoverable
<1>2. /\ \/ step = "decide" /\ step' \in {"untouched_request", "undo_stop"}
         \/ step = "undo_ready" /\ step' \in {"undo_start", "undo_end"}
         \/ step = "undo_check" /\ step' = "undo_end"
         \/ step' = "give_up"
      /\ UNCHANGED <<journal, active, database, config, backups, request, caller, record,
                     plan, backend, gate, acknowledged, discarded, operations, crashes>>
  BY DEF Decide, UndoReady, UndoCheck, UndoRaises, diskVars, dataVars, fileVars,
         backendVars, historyVars
<1>3. NumberInv' /\ RequestInv' /\ AdmissionInv'
  BY <1>1, <1>2 DEF NumberInv, RequestInv, AdmissionInv
<1>4. Kept' = Kept
  BY <1>2 DEF Kept
<1>5. record.changed => InBackup(record.backup) = Kept
  BY <1>1 DEF Kept
<1> QED
  BY <1>1, <1>2, <1>3, <1>4, <1>5 DEF WritesInv

(* -------------------- the end of an operation, restarts ----------------- *)

\* The request is withdrawn where nothing is left to recover.
LEMMA SafeEnding ==
    ASSUME ~ FilesMayStick, SafeInv,
           ClearRequest \/ ClearReady \/ Stuck \/ Finish \/ FinishFailed
             \/ Recover \/ Boot \/ BootStart
    PROVE  NumberInv' /\ RequestInv' /\ AdmissionInv' /\ WritesInv' /\ Still
<1> USE DEF SafeInv, IInv, Executing, Undoing, Unchanged, BackedUp, None, Goes,
            NoOneServed, Told, InBackup, NotBackedUp, Asked, Withdrawn, Reverted, Still, Installed
<1>1. CASE ClearRequest
  <2>1. /\ \/ step = "commit_request" /\ step' = "commit_ready"
           \/ step = "untouched_request" /\ step' = "untouched_ready"
           \/ step = "undone_request" /\ step' = "undone_ready"
           \/ step = "finish_request" /\ step' = "finish_ready"
           \/ step = "boot_request" /\ step' = "boot_ready"
        /\ request' = None
        /\ UNCHANGED <<journal, active, database, config, backups, ready, caller, record,
                       plan, backend, gate, acknowledged, discarded, operations, crashes>>
    BY <1>1 DEF ClearRequest, dataVars, backendVars, historyVars
  <2>2. journal.state \in Terminal \/ ~ journal.changed
    BY <2>1 DEF JournalInv, RecordInv, UndoInv, RequestInv
  <2> QED
    BY <2>1, <2>2 DEF NumberInv, RequestInv, AdmissionInv, WritesInv, Kept
<1>2. CASE ClearReady
  <2>1. /\ \/ step = "commit_ready" /\ step' = "finish"
           \/ step = "untouched_ready" /\ step' = "untouched_start"
           \/ step = "undone_ready" /\ step' \in {"finish", "boot_start", "idle"}
           \/ step = "finish_ready" /\ step' = "idle"
           \/ step = "boot_ready" /\ step' = "boot_start"
        /\ ready' = None
        /\ UNCHANGED <<journal, active, database, config, backups, request, caller, record,
                       plan, backend, gate, acknowledged, discarded, operations, crashes>>
    BY <1>2, ReturnCases DEF ClearReady, dataVars, backendVars, historyVars
  <2> QED
    BY <2>1 DEF NumberInv, RequestInv, AdmissionInv, WritesInv, Kept
<1>3. CASE Stuck
  BY <1>3 DEF Stuck
<1>4. CASE Finish
  BY <1>4 DEF Finish, NumberInv, RequestInv, AdmissionInv, WritesInv, Kept, diskVars,
              dataVars, fileVars, backendVars, historyVars
<1>5. CASE FinishFailed
  BY <1>5 DEF FinishFailed, RequestInv
<1>6. CASE Recover \/ Boot
  <2>1. /\ \/ step' = "rollback" /\ record' = journal /\ journal.state \notin Terminal
           \/ step' = "boot_request" /\ record' = record /\ journal.state \in Terminal
        /\ UNCHANGED <<journal, active, database, config, backups, request, ready, plan,
                       backend, gate, acknowledged, discarded, operations, crashes>>
    BY <1>6 DEF Recover, Boot, diskVars, dataVars, fileVars, backendVars, historyVars
  <2>2. journal.changed => journal.backup # None
    BY DEF JournalInv, Recoverable
  <2> QED
    BY <2>1, <2>2 DEF NumberInv, RequestInv, AdmissionInv, WritesInv, Kept
<1>7. CASE BootStart
  <2>1. /\ Opened \/ UNCHANGED <<backend, gate, database, config>>
        /\ Goes("boot_start", "idle")
        /\ UNCHANGED <<journal, active, backups, request, ready, caller, record, plan,
                       acknowledged, discarded, operations, crashes>>
    BY <1>7, OpenEffect
    DEF BootStart, TypeOK, dataVars, fileVars, backendVars, historyVars
  <2>2. journal.state \in Terminal
    BY <2>1 DEF JournalInv
  <2> QED
    BY <2>1, <2>2 DEF Opened, NumberInv, RequestInv, AdmissionInv, WritesInv, Kept
<1> QED
  BY <1>1, <1>2, <1>3, <1>4, <1>5, <1>6, <1>7

\* Losses of power, and what happens beside the controller.
LEMMA SafeEnvironment ==
    ASSUME ~ MayBeDown, RestartMayBeLate = FALSE, SafeInv,
           PowerLoss \/ UserStart \/ BackendDies \/ Watch \/ \E w \in Write : UserWrite(w)
    PROVE  NumberInv' /\ RequestInv' /\ AdmissionInv' /\ WritesInv' /\ (Still \/ \E w \in Write : UserWrite(w))
<1> USE DEF SafeInv, IInv, Executing, Undoing, Unchanged, BackedUp, None, Goes,
            NoOneServed, Told, InBackup, NotBackedUp, Asked, Withdrawn, Reverted, Still, Installed
<1>1. CASE PowerLoss
  BY <1>1
  DEF PowerLoss, StopBackend, NumberInv, RequestInv, AdmissionInv, WritesInv, Kept,
      diskVars, dataVars, fileVars
<1>2. CASE UserStart
  <2>1. /\ Opened /\ step = "idle" /\ journal.state \in Terminal
        /\ UNCHANGED <<journal, active, backups, request, ready, step, caller, record, plan,
                       acknowledged, discarded, operations, crashes>>
    BY <1>2, OpenEffect DEF UserStart, TypeOK, fileVars, controlVars, historyVars
  <2> QED
    BY <2>1 DEF Opened, NumberInv, RequestInv, AdmissionInv, WritesInv, Kept
<1>3. CASE BackendDies
  BY <1>3
  DEF BackendDies, StopBackend, NumberInv, RequestInv, AdmissionInv, WritesInv, Kept,
      diskVars, dataVars, fileVars, controlVars, historyVars
<1>4. CASE Watch
  BY <1>4
  DEF Watch, NumberInv, RequestInv, AdmissionInv, WritesInv, Kept, dataVars, controlVars,
      historyVars
<1>5. ASSUME NEW w \in Write, UserWrite(w)
      PROVE  NumberInv' /\ RequestInv' /\ AdmissionInv' /\ WritesInv'
  <2>1. /\ backend # Down /\ gate = None
        /\ database'.writes = database.writes \union {w}
        /\ acknowledged' = acknowledged \union {w}
        /\ UNCHANGED <<journal, active, config, backups, request, ready, step, caller,
                       record, plan, backend, gate, discarded, operations, crashes>>
    BY <1>5 DEF UserWrite, TypeOK, Database, fileVars, controlVars, backendVars
  <2>2. NumberInv' /\ RequestInv' /\ AdmissionInv'
    BY <2>1 DEF NumberInv, RequestInv, AdmissionInv
  <2>3. journal.state \in Terminal \/ ~ journal.changed
    BY <2>1 DEF AdmissionInv
  <2>4. Kept = database.writes /\ Kept' = database'.writes
    BY <2>1, <2>3 DEF Kept
  <2>5. step # "install" /\ step \notin BackedUp
    <3>1. step \in {"check", "commit"} => record.changed /\ record = journal
      BY DEF ExecuteInv, RecordInv
    <3> QED
      BY <2>1, <2>3, <3>1 DEF BackendInv, RecordInv
  <2>6. step \in {"rollback", "give_up"} => ~ record.changed
    BY <2>1 DEF AdmissionInv
  <2> QED
    BY <2>1, <2>2, <2>4, <2>5, <2>6 DEF WritesInv
<1> QED
  BY <1>1, <1>2, <1>3, <1>4, <1>5

(* ------------------------------- theorems ------------------------------- *)

\* At first nothing is asked for, nothing is written and nothing is unfinished.
LEMMA InitSafe == Init => SafeInv
<1> SUFFICES ASSUME Init
             PROVE  SafeInv
  OBVIOUS
<1> USE DEF Init, None, EmptyRecord
<1>1. NumberInv /\ RequestInv
  BY DEF NumberInv, RequestInv, Executing, NotBackedUp, Asked, Withdrawn
<1>2. AdmissionInv /\ WritesInv
  BY DEF AdmissionInv, WritesInv, Told, Kept, Terminal, BackedUp, Executing, Unchanged,
         Reverted
<1> QED
  BY <1>1, <1>2, InitIInv DEF SafeInv

\* No step breaks the invariant; but for a backup, a commit and a write, none
\* changes what is installed or kept.
LEMMA SafeStep ==
    ASSUME FilesMayStick = FALSE, MayBeDown = FALSE, RestartMayBeLate = FALSE, SafeInv, Next
    PROVE  /\ SafeInv'
           /\ Still \/ Backup \/ LogCommit \/ \E w \in Write : UserWrite(w)
<1>1. IInv'
  BY Inductive DEF SafeInv
<1>2. ~ FilesMayStick /\ ~ MayBeDown
  OBVIOUS
<1> SUFFICES /\ NumberInv' /\ RequestInv' /\ AdmissionInv' /\ WritesInv'
             /\ Still \/ Backup \/ LogCommit \/ \E w \in Write : UserWrite(w)
  BY <1>1 DEF SafeInv
<1>3. CASE Submit \/ Prepare \/ PrepareFails \/ Accept \/ Begin
  BY <1>2, <1>3, SafeAccepting, Zenon
<1>4. CASE Execute
  <2>1. CASE Download \/ Drained \/ LogBackup \/ LogInstall \/ LogRestore \/ LogMigration
             \/ LogValidate
    BY <2>1, SafeExecuteLogs, Zenon
  <2>2. CASE Stop \/ Backup \/ Restore \/ Migrate \/ Activate \/ Start
    BY <2>2, SafeEffects, Zenon
  <2>3. CASE Quiesce \/ DropReady \/ Check \/ LogCommit \/ Raise
    BY <1>2, <2>3, SafeOtherExecute, Zenon
  <2> QED
    BY <1>4, <2>1, <2>2, <2>3 DEF Execute
<1>5. CASE Undo
  <2>1. CASE LogRollback \/ UntouchedEnd \/ UndoEnd \/ GiveUp
    BY <2>1, SafeUndoLogs, Zenon
  <2>2. CASE UntouchedStart \/ UndoStop \/ UndoData \/ UndoActive \/ UndoStart
    BY <2>2, SafeUndoEffects, Zenon
  <2>3. CASE Decide \/ UndoReady \/ UndoCheck \/ UndoRaises
    BY <2>3, SafeOtherUndo, Zenon
  <2> QED
    BY <1>5, <2>1, <2>2, <2>3 DEF Undo
<1>6. CASE ClearRequest \/ ClearReady \/ Stuck \/ Finish \/ FinishFailed
           \/ Recover \/ Boot \/ BootStart
  BY <1>2, <1>6, SafeEnding, Zenon
<1>7. CASE PowerLoss \/ UserStart \/ BackendDies \/ Watch \/ \E w \in Write : UserWrite(w)
  BY <1>2, <1>7, SafeEnvironment, Zenon
<1> QED
  BY <1>3, <1>4, <1>5, <1>6, <1>7 DEF Next, Controller

\* Unchanged variables leave everything as it is.
LEMMA SafeStutter ==
    ASSUME RestartMayBeLate = FALSE, SafeInv, UNCHANGED vars
    PROVE  SafeInv' /\ Still
<1>1. IInv'
  BY Inductive DEF SafeInv
<1> QED
  BY <1>1
  DEF SafeInv, NumberInv, RequestInv, AdmissionInv, WritesInv, NoOneServed, Told, InBackup,
      Kept, Still, Installed, vars, diskVars, dataVars, fileVars, controlVars, backendVars,
      historyVars

\* The invariant holds in every reachable state.
LEMMA SafeInvariant ==
    ASSUME FilesMayStick = FALSE, MayBeDown = FALSE, RestartMayBeLate = FALSE
    PROVE  Spec => []SafeInv
<1>1. SafeInv /\ [Next]_vars => SafeInv'
  BY SafeStep, SafeStutter, Zenon
<1> QED
  BY <1>1, InitSafe, PTL DEF Spec

\* What users were told is saved is in the database, or in the backup that a
\* recovery from the journal restores, after any failure and any loss of power,
\* unless a committed restoration was acknowledged to give it up.
THEOREM WritesAreNeverLost ==
    ASSUME FilesMayStick = FALSE, MayBeDown = FALSE, RestartMayBeLate = FALSE
    PROVE  Spec => []WritesAreKept
<1>1. SafeInv => WritesAreKept
  BY DEF SafeInv, WritesInv, Told, WritesAreKept
<1> QED
  BY <1>1, SafeInvariant, PTL

\* A release that serves users was verified and committed, or was there before
\* the operation touched anything: execute and _rollback keep the admission
\* closed in between.
THEOREM OnlyVerifiedReleasesServe ==
    ASSUME FilesMayStick = FALSE, MayBeDown = FALSE, RestartMayBeLate = FALSE
    PROVE  Spec => []OnlyVerifiedServes
<1>1. SafeInv => OnlyVerifiedServes
  BY DEF SafeInv, IInv, BackendInv, AdmissionInv, NoOneServed, OnlyVerifiedServes
<1> QED
  BY <1>1, SafeInvariant, PTL

Serving == IF backend # Down /\ gate = None THEN backend ELSE Down
Copies == {backups[o].database.writes : o \in {b \in Operation : backups[b] # NoBackup}}

ServesInstalled == Serving \in {Installed, Down}

\* Users are served by the installed release, or not at all.
LEMMA ServedIsInstalled == SafeInv => ServesInstalled
<1> SUFFICES ASSUME SafeInv, backend # Down, gate = None
             PROVE  backend = Installed
  BY DEF Serving, ServesInstalled
<1>1. backend = active
  BY DEF SafeInv, IInv, BackendInv
<1>2. CASE journal.state \in Terminal
  BY <1>1, <1>2 DEF SafeInv, IInv, JournalInv, NumberInv, Installed, Terminal
<1>3. CASE journal.state \notin Terminal
  BY <1>1, <1>3 DEF SafeInv, AdmissionInv, NoOneServed, Installed, Terminal
<1> QED
  BY <1>2, <1>3

\* create_operation_backup makes one more copy of what is kept.
LEMMA BackupCopies ==
    ASSUME SafeInv, Backup
    PROVE  Atomic!Copy
<1> DEFINE b == [database |-> database, config |-> config]
<1>1. /\ step = "backup" /\ backups' = [backups EXCEPT ![plan.op] = b]
      /\ UNCHANGED <<journal, database, backend, gate>>
  BY DEF Backup, Goes, dataVars, backendVars
<1>2. b.database = database /\ b # NoBackup
  BY TransactionAssumption DEF SafeInv, IInv, TypeOK, BackupOf
<1> HIDE DEF b
<1>3. plan.op \in Operation /\ backups[plan.op] = NoBackup
  BY <1>1 DEF SafeInv, IInv, TypeOK, PlanInv, Planned, Executing, NumberInv, NotBackedUp, None
<1>4. /\ backups'[plan.op] = b
      /\ \A o \in Operation : o # plan.op => backups'[o] = backups[o]
  BY <1>1, <1>3 DEF SafeInv, IInv, TypeOK
<1>5. Copies' = Copies \union {database.writes}
  BY <1>2, <1>3, <1>4 DEF Copies
<1>6. ~ journal.changed
  BY <1>1 DEF SafeInv, IInv, ExecuteInv, RecordInv, Unchanged, Executing
<1>7. Kept = database.writes /\ Kept' = database.writes
  BY <1>1, <1>6 DEF Kept
<1> QED
  BY <1>1, <1>5, <1>7 DEF Atomic!Copy, Copies

\* The commit replaces the release, while nobody is served, by a newer one,
\* with what was kept or with the copy that the plan restores.
LEMMA CommitReplaces ==
    ASSUME SafeInv, LogCommit
    PROVE  Atomic!Replace \/ Still
<1> USE DEF SafeInv, IInv, Executing, Unchanged, BackedUp, None
<1>1. LogEffect("commit", "commit_request", "rollback", "committed",
                record.changed, record.backup)
  BY LogState DEF LogCommit, JournalState, Terminal, TypeOK
<1>2. UNCHANGED <<database, backups, plan, backend, gate>>
  BY DEF LogCommit, dataVars, backendVars
<1>3. /\ record = journal /\ journal.state \notin Terminal /\ record.changed
      /\ record.backup = plan.op /\ record.op = plan.op
      /\ plan.op \in Operation /\ backups[plan.op] # NoBackup
  BY <1>1 DEF LogEffect, RecordInv, ExecuteInv, PlanInv, Planned, BackupFits, TypeOK
<1>4. Kept = InBackup(plan.op)
  BY <1>3 DEF Kept, InBackup, Operation
<1>5. CASE journal' = record'
  <2>1. Kept' = database.writes /\ Installed' = record.op
    BY <1>1, <1>2, <1>5 DEF LogEffect, Kept, Installed, Terminal
  <2>2. database.writes \in {Kept} \union Copies
    <3>1. CASE plan.restore = None
      BY <1>1, <1>4, <3>1 DEF LogEffect, WritesInv
    <3>2. CASE plan.restore # None
      <4>1. plan.restore \in Operation /\ backups[plan.restore] # NoBackup
        BY <1>1, <3>2 DEF LogEffect, TypeOK, PlanInv, Planned
      <4> QED
        BY <1>1, <3>2, <4>1 DEF LogEffect, WritesInv, InBackup, Copies
    <3> QED
      BY <3>1, <3>2
  <2>3. Installed = record.previous
    BY <1>3 DEF Installed, Terminal
  <2>4. record.op \in Release /\ record.op > record.previous
    BY <1>1, <1>3 DEF LogEffect, NumberInv, TypeOK, Record, Operation, Release
  <2>5. Serving = Down /\ Serving' = Serving /\ Copies' = Copies
    BY <1>2, <1>3 DEF AdmissionInv, NoOneServed, Serving, Copies
  <2> QED
    BY <2>1, <2>2, <2>3, <2>4, <2>5 DEF Atomic!Replace, Serving, Copies, Installed
<1>6. CASE journal' = journal
  BY <1>2, <1>3, <1>6 DEF Still, Installed, Kept
<1> QED
  BY <1>1, <1>5, <1>6 DEF LogEffect

\* A write of a user is taken while the gate is open, and is kept.
LEMMA WriteAccepts ==
    ASSUME SafeInv, NEW w \in Write, UserWrite(w)
    PROVE  Atomic!Accept(w)
<1>1. /\ backend # Down /\ gate = None
      /\ database'.writes = database.writes \union {w}
      /\ UNCHANGED <<journal, backups, backend, gate>>
  BY DEF UserWrite, SafeInv, IInv, TypeOK, Database, backendVars
<1>2. journal.state \in Terminal \/ ~ journal.changed
  BY <1>1 DEF SafeInv, AdmissionInv, NoOneServed
<1>3. Kept = database.writes /\ Kept' = database'.writes
  BY <1>1, <1>2 DEF Kept
<1> QED
  BY <1>1, <1>3 DEF Atomic!Accept

\* execute, _rollback, recover and the restarts of the controller implement one
\* atomic replacement of the release, and of the data it restores, while nobody
\* is served.
THEOREM TransactionIsAtomic ==
    ASSUME FilesMayStick = FALSE, MayBeDown = FALSE, RestartMayBeLate = FALSE
    PROVE  Spec => ImplementsAtomicRelease
<1>1. Init => Atomic!Init
  <2> SUFFICES ASSUME Init
               PROVE  Atomic!Init
    OBVIOUS
  <2>1. Kept = {} /\ Copies = {}
    BY DEF Init, EmptyRecord, Kept, Copies, Terminal
  <2> QED
    BY <2>1 DEF Init, EmptyRecord, Copies, Atomic!Init
<1>2. SafeInv /\ ServesInstalled' /\ [Next]_vars => [Atomic!Next]_(Atomic!vars)
  <2> SUFFICES ASSUME SafeInv, ServesInstalled', [Next]_vars
               PROVE  Atomic!Next \/ UNCHANGED Atomic!vars
    OBVIOUS
  <2>1. CASE Still
    <3>1. Copies' = Copies
      BY <2>1 DEF Still, Copies
    <3>2. Serving' \in {Installed, Down}
      BY <2>1 DEF Still, ServesInstalled
    <3>3. Atomic!Serve
      BY <2>1, <3>1, <3>2 DEF Still, Atomic!Serve, Serving, Installed, Copies
    <3> QED
      BY <3>3 DEF Atomic!Next
  <2>2. CASE Backup
    BY <2>2, BackupCopies DEF Atomic!Next
  <2>3. CASE LogCommit
    BY <2>1, <2>3, CommitReplaces DEF Atomic!Next
  <2>4. CASE \E w \in Write : UserWrite(w)
    BY <2>4, WriteAccepts DEF Atomic!Next
  <2> QED
    BY <2>1, <2>2, <2>3, <2>4, SafeStep, SafeStutter, Zenon
<1> QED
  BY <1>1, <1>2, ServedIsInstalled, SafeInvariant, PTL DEF Spec, ImplementsAtomicRelease, Atomic!Spec

=============================================================================
