# PicSyncra: a verification project

PicSyncra is a Windows application that prepares product images and writes them
to SQL, FTP and Pimcore. Its installed form is two processes: a **controller**
(a Windows task that owns the program's files) and a **backend** (the WEB
application it starts and stops). This directory models the parts of it where
order, concurrency and failure matter, checks them with TLC and proves theorems
about them with TLAPS.

Three promises run through everything here:

1. *Maintenance is exclusive and loses nothing.* An update waits for the work in
   progress, nothing new starts meanwhile, what waits is on disk and resumes.
2. *An update is atomic.* Whatever fails, and whenever the power goes, the
   previous release with the previous data, or the new release, is what runs.
3. *What was begun comes to an end, once.* A mail, an OCR run, the adoption of an
   old database: whatever dies in between, it is finished, undone or given up,
   and what it held is given back.

## Inventory

| Part | State | Operations | Hard behaviour | What makes it correct |
|---|---|---|---|---|
| Maintenance gate (`installation/maintenance.py`) | the operation that owns it, leases and their cancel callbacks, the force flag | try_admit, finish, set_cancel_callback, begin, request_force_cancel, complete | callbacks are called outside the lock; a force may come before a callback is registered | nobody is missed by the drain; a force reaches everyone, and only when asked |
| Maintenance coordinator (same file) | phase, deadline, operation | begin, advance | has no lock; advance() runs on the worker and on every heartbeat | executes alone, terminates, keeps its countdown |
| Presence (`installation/presence.py`) | heartbeats | touch, count | time | input of the countdown |
| Operation service (`installation/operation_service.py`) | coordinator, watch id | watch thread, force, restart, release operations | files polled every 0.2 s while another process writes them | the gate closes for every request and reopens after it |
| Process queue (`web/process_queue.py`) | reservations, waiting jobs | reserve, submit, cancel, worker loop | workers hold the queue condition across two gate calls | leases and slots are exact |
| Pending forms (`web/process_pending.py`) | `job-*/pending.json` | save, mark, load | files and memory change in separate steps | what is accepted survives, what has begun is not replayed |
| Process API, job life cycle (`web/process_api.py`, `web/app.py`) | `_PROCESS_JOBS`, completion events | submit, run, finish, cancel, restore | DELETE races submission, popleft and the end | each job runs at most once, cancelled means cancelled, waiters are answered |
| HTTP admission (`web/maintenance_requests.py`) | a lease per mutating request | admit | - | users' writes are counted |
| Module transaction (`installation/module_executor.py`, `module_service.py`, `backups.py`, `module_state.py`) | journal, active set, database, configuration, backups, two maintenance files | submit, execute, roll back, recover | 20 steps over six files and two processes, each may fail, power may go between any two | atomic replacement; no acknowledged write lost; never code with data it cannot read |
| Backend supervisor, controller boot (`controller_host.py`, `control_protocol.py`) | the child process, autostart | start, stop, health, recovery at boot | the child dies with the controller | only a verified release serves |
| Operation journal, restart handoff, release update (`journal.py`, `restart_handoff.py`, `update_transaction.py`, `release_executor.py`, `session_epoch.py`, `recovery.py`) | journal of operations, handoff file, active bundle, OCR component, session epoch | submit, the maintenance thread, deferred restart, completion of the handoff, recovery, force | two processes replace one journal, each from its own memory; a fault between any two files | the journal moves along its transitions, its outcomes are what is installed, what was handed over is decided, old sessions end |
| Notification outbox (`notification_service.py`, `notification_scheduler.py`, the tables in `sqlite_store.py`) | intents, deliveries, daily reports, generations | record, materialize, claim, send, second channel, finalize, wake, sleep, recover | rows left "sending"; partial transports; wakeups during a round | sent once; reports without gap or overlap; every event comes to an outcome; no sleep on pending work the worker can see |
| SQLite coordination (`sqlite_coordination.py`) | activity counts, file locks, marker | database_activity, database_maintenance, retire | nested activities, two processes, a marker that survives them | exclusion without deadlock |
| Adoption of a legacy profile (`legacy_migration.py`, `offline_legacy_profile_migrator.py`, `bootstrap.py`) | old and new database, `local_settings.json`, manifests of deferred moves | snapshot, publish, activate, retire, move, undo, retry | each step may fail, the migrator may die, applications come and go | no write to the old database is lost; a failure leaves it usable |
| OCR execution (`services/ocr_execution_service.py`, `ocr_progress.py`, `ocr_queue.py`, `installation/ocr_runtime.py`) | registry of runs, leases, pending dispatches, three layers of worker | submit, dispatch, pump, cancel, force, start and replace the process | four kinds of threads without a common lock; the process dies, hangs, does not start | every run ends, a cancellation is not lost, leases come back |
| Active clients (`web/active_clients.py`) | heartbeats by generation | touch, flush, close | flush races close | newest wins |
| Stores, telemetry, desktop UI, image pipeline, catalog, planner, downloads, signatures, pipe, authorization, installers | - | - | I/O, validation, presentation | not modelled; see `PROJECT.json` |

How they interact. The controller writes `module-maintenance-request.json`; the
backend's watch thread sees it, closes the **gate** and, when the last lease is
returned, answers with `module-maintenance-ready.json`. Every writer of the
backend (process jobs, OCR, mutating requests) holds a lease while it works.
The controller then stops the backend, backs up, installs, migrates and starts
the new release; that backend closes its gate at once because the request still
stands, restores the waiting jobs and waits. Once it is healthy the request is
removed, and the gate reopens.

The older path, of whole releases and of plain restarts, runs in the backend
itself: it closes its own gate, installs, and asks the controller to restart it,
leaving a handoff file that says which operation to confirm or to undo. OCR runs
hold leases of the same gate. The outbox and the adoption of an old database meet
the rest only in SQLite.

`PROJECT.json` lists every hazard at its line, also those without a property yet.

## Modules

| Module | Models |
|---|---|
| `MaintenanceGate` | the gate's state and operations, one critical section per operator; extended by three of the others |
| `MaintenanceCoordinator` | the coordinator over the gate, with writers, threads that advance, presence, countdown |
| `ExclusiveMaintenance` | what gate and coordinator promise: one holder, and it works only when no writer is left |
| `MaintenanceCoordinatorProofs`, `ProcessJobsProofs`, `ModuleTransactionProofs`, `ReleaseOperationProofs`, `NotificationOutboxProofs`, `LegacyHandoverProofs` | the theorems about the six modules, with their inductive invariants |
| `AtomicReleaseProofs` | more theorems about `ModuleTransaction`: what users keep, what serves them, the refinement; on top of `ModuleTransactionProofs` |
| `ProcessJobs` | client, queue, pending form, worker, cancellation, restart and restoration of jobs, composed with the gate, the watch and the controller's two files |
| `ModuleTransaction` | the controller's transaction, its rollback and recovery, and the backend it replaces |
| `AtomicRelease` | what the transaction promises: one release at a time, replaced in one step while nobody is served, with the data as it is or as a copy once made of it |
| `ReleaseOperation` | updates of whole releases and restarts: the backend's maintenance thread, the journal in two memories and on disk, the handoff, the controller that completes it |
| `NotificationOutbox` | intents, deliveries and daily reports, the worker's round and its sleep, crashes and recoveries |
| `LegacyHandover` | activities of several processes on the old database, and the migrator that copies, publishes, activates, retires and moves it |
| `OcrRuns` | OCR runs from submission to end, composed with the gate, the queue thread and the OCR process |
| `MCMaintenanceCoordinator`, `MCProcessJobs`, `MCLegacyHandover` | instances for TLC; the other modules need none |

**Gate and coordinator.** Variables are the fields of the two classes. What the
code does outside the gate's lock with a value it took under the lock is an
action of its own: `dueCalls` holds the callbacks copied by
`request_force_cancel`, `decided` what a thread read in `advance()` and has not
written yet. `ReuseCoordinator` chooses between the code's two uses: one object
for the life of the process (`submit()`), or a new one per request (the watch).

**ProcessJobs.** One action is one critical section (queue condition,
`_PROCESS_JOBS_LOCK`, gate condition) or one file write. `request`, `canceller`
and `worker` are the program counters of the three kinds of thread. Memory
(`waiting`, `status`, `forms`, ...) is gone after `Stop`; `pending` and the two
files of the controller stay. A worker's admission and its `popleft` are two
sections of the gate under one hold of the queue condition (`QueueLockFree`).
Merged, because nothing can be told apart in between: publishing the running
state with the mark of the form, and a job's end with its clean-up. The body of
a job is one step that succeeds or raises. A client waits for its job
(`Synchronous`) in `JobsLiveness`; waiting takes neither lease nor slot, so the
safety runs submit to the background endpoint. `job_runs` rows are left out.

**ModuleTransaction.** `step` is the program counter of the controller's worker,
`journal` the record on disk and `record` the one in memory. They differ because
`_write` changes the second before the first, and may raise in between. Every
step of `execute` may raise (`Raise`) and every step of `_rollback` too
(`UndoRaises`, then `GiveUp`). `PowerLoss` can follow any step; `Boot` is
`executor.recover()` of the next start. Releases are numbered by the operation
that installed them; `database.schema` and `config` are the release whose format
they have, `database.writes` what users wrote. Atomic in the model because
atomic on disk: `create_operation_backup` and `activate_module_set` (both end in
one `os.replace`), the replacement of the database in `restore_backup`. Its
configuration files are copied afterwards: a step of its own. `BackendDies` and
`UserStart` are the stop and the start a user asks for and, one after the other,
`restart_backend`. That command is refused while the backend is busy, acts a second
later and does not ask again: `RestartMayBeLate` lets its start come at any step.

**ReleaseOperation.** `disk` is `operations.json`; `memory` is what the backend
has read of it and `copy` what the controller's thread has read. Each writes the
whole file from its own (`Log`), which is why an older memory could undo what the
other has written. `work` is the program counter of the maintenance thread,
`Journaling` says what each step writes before it acts, `task` is the
controller's restart thread, `Deciding` what that writes. `found` is history: the
release and OCR component an operation met. `ControllerRaises` and `PowerLoss` can
follow any file write, and `BackendEnds` and `UserStart` happen at any time. The
drain is one step here because `MaintenanceCoordinator` has it in full. A process
that cannot be terminated is left out.

**NotificationOutbox.** Rows of the three tables, the generation of the
scheduler (`woken`: changed since the worker captured it), and the worker's
thread. Times are abstract: slots of the daily report are numbered, a claim may
be old enough to be released (5 and 10 minutes in the code) at any start of the
worker, and a sleeping worker may rise at any time (`WORKER_MAX_IDLE_SECONDS`).
The look at the next delivery before a sleep may raise in any round
(`deadline = "unknown"`, the `except` of `_worker_delay_seconds`): the worker then
sleeps to that limit on whatever is pending.
`copies` is history. A transport sends to any subset of its recipients and names
the others, cannot say whom it reached, cannot be used, or breaks after it has
reached some: only the last is a fault.

**LegacyHandover.** Per operation the place of its thread in
`database_activity`, per process its gate and its shared file lock. The locks
are those of Windows, which fail at once. The critical sections of the condition
are actions; where a thread keeps the condition across a file lock, `Free` says
so. `step` is the migrator; `Attempt` a step of it that may fail and send it into
the error path. The path locks of the migration let in one migrator at a time and
are reduced to `step = "idle"`. `stop_managed_processes` stops applications that
Windows may start again at once, which is `Boot` at any time. `Retry` is both the
thread and the start of an application that finish a deferred move.

**OcrRuns.** `thread[r]` is the submission and then the dispatch thread of a
run; the pump is one thread at a time (`_pump_lock`); `cancelling` are calls of
`cancel` on their way. `held`, `inflight` and `pending` are the fields of the
service, `runs`, `lazyCancelled`, `starter` and `abort` those of
`LazyInstalledOcrWorker`, `staged` that of `StagedInstalledOcrWorker`; `jobs` is
what the process works on. Merged: the lease with its callback (`Hold`),
`create_run` with the admission, and the steps of `Lazy.cancel`. Callbacks of one
force request come one after the other. An error of the process may carry no
`run_id` (`invalid_job`, `invalid_command`, `invalid_runtime_message`); the pump
passes over it and the run is `Unanswered` until it is cancelled or the process
ends.

## Runs

| Run | Shows | Bounds |
|---|---|---|
| `CoordinatorWatch` | operations run alone, a force reaches everyone, the drain ends, refinement of `ExclusiveMaintenance` | 2 writers, 2 operations, 2 threads |
| `JobsSafety` | leases are exact, nothing writes during maintenance, at most one run, nothing accepted is lost or overtaken | 2 jobs, 1 worker, 1 operation, 1 restart |
| `JobsAtLimit` | slots are exact at the limits and on the error paths; a cancelled job whose form is gone or marked is not brought back | limit 1, 2 jobs, 2 workers, failing clean-up, 1 restart |
| `JobsLiveness` | queued jobs are begun or cancelled, synchronous clients are answered, unless the gate is stranded (see below); a request the watch has taken up does not leave it closed | 1 job, 2 operations, 2 restarts |
| `TransactionSafe` | no acknowledged write is lost, only a verified release serves, requests are withdrawn, refinement of `AtomicRelease` | 2 operations, 1 write, 2 losses of power |
| `TransactionFaults` | code always fits the data, decisions are what is installed, the controller always comes to rest | 2 operations, 1 loss of power, stuck files, backend stopped at any time |
| `ReleaseHandoff` | the journal moves along its transitions, its outcomes are installed, old sessions end, a handed-over operation is decided | 1 update with OCR, 1 restart, 2 faults |
| `OutboxRounds` | nobody is written to twice, reports cover the history once, no sleep on pending work unless the look at it raised, every event comes to an outcome | 2 events, 2 recipients, batch of 1, 3 days, 1 fault, any number of looks that raise |
| `LegacyAdoption` | the copy is made alone, no write is lost, a failed adoption leaves the old database usable, all of it ends | 1 application with 2 operations (one nested), 1 operation of the migrator, 2 adoptions, 1 fault |
| `OcrCancel` | every run ends in the registry, or was answered without its name; a cancelled run is not worked on in the end | 1 run of the tester, 1 of the queue, 1 fault |
| `OcrForce` | after a force every OCR lease is given back | 2 runs of the queue, 1 operation, 1 fault |

Why the bounds are enough. Every property of the queue is about one job, or the
order of two. One restart separates "before" from "after"; two are used where a
property is about what always follows. Two operations let the second meet what
the first left: a stale coordinator decision, an old acknowledgement, a journal, a
backup to restore. One write is enough for `WritesAreKept`, which speaks of each
write alone and which no step compares with another; `TransactionFaults` has
none, because its properties do not mention writes. In `ReleaseHandoff` an update
and a restart meet in both orders, and two faults are what it takes to interrupt
an operation and then its recovery. In `OutboxRounds` a batch of one makes the
second event wait, three days let a failed report be followed by two that are
due, and two recipients are the least of which some are reached and some are not.
`LegacyAdoption` has one operation that is inside twice, one beside it, and one in
the migrator's own process; the second adoption meets what the first left. In the
two OCR runs two runs share the one process, which is what a cancellation or a
death of it is about; the administrator's cancellations and the force of the gate
take the same way through the code, so one run has the first and one the other
(both together were checked once, with `ForceEnds`). Symmetry is used only where
no liveness is checked. `CHECK_DEADLOCK FALSE` is said in the job and OCR runs
only: a system whose jobs are all done, with no operation and no restart left, is
at rest.

## Where the code does something else

One run expects a violation, and shows a disagreement of the code with its tests:

| Run | Property | What happens |
|---|---|---|
| `StaleJournal` | `OutcomeIsSeen` | the backend started for an update reads `operations.json` before the controller commits the operation, and nobody reads the file again: it answers "validating", and refuses every further operation as a conflict, until it is started once more |

The others were found while modelling. Each is a property of its module that no
passing run checks under these constants; replace the run's properties by it to
see the counterexample (without `SYMMETRY` where one job is named).

| Property | Run and constants | What happens, against what |
|---|---|---|
| `CountdownNotCutShort` (`MaintenanceCoordinator`) | `CoordinatorWatch` with one operation and `ReuseCoordinator = TRUE` | one thread finds nobody else active, another starts the countdown, the first one ends it; `docs/superpowers/specs/2026-09-15-installed-updates-design.md:147` says "Rozpoczętego odliczania nie skracamy" |
| `CompletionMeansTerminal` (`ProcessJobs`) | `JobsSafety` with one synchronous job | DELETE confirms a job between `popleft` and `_run_process_job` and sets its event; the worker makes it "running" again (`web/app.py:4318`) |
| `CancelledNeverRuns` (`ProcessJobs`) | `JobsSafety` or `JobsAtLimit` with `CleanupMayFail = TRUE` | DELETE before `submit()` marked the form, `submit()` marks it again, the directory is in use: the form stays queued and is replayed after a restart, against the name of `tests/test_process_pending.py:54`. Where `submit()` does not come in between, the promise holds: `CancelledStaysOut` |
| `QueuedFormsAreInQueue` (`ProcessJobs`) | `JobsSafety` with `MaxPending = 1` and `MaxPerOwner = 1` | DELETE marks a job between its publication and its submission, submit makes the form "queued" again, the queue's cancel gives the slot to another job, and the backend dies before the directory is gone: two queued forms, one slot, and the first exception ends the restoration (`web/app.py:4239`), against `docs/installed-windows.md:50` |
| `QueuedFormsAreInQueue` (`ProcessJobs`) | `JobsSafety` with `BadForms = {j1}` | one form that cannot be restored ends the restoration of all later ones (`web/app.py:4239`); `docs/installed-windows.md:50` promises them |
| `GateReopens` (`ProcessJobs`) | `JobsLiveness` | a request withdrawn before the new backend's first poll: `_startup` closed the gate, the watch does not know of it and nobody opens it. The controller withdraws (`module_executor.py:163`, `module_service.py:389`) and asks anew (`module_service.py:371`) without looking at the watch; `docs/installed-windows.md:52`. `Stranded` is this state, which `QueuedJobsRun` and `SynchronousRequestsEnd` exempt |
| `OnlyVerifiedServes` (`ModuleTransaction`) | `TransactionSafe` with `MayBeDown = TRUE` | a plan executed while the backend is stopped writes no request; the new release admits users before its health is known, against `module_executor.py:239` |
| `OnlyVerifiedServes` (`ModuleTransaction`) | `TransactionSafe` with `RestartMayBeLate = TRUE` | a restart asked for before an operation starts a backend in the middle of it: `controller_host.py:338` waits a second and does not ask `control_protocol.py:201` again whether the host is busy. The constant exaggerates how late; `WritesAreKept` holds |
| `CodeFitsData`, `DecidedMeansInstalled` (`ModuleTransaction`) | `TransactionFaults` with `RestartMayBeLate = TRUE` | the same start, between the migration and the activation |
| `OutcomeIsInstalled` (`ReleaseOperation`) | `ReleaseHandoff` with `FaultInUndo = TRUE` | power is lost after the controller's undo has made the previous release active and before it is journalled: the next boot finds a healthy backend and commits the operation, against `controller_host.py:492` |
| `HistoryReportedOnce` (`NotificationOutbox`) | `OutboxRounds` with `Reschedules = TRUE` | an hour of the report moved back makes a slot due that lies inside a reported one |
| `InterruptedReportsEnd` (`NotificationOutbox`) | `OutboxRounds` with `Events = {}` | a report whose worker died less than ten minutes before the next start stays "sending", and every later report waits behind it until some later start; `sqlite_store.py:5302` says "Release interrupted report sends when a worker starts again." |
| `NothingStrays` (`LegacyHandover`) | `LegacyAdoption` | an operation let in before the retirement finds no file to lock any more and, when the marker has been cleared, creates it anew, against the comment of `retire_database` |
| `WritesAreAdopted` (`LegacyHandover`) | `LegacyAdoption` with `MaxFaults = 2` | the settings name the new database and cannot be restored, the new database is removed all the same |
| `HandoverEnds` (`LegacyHandover`) | `LegacyAdoption` with `UnlinkMayFail = TRUE` | a marker that cannot be removed leaves the flag of the gate set, and later operations of the process wait for ever (`sqlite_coordination.py:221`) |
| `HandoverEnds` (`LegacyHandover`) | `LegacyAdoption` with the nested operation in the migrator's process | the inner activity waits for the maintenance that waits for the outer one (`sqlite_coordination.py:206`); the offline migrator has no such caller |
| `WorkIsCounted` (`OcrRuns`) | `OcrCancel` | the pump comes between `inflight.add` and `pending_dispatch.add`, takes the run for one of a stopped process and gives its lease back; the dispatch goes on, and the process works on a run no drain waits for; `docs/superpowers/specs/2026-09-15-installed-updates-design.md:145` says the counter includes OCR |

Smaller ones, outside the properties. The undo in the backend restores the
release and, because the OCR marker is read after `apply`, the new OCR component
(`restart_handoff.py:121`). A start of the backend that raises something other
than `OSError` leaves the operation "validating" until the next restart. A refused
or failed deferred restart leaves the gate closed. An intent recorded between the
worker's batch and its capture of the generation waits for the idle timeout (60 s).
A run refused by the gate stays "running" in the registry of OCR runs; a late
result turns an "error" into "completed"; a cancelled run that was sent ends as
"error"; a queue thread that has waited 30 minutes gives up without cancelling.
A migrator that dies between publishing and activating leaves a target that a
second attempt refuses, and the marker "active" that nobody removes.

The passing runs therefore assume, and their `.cfg` files say: readable
forms and removable directories in `JobsSafety`; in both runs of the transaction
that a restart acts before an operation begins (`RestartMayBeLate = FALSE`); in
`TransactionSafe` that the backend runs when a plan is executed (`MayBeDown = FALSE`) and that the
maintenance files can be removed (`FilesMayStick = FALSE`). The last matters:
`clear_maintenance` is called inside the `try` of `execute`, after "committed",
when users may be admitted already; its failure rolls a committed release back.
`TransactionFaults` makes neither of these two. `FaultInUndo`, `Reschedules`,
`UnlinkMayFail` and a single fault in `LegacyAdoption` are what the table above
says. In `OcrRuns` a hanging process, or an answer without a name, exempts its runs from
`RunsEnd`, as it does in the code, where only a cancellation or the end of the
process ends them. Forms keep the order of their submission on disk: file times that
are equal, or go back with the clock, are not modelled.

Fairness. Weak fairness of the backend's threads (the watch polls every 0.2 s, a
refused worker every 0.1 s), of lease holders ("released exactly once by its
owner") and of time; of the controller, whose waits are all bounded (900 s for
the drain, a deadline for health), and whose task Windows starts again. The
worker of the outbox is a daemon thread, and the service that owns it is started
again. The migrator's thread and those inside the database run on. In `OcrRuns`
every thread runs on, the queue thread pumps every 0.5 s also during maintenance,
and an OCR process that does not hang answers. Nobody need submit, cancel, force,
recover or crash.

## Proofs

`MaintenanceCoordinatorProofs` proves, for any number of writers, threads and
operations:

- `TypeCorrect`: `Spec => []TypeOK`.
- `ForceReaches`: `Spec => []ForceReachesEveryTask`. The invariant is
  strengthened with what happens while no operation owns the gate, where a force
  cannot have been requested.
- `CancelsOnlyForced`: `Spec => []OnlyForcedTasksAreCancelled`, inductive with
  type correctness.
- `ExclusiveExecution`: `Spec => []ExecutesAlone`, for a coordinator per
  operation. `ExecutesAlone` alone is not inductive: the operation executes
  because the phase is "ready", the phase is "ready" because a thread decided so
  some steps earlier, and the decision was right when it was made. The inductive
  invariant `Coordinated` carries the emptiness of `leases` through that chain:
  whoever has decided "go" or "warn", a countdown and the phase "ready" all imply
  a closed gate without leases, and a closed gate never gets one again.
- `Refinement`: `Spec => ImplementsExclusiveMaintenance`, from `Coordinated`:
  each step maps to a step of `ExclusiveMaintenance` or to a stutter.

Assumptions: the named ones of the modules (`OperationAssumption`,
`ReuseAssumption`) and, in the last two theorems, `~ ReuseCoordinator`. With one
coordinator for the whole process the invariant is false: a decision left over
from one operation is written into the next.

`ModuleTransactionProofs` proves, for any number of operations, of losses of
power and of writes, whether or not files stick and the backend stops:

- `TypeCorrect`: `Spec => []TypeOK`, and with it that a record never names a
  backup that is not there.
- `CodeAlwaysFitsData`: `Spec => []CodeFitsData`.
- `DecisionsAreInstalled`: `Spec => []DecidedMeansInstalled`.

None of the three is inductive. Whether the data fits the code that starts next
depends on what the journal said when the data was changed, on the backup it
names, and on the step that was interrupted. `IInv` says so in parts:
`Recoverable` (a record that admits a change names a backup its previous release
can read; one that does not finds the data as it was) holds of the journal
always, and of the record in memory wherever a rollback may begin from it;
`RecordInv` says where the two are the same, that is, up to the first write that
fails; `BackendInv` lists the steps at which no backend runs; `Bounded` and
`PlanInv` say that nothing is newer than the operation in progress, which is why
a backup of any age fits the release being installed; `ExecuteInv` and `UndoInv`
say how far each procedure has come. The proof has one step per action, grouped
by what the action does: write the journal, have an effect, only look.

Assumptions: `TransactionAssumption`, that bounds are naturals, switches Booleans,
and that `Down` and `NoBackup` are neither a release nor a backup; and
`RestartMayBeLate = FALSE`, without which the last two are false (see above).

`AtomicReleaseProofs` proves what `TransactionSafe` checks apart from its liveness, for
any number of operations, of losses of power and of writes:

- `WritesAreNeverLost`: `Spec => []WritesAreKept`.
- `OnlyVerifiedReleasesServe`: `Spec => []OnlyVerifiedServes`.
- `TransactionIsAtomic`: `Spec => ImplementsAtomicRelease`: every step maps to one of
  `AtomicRelease` or to a stutter. The installed release is the journal's, not the active set's:
  `Replace` is the write of "committed" and nothing else, and `Copy` is the backup.

None of them is inductive, even given `IInv`. `SafeInv` adds four parts. `RequestInv`: the
request stands from the drain to the commit or to the end of the rollback, so every
backend started in between starts closed. `AdmissionInv`: while an operation is
unfinished, the previous release serves, or nobody is served and no start changes that.
`WritesInv`: where, at each step, the writes are that the procedure in progress will
keep (in the database, in its backup, or in both, which are then the same because
the last writer had left before the backup was made). `NumberInv`: a backup is of
its operation and none is made twice.

Assumptions: `FilesMayStick = FALSE`, `MayBeDown = FALSE` and `RestartMayBeLate = FALSE`, as in
`TransactionSafe`. The first two are needed by each of the three: TLC finds each of
them violated with either constant `TRUE` and one loss of power (the table above and
the paragraph below it say how). Without the third only `WritesAreKept` survives on
the instance of the run; its proof goes through the parts that do not.

The proof of the refinement found an error in `AtomicRelease`. It used to say that a
replacement takes a subset of the writes. Where operation 2 restores what backup 1
has, and operation 3 what backup 2 has, the writes that the first restoration gave up
come back, as `restore_backup` has it; with the two operations of `TransactionSafe`
this cannot happen. `AtomicRelease` now remembers the copies, and a replacement takes
one of them; TLC has checked the refinement once with three operations and no loss
of power (2.1 million states).

`ProcessJobsProofs` proves, for any number of jobs, owners, workers, operations
and restarts and any limits of the queue, the nine invariants and the action property
that `JobsSafety` and `JobsAtLimit` check: `TypeOK` (`TypeCorrect`) and

- `SlotsAccounted`, `LeasesAccounted`: `SlotsAreJobsInFlight` and
  `LeasesAreWorkInProgress`, pointwise. Both need `Placed`: a job is in the queue
  or with one worker, never twice and never in both, and before its submission
  in neither; and of the types the part `Holding`: whoever has the queue condition
  is alone, and the head of the queue it has its lease for stays.
- `MaintenanceIsAlone`: `NothingWritesDuringMaintenance`. `Drained` carries the
  emptiness of `leases` from the watch's acknowledgement to the end of the
  operation, through a stop of the backend (no leases at all) and a start (the gate
  opens closed, because a request stands whenever the controller is not idle).
  With `Leased`, no lease means no writer.
- `ForceReachesJobs`: every running job has its callback at the gate.
- `BegunAtMostOnce`: `RunAtMostOnce`. A job that can still be begun has not been:
  `Begun` relates its form in memory, its form on disk and its cancel event. It
  holds whether or not directories can be removed.
- `WaitingIsDurable`: `WaitingJobsAreDurable`, with what the canceller may assume
  after each of its steps (`Durable`).
- `CancelledIsNotReplayed`: `CancelledStaysOut`, whether or not directories can be
  removed. `Out` says what else a withdrawn job has lost while its form on disk is gone or
  marked: its submission is over, it waits in no queue, and a worker that still has
  it finds its cancel event set and no form in memory to mark.
- `CancelledStaysCancelled`: `CancelledNeverRuns`, which no run checks because it is
  false where directories cannot be removed, see above; proved for `~ CleanupMayFail`.
- `OrderIsKept`: `SubmissionOrderSurvives`. What is still to be restored is in order,
  and behind everything that waits (`Ordered`).

- `QueuedFormsAreResumed` and `QueuedFormsFitAgain`: `QueuedFormsAreInQueue`, where every form
  can be read (`BadForms = {}`) and directories can be removed. Both rest on `Resumable`:
  whoever takes a job with a queued form over, from the startup to the queue, from the
  queue to a worker or a canceller, and from the worker to the canceller that took
  its entry's form, still has to deal with the form. They differ in why a restored
  form finds a slot. The first assumes limits that no number of jobs reaches. The
  second has any limits, and counts: the slots taken and the forms still to be restored
  together never exceed the limits, in all or for an owner (`Claims`), because each
  form queued on disk had a slot when the backend died. That needs `[]Unraced`, that no
  DELETE marks a job between its publication and its submission; the table above
  shows what happens otherwise.

Assumptions: `JobAssumption` and `OperationAssumption`, and what is said above.

`ReleaseOperationProofs` proves the four safety properties of `ReleaseHandoff`, for any
number of updates, restarts and faults:

- `TypeCorrect`: `Spec => []TypeOK`, with what each step has in its hands: an
  operation, of the kind the step is for.
- `SessionsAreVoided`: `Spec => []SessionsEnd`. A commit is counted in every copy of
  the journal, on disk, in the backend's memory and in the controller's, and as soon as
  the controller has decided for it (`Voided`): an old copy may replace the file.
- `JournalOnlyMovesOn`: `Spec => JournalAdvances`. Whoever is about to replace the journal
  holds what is in it (`Steady`): the maintenance thread while it works, the backend
  while an operation of its own is unfinished, the controller from the handoff it has
  read to its decision. No lock says so; it follows from who may submit, who is stopped
  before whom, and when the handoff is written and removed.
- `OutcomesHold`: `Spec => OutcomeIsInstalled`, under `FaultInUndo = FALSE` (otherwise it is
  false, see above). `Installed` says, for each step of each of the two, what is
  active and what the notes of the operation (its entry, its handoff) say was found.

Assumption: `ReleaseAssumption`.

`NotificationOutboxProofs` proves the safety properties of `OutboxRounds`, for any number
of events, recipients, days and faults and any size of a batch:

- `TypeCorrect`: `Spec => []TypeOK`.
- `WritesOnce`: `Spec => []SentOnce`. `Budget` pays for every copy of a message with a
  fault: who may still get one, by a delivery that is pending or in hand, has had
  one fewer.
- `NeverSleepsOnDelivery`: `Spec => []SleepsOnNothing`. Between the last look at what is
  pending and the sleep nothing becomes pending without waking the worker (`Unmissed`).
  A look that raised is excepted in the property: it leaves the worker asleep, up to
  60 s, on what is pending.
- `ReportsCoverHistory`: `Spec => []HistoryReportedOnce`, under `Reschedules = FALSE`
  (otherwise it is false, see above). `History` has one report outstanding at most,
  later than all that were sent, and one that was claimed begins where the last sent
  one ended; that there is a last one is a lemma (`LastSlot`, well-founded induction).

Assumption: `OutboxAssumption`.

`LegacyHandoverProofs` proves, for any number of processes, operations, threads'
nesting, failed steps, crashes and attempts:

- `MigratesAlone`: `Spec => []AdoptsAlone`. The migrator is alone because it has the
  file lock for itself; a process shares that lock because its gate counts
  activities, and an operation inside is one of those counted. `CountsActivities`
  says so as an equality of cardinalities, together with the threads that have
  left and not released yet.
- `FailureLeavesUsable`: `Spec => []StaysUsable` under `~ UnlinkMayFail`, from the order in
  which the migrator sets and removes marker, flag and lock (`Course`, `Tidy`).
- `NothingIsLeftBehind`: `Spec => []WritesAreAdopted` under `MaxFaults <= 1`, whether or not
  markers can be removed. `Progress` says how far an attempt has come and what it leaves if
  it ends there: the old database is unsealed and has everything, or what the
  settings name has everything and the old one is sealed. A second fault, in the
  error path of the first, breaks it (see above).

Assumption: `HandoverAssumption`.

Only model-checked: all liveness (`DrainTerminates`, `QueuedJobsRun`, `SynchronousRequestsEnd`,
`SeenRequestsEnd`, `RequestsAreWithdrawn`, `OperationsEnd`, `HandedOverEnds`, `DeliveriesEnd`,
`HandoverEnds`, and with `RunsEnd`, `CancelEnds` and `ForceEnds` all that is said of `OcrRuns`),
because fairness and ENABLED are beyond the proof system. Every safety invariant,
every action property and every refinement that a passing run checks is a theorem.
No module about which theorems are proved has a RECURSIVE operator; none of the
modules needs one.

## Not modelled, and the plan

Next, in this order:

1. *Proofs about `OcrRuns`*: types, and that a lease of the gate belongs to a run that
   is being worked on or dispatched, which its liveness properties rest on.
2. `ActiveClients` (`web/active_clients.py`): batches of heartbeats by generation,
   a flush that races a close.
3. The cancellation of an asyncio task at an await of `process_api.py`, and the
   failure of `clear_maintenance` after the commit, as properties of their modules.

Not modelled of the modelled parts: the idempotency of request ids and the
operations on the OCR component alone (`ReleaseOperation`); manual retries, test
messages, secret reminders and retention (`NotificationOutbox`); what is
imported, the replacement of an existing target, the lock for programs older
than PicSyncra and POSIX locks, which wait where those of Windows fail
(`LegacyHandover`); rows of crop jobs, a second pump between `list()` and
`clear()` of the staged events, the worker of a program that is not installed
(`OcrRuns`).

Left out for good: stores and queries, the desktop application and the image
pipeline (I/O without a protocol), telemetry (never read back), catalog, planner,
downloads and signatures (validation: for the transaction a plan or an
exception), the pipe and authorization (transport and rights), installers.
