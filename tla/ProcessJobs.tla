----------------------------- MODULE ProcessJobs -----------------------------
(***************************************************************************)
(* The life of a WEB process job: admission, reservation, staging, the     *)
(* durable form (pending.json), the in-memory queue, the workers,          *)
(* cancellation by the user, restart and restore - under the maintenance   *)
(* gate that the module controller closes and reopens through two files.   *)
(*                                                                         *)
(*   Client of job j     request[j]    process_api.queue_process_upload    *)
(*   Canceller of job j  canceller[j]  app._cancel_process_job_for_user    *)
(*   Worker w            worker[w]     ProcessQueueService._worker_loop    *)
(*   Watch               watchId       start_module_maintenance_watch      *)
(*   Controller          controller    ModuleExecutor / module_service     *)
(*                                                                         *)
(* One action is one critical section (queue condition, _PROCESS_JOBS_LOCK *)
(* or gate condition) or one file write; everything else interleaves.  The *)
(* queue condition is held by a worker from its admission to its popleft,  *)
(* which are two critical sections of the gate: see QueueLockFree.         *)
(***************************************************************************)
EXTENDS MaintenanceGate, Sequences, SequencesExt, FiniteSets

CONSTANTS
    Job, NoJob,
    Owner, OwnerOf,    \* OwnerOf[j]: the cache scope that submits job j
    Synchronous,       \* jobs submitted to POST /api/process
    Worker,            \* QueueLimits.workers
    MaxPending,        \* QueueLimits.max_pending
    MaxPerOwner,       \* QueueLimits.max_per_owner
    BadForms,          \* jobs whose form load_pending cannot read back
    CleanupMayFail,    \* rmtree of a job directory may fail (file in use)
    MaxRestarts        \* model bound: crashes and restarts of the backend

ASSUME JobAssumption ==
    /\ NoJob \notin Job /\ IsFiniteSet(Job)
    /\ OwnerOf \in [Job -> Owner]
    /\ Token = {"stage", "run", "cancel"} \X Job
    /\ {MaxPending, MaxPerOwner, MaxRestarts} \subseteq Nat
    /\ {BadForms, Synchronous} \subseteq SUBSET Job
    /\ CleanupMayFail \in BOOLEAN

VARIABLES
    \* on disk, and the controller's process
    pending,       \* state in job-*/pending.json, "none" when there is no file
    queuedOrder,   \* jobs in the order of their "queued" writes (st_mtime)
    requestFile,   \* operation in module-maintenance-request.json
    readyFile,     \* operation acknowledged by module-maintenance-ready.json
    controller,    \* "idle", "waiting" for the drain, or "working" alone
    asked,         \* operations already requested
    \* history
    execs,         \* how often the body of a job was begun
    withdrawn,     \* jobs whose DELETE was answered with status "cancelled"
    restarts,
    \* the backend process
    up,            \* "down", "restoring" (startup) or "serving"
    toRestore,     \* what load_pending has still to yield
    watchId,       \* _module_maintenance_id
    reservations,  \* jobs holding a slot of the queue
    waiting,       \* _jobs
    status,        \* _PROCESS_JOBS[j]["status"], "none" when absent
    forms,         \* jobs whose entry still holds its form
    cancelEvents,  \* cancel events set by ProcessQueueService.cancel
    completed,     \* completion events that are set
    request, canceller, worker

diskVars == <<pending, queuedOrder>>
controlVars == <<requestFile, readyFile, controller, asked, watchId>>
processVars == <<up, toRestore, restarts>>
queueVars == <<reservations, waiting>>
entryVars == <<status, forms, completed>>
historyVars == <<execs, withdrawn>>
vars == <<gateVars, diskVars, controlVars, processVars, queueVars, entryVars,
          historyVars, cancelEvents, request, canceller, worker>>

PendingState == {"none", "staged", "queued", "running", "cancelled"}
Status == {"none", "queued", "running", "completed", "failed", "cancelled"}
Terminal == {"completed", "failed", "cancelled"}
RequestStep == {"idle", "admitted", "reserved", "staged", "published",
                "accepted", "awaiting", "done"}
CancelStep == {"idle", "admitted", "marked", "removed", "finished",
               "withdrawn", "leaving", "done"}
WorkerStep == {"idle", "admitted", "taken", "started", "broken", "executing",
               "ended", "leaving"}
Idle == [step |-> "idle", job |-> NoJob]

TypeOK ==
    /\ GateTypeOK
    /\ pending \in [Job -> PendingState]
    /\ queuedOrder \in Seq(Job)
    /\ {requestFile, readyFile, watchId} \subseteq Operation \union {NoOperation}
    /\ controller \in {"idle", "waiting", "working"}
    /\ asked \subseteq Operation
    /\ execs \in [Job -> Nat]
    /\ withdrawn \subseteq Job
    /\ restarts \in 0 .. MaxRestarts
    /\ up \in {"down", "restoring", "serving"}
    /\ toRestore \in Seq(Job)
    /\ reservations \subseteq Job
    /\ waiting \in Seq(Job)
    /\ status \in [Job -> Status]
    /\ {forms, cancelEvents, completed} \subseteq SUBSET Job
    /\ request \in [Job -> RequestStep]
    /\ canceller \in [Job -> CancelStep]
    /\ worker \in [Worker -> [step : WorkerStep, job : Job \union {NoJob}]]

Init ==
    /\ GateInit
    /\ pending = [j \in Job |-> "none"] /\ queuedOrder = <<>>
    /\ requestFile = NoOperation /\ readyFile = NoOperation
    /\ controller = "idle" /\ asked = {} /\ watchId = NoOperation
    /\ execs = [j \in Job |-> 0] /\ withdrawn = {} /\ restarts = 0
    /\ up = "serving" /\ toRestore = <<>>
    /\ reservations = {} /\ waiting = <<>>
    /\ status = [j \in Job |-> "none"]
    /\ forms = {} /\ cancelEvents = {} /\ completed = {}
    /\ request = [j \in Job |-> "idle"]
    /\ canceller = [j \in Job |-> "idle"]
    /\ worker = [w \in Worker |-> Idle]

(* ------------------------------- helpers ------------------------------- *)

Stage(j) == <<"stage", j>>
Run(j) == <<"run", j>>
Cancel(j) == <<"cancel", j>>

InQueue(j) == \E i \in DOMAIN waiting : waiting[i] = j
\* j's form was marked "queued" before that of k.
Earlier(j, k) ==
    \E a, b \in DOMAIN queuedOrder : a < b /\ queuedOrder[a] = j /\ queuedOrder[b] = k
AtWork(j) == \E w \in Worker : worker[w].job = j

\* The queue condition; a worker keeps it from try_admit to popleft.
QueueLockFree == \A w \in Worker : worker[w].step # "admitted"

\* The job's cancel event: set by the user's DELETE or by a forced drain.
CancelIsSet(j) == j \in cancelEvents \/ Run(j) \in called

HasCapacity(j) ==
    /\ Cardinality({k \in reservations : OwnerOf[k] = OwnerOf[j]}) < MaxPerOwner
    /\ Cardinality(reservations) < MaxPending

RequestGoes(j, from, to) ==
    /\ up = "serving"
    /\ request[j] = from
    /\ request' = [request EXCEPT ![j] = to]

CancelGoes(j, from, to) ==
    /\ up = "serving"
    /\ canceller[j] = from
    /\ canceller' = [canceller EXCEPT ![j] = to]

WorkerGoes(w, from, to) ==
    /\ up # "down"
    /\ worker[w].step = from
    /\ worker' = [worker EXCEPT ![w].step = to]

\* cleanup_job_directory: removes the directory with its pending.json, or
\* fails and leaves both.
CleanDirectory(j) ==
    \/ pending' = [pending EXCEPT ![j] = "none"]
    \/ CleanupMayFail /\ UNCHANGED pending

\* mark_state: nothing to do once the file is gone.
MarkState(j, state) ==
    pending' = [pending EXCEPT ![j] = IF @ = "none" THEN @ ELSE state]

(* ------------------------- the client of a job ------------------------- *)

\* reserve, first half: the lease.  A refused request (503) changes nothing.
Admit(j) ==
    /\ RequestGoes(j, "idle", "admitted")
    /\ TryAdmit(Stage(j), FALSE)
    /\ UNCHANGED <<diskVars, controlVars, processVars, queueVars, entryVars,
                   historyVars, cancelEvents, canceller, worker>>

\* reserve, second half: a slot, or 429 and the lease goes back.
Reserve(j) ==
    /\ QueueLockFree
    /\ \/ /\ HasCapacity(j)
          /\ RequestGoes(j, "admitted", "reserved")
          /\ reservations' = reservations \union {j}
          /\ UNCHANGED gateVars
       \/ /\ ~ HasCapacity(j)
          /\ RequestGoes(j, "admitted", "idle")
          /\ Finish(Stage(j))
          /\ UNCHANGED reservations
    /\ UNCHANGED <<diskVars, controlVars, processVars, waiting, entryVars,
                   historyVars, cancelEvents, canceller, worker>>

\* stage_form and save_pending(state="staged") succeed ...
StageForm(j) ==
    /\ RequestGoes(j, "reserved", "staged")
    /\ pending' = [pending EXCEPT ![j] = "staged"]
    /\ UNCHANGED <<gateVars, queuedOrder, controlVars, processVars, queueVars,
                   entryVars, historyVars, cancelEvents, canceller, worker>>

\* ... or raise, and the reservation is released with its lease.
StageFails(j) ==
    /\ QueueLockFree
    /\ RequestGoes(j, "reserved", "idle")
    /\ reservations' = reservations \ {j}
    /\ Finish(Stage(j))
    /\ UNCHANGED <<diskVars, controlVars, processVars, waiting, entryVars,
                   historyVars, cancelEvents, canceller, worker>>

\* _queue_process_job publishes the entry: from here users see the job.
Publish(j) ==
    /\ RequestGoes(j, "staged", "published")
    /\ status' = [status EXCEPT ![j] = "queued"]
    /\ forms' = forms \union {j}
    /\ completed' = completed \ {j}
    /\ UNCHANGED <<gateVars, diskVars, controlVars, processVars, queueVars,
                   historyVars, cancelEvents, canceller, worker>>

\* Mutant: the form is never marked "queued", so a restart forgets the job.
SubmitUnmarked(j) ==
    /\ QueueLockFree
    /\ RequestGoes(j, "published", "accepted")
    /\ queuedOrder' = Append(queuedOrder, j)
    /\ waiting' = Append(waiting, j)
    /\ Finish(Stage(j))
    /\ UNCHANGED <<pending, controlVars, processVars, reservations, entryVars,
                   historyVars, cancelEvents, canceller, worker>>

\* Mutant: the staging lease lives on while the job waits.
SubmitKeepingLease(j) ==
    /\ QueueLockFree
    /\ RequestGoes(j, "published", "accepted")
    /\ MarkState(j, "queued")
    /\ queuedOrder' = Append(queuedOrder, j)
    /\ waiting' = Append(waiting, j)
    /\ UNCHANGED <<gateVars, controlVars, processVars, reservations, entryVars,
                   historyVars, cancelEvents, canceller, worker>>

\* submit: on_submit marks the form "queued", the job joins the queue, the
\* lease ends - waiting jobs are durable and must not hold the drain open.
Submit(j) ==
    /\ QueueLockFree
    /\ RequestGoes(j, "published", "accepted")
    /\ MarkState(j, "queued")
    /\ queuedOrder' = Append(queuedOrder, j)
    /\ waiting' = Append(waiting, j)
    /\ Finish(Stage(j))
    /\ UNCHANGED <<controlVars, processVars, reservations, entryVars,
                   historyVars, cancelEvents, canceller, worker>>

\* Mutant: a job that could not be submitted keeps its slot.
SubmitFailsKeepingSlot(j) ==
    /\ QueueLockFree
    /\ RequestGoes(j, "published", "idle")
    /\ status' = [status EXCEPT ![j] = "none"]
    /\ forms' = forms \ {j}
    /\ Finish(Stage(j))
    /\ CleanDirectory(j)
    /\ UNCHANGED <<queuedOrder, controlVars, processVars, queueVars, completed,
                   historyVars, cancelEvents, canceller, worker>>

\* on_submit raises: the entry, the reservation and the directory go.
SubmitFails(j) ==
    /\ QueueLockFree
    /\ RequestGoes(j, "published", "idle")
    /\ status' = [status EXCEPT ![j] = "none"]
    /\ forms' = forms \ {j}
    /\ reservations' = reservations \ {j}
    /\ Finish(Stage(j))
    /\ CleanDirectory(j)
    /\ UNCHANGED <<queuedOrder, controlVars, processVars, waiting, completed,
                   historyVars, cancelEvents, canceller, worker>>

\* POST /api/process/background answers at once, POST /api/process waits for
\* the completion event - without a lease of its own.
Respond(j) ==
    /\ \/ j \notin Synchronous /\ RequestGoes(j, "accepted", "done")
       \/ j \in Synchronous /\ RequestGoes(j, "accepted", "awaiting")
       \/ j \in completed /\ RequestGoes(j, "awaiting", "done")
    /\ UNCHANGED <<gateVars, diskVars, controlVars, processVars, queueVars,
                   entryVars, historyVars, cancelEvents, canceller, worker>>

(* ------------------------------- workers ------------------------------- *)

\* try_admit for the head of the queue, under the queue condition, which the
\* worker keeps.  Refused, it waits .1 s and looks again.
WorkerAdmit(w) ==
    /\ QueueLockFree
    /\ waiting # <<>>
    /\ WorkerGoes(w, "idle", "admitted")
    /\ TryAdmit(Run(Head(waiting)), FALSE)
    /\ UNCHANGED <<diskVars, controlVars, processVars, queueVars, entryVars,
                   historyVars, cancelEvents, request, canceller>>

\* Mutant: the job is taken, its lease cannot be forced.
TakeUnforceable(w) ==
    /\ up # "down" /\ worker[w].step = "admitted"
    /\ worker' = [worker EXCEPT ![w] = [step |-> "taken", job |-> Head(waiting)]]
    /\ waiting' = Tail(waiting)
    /\ UNCHANGED <<gateVars, diskVars, controlVars, processVars, reservations,
                   entryVars, historyVars, cancelEvents, request, canceller>>

\* popleft, set_cancel_callback, state = "running"; the condition is free.
Take(w) ==
    /\ up # "down" /\ worker[w].step = "admitted"
    /\ worker' = [worker EXCEPT ![w] = [step |-> "taken", job |-> Head(waiting)]]
    /\ waiting' = Tail(waiting)
    /\ SetCancelCallback(Run(Head(waiting)))
    /\ UNCHANGED <<diskVars, controlVars, processVars, reservations, entryVars,
                   historyVars, cancelEvents, request, canceller>>

\* Mutant: the job's body begins with its form still "queued" on disk.
StartUnmarked(w) ==
    LET j == worker[w].job IN
    /\ WorkerGoes(w, "taken", "started")
    /\ status' = [status EXCEPT ![j] = "running"]
    /\ UNCHANGED <<gateVars, diskVars, controlVars, processVars, queueVars, forms,
                   completed, historyVars, cancelEvents, request, canceller>>

\* _run_process_job: the entry becomes "running" whatever it was, then
\* mark_started marks the form, unless the entry has lost it; it may raise.
Start(w) ==
    LET j == worker[w].job IN
    /\ worker[w].step = "taken"
    /\ status' = [status EXCEPT ![j] = "running"]
    /\ \/ /\ WorkerGoes(w, "taken", "started")
          /\ IF j \in forms THEN MarkState(j, "running") ELSE UNCHANGED pending
       \/ /\ j \in forms
          /\ WorkerGoes(w, "taken", "broken")
          /\ UNCHANGED pending
    /\ UNCHANGED <<gateVars, queuedOrder, controlVars, processVars, queueVars,
                   forms, completed, historyVars, cancelEvents, request, canceller>>

\* The cancel event is clear: _process_upload_snapshot begins.
Execute(w) ==
    LET j == worker[w].job IN
    /\ ~ CancelIsSet(j)
    /\ WorkerGoes(w, "started", "executing")
    /\ execs' = [execs EXCEPT ![j] = @ + 1]
    /\ UNCHANGED <<gateVars, diskVars, controlVars, processVars, queueVars,
                   entryVars, withdrawn, cancelEvents, request, canceller>>

\* How the run can end: cancelled at a check point, failed, or completed.
Outcome(w) ==
    LET j == worker[w].job  step == worker[w].step IN
    (IF step \in {"started", "executing"} /\ CancelIsSet(j) THEN {"cancelled"} ELSE {})
      \union (IF step \in {"broken", "executing"} THEN {"failed"} ELSE {})
      \union (IF step = "executing" THEN {"completed"} ELSE {})

\* _finish_process_job_success/_failure/_cancelled, then the directory.
End(w) ==
    LET j == worker[w].job IN
    /\ \E outcome \in Outcome(w) : status' = [status EXCEPT ![j] = outcome]
    /\ WorkerGoes(w, worker[w].step, "ended")
    /\ forms' = forms \ {j}
    /\ IF j \in forms THEN CleanDirectory(j) ELSE UNCHANGED pending
    /\ UNCHANGED <<gateVars, queuedOrder, controlVars, processVars, queueVars,
                   completed, historyVars, cancelEvents, request, canceller>>

\* finally: the completion event.
Complete(w) ==
    /\ WorkerGoes(w, "ended", "leaving")
    /\ completed' = completed \union {worker[w].job}
    /\ UNCHANGED <<gateVars, diskVars, controlVars, processVars, queueVars, status,
                   forms, historyVars, cancelEvents, request, canceller>>

\* finally of the worker loop: the slot and the lease.
Leave(w) ==
    /\ QueueLockFree /\ up # "down"
    /\ worker[w].step = "leaving"
    /\ worker' = [worker EXCEPT ![w] = Idle]
    /\ reservations' = reservations \ {worker[w].job}
    /\ Finish(Run(worker[w].job))
    /\ UNCHANGED <<diskVars, controlVars, processVars, waiting, entryVars,
                   historyVars, cancelEvents, request, canceller>>

(* ------------------- cancellation by the user (DELETE) ----------------- *)

\* MaintenanceRequestAdmission: a lease for the DELETE request (503 when
\* refused).  The page offers it for jobs that are not over.
CancelAdmit(j) ==
    /\ status[j] \in {"queued", "running"}
    /\ CancelGoes(j, "idle", "admitted")
    /\ TryAdmit(Cancel(j), FALSE)
    /\ UNCHANGED <<diskVars, controlVars, processVars, queueVars, entryVars,
                   historyVars, cancelEvents, request, worker>>

\* Under _PROCESS_JOBS_LOCK: a waiting job's form is marked "cancelled", a
\* job that is over is refused (409).
CancelMark(j) ==
    /\ \/ /\ status[j] = "queued"
          /\ CancelGoes(j, "admitted", "marked")
          /\ MarkState(j, "cancelled")
       \/ /\ status[j] = "running"
          /\ CancelGoes(j, "admitted", "marked")
          /\ UNCHANGED pending
       \/ /\ status[j] \notin {"queued", "running"}
          /\ CancelGoes(j, "admitted", "leaving")
          /\ UNCHANGED pending
    /\ UNCHANGED <<gateVars, queuedOrder, controlVars, processVars, queueVars,
                   entryVars, historyVars, cancelEvents, request, worker>>

\* ProcessQueueService.cancel: out of the queue, or the running job's event;
\* a job that is neither (not submitted yet, or over) is refused.
CancelInQueue(j) ==
    /\ QueueLockFree
    /\ \/ /\ InQueue(j)
          /\ CancelGoes(j, "marked", "removed")
          /\ \E i \in DOMAIN waiting : waiting[i] = j /\ waiting' = RemoveAt(waiting, i)
          /\ reservations' = reservations \ {j}
          /\ cancelEvents' = cancelEvents \union {j}
       \/ /\ AtWork(j)
          /\ CancelGoes(j, "marked", "removed")
          /\ cancelEvents' = cancelEvents \union {j}
          /\ UNCHANGED queueVars
       \/ /\ ~ InQueue(j) /\ ~ AtWork(j)
          /\ CancelGoes(j, "marked", "leaving")
          /\ UNCHANGED <<queueVars, cancelEvents>>
    /\ UNCHANGED <<gateVars, diskVars, controlVars, processVars, entryVars,
                   historyVars, request, worker>>

\* Under _PROCESS_JOBS_LOCK: an entry that still says "queued" is cancelled,
\* although a worker may have taken the job; any other is asked to stop.
CancelEntry(j) ==
    /\ IF status[j] = "queued"
       THEN /\ CancelGoes(j, "removed", "finished")
            /\ status' = [status EXCEPT ![j] = "cancelled"]
            /\ forms' = forms \ {j}
       ELSE /\ CancelGoes(j, "removed", "leaving")
            /\ UNCHANGED <<status, forms>>
    /\ UNCHANGED <<gateVars, diskVars, controlVars, processVars, queueVars,
                   completed, historyVars, cancelEvents, request, worker>>

\* Mutant: the waiting client is not woken.
CancelCleanSilently(j) ==
    /\ CancelGoes(j, "finished", "withdrawn")
    /\ CleanDirectory(j)
    /\ UNCHANGED <<gateVars, queuedOrder, controlVars, processVars, queueVars,
                   entryVars, historyVars, cancelEvents, request, worker>>

\* The directory, then the completion event.
CancelClean(j) ==
    /\ CancelGoes(j, "finished", "withdrawn")
    /\ CleanDirectory(j)
    /\ completed' = completed \union {j}
    /\ UNCHANGED <<gateVars, queuedOrder, controlVars, processVars, queueVars,
                   status, forms, historyVars, cancelEvents, request, worker>>

\* The response leaves, and the request's lease with it.
CancelAnswer(j) ==
    /\ \/ /\ CancelGoes(j, "withdrawn", "done")
          /\ withdrawn' = withdrawn \union {j}
       \/ CancelGoes(j, "leaving", "idle") /\ UNCHANGED withdrawn
    /\ Finish(Cancel(j))
    /\ UNCHANGED <<diskVars, controlVars, processVars, queueVars, entryVars,
                   execs, cancelEvents, request, worker>>

\* The calls a forced drain makes of the running jobs' events.
ForcedCancel(j) ==
    /\ up # "down"
    /\ RunCallback(Run(j))
    /\ UNCHANGED <<diskVars, controlVars, processVars, queueVars, entryVars,
                   historyVars, cancelEvents, request, canceller, worker>>

(* -------------------- maintenance: watch and controller ---------------- *)

\* submit() of the controller writes the request before it prepares the plan,
\* _quiesce() again before it waits for the acknowledgement; the watch may not
\* have seen yet that the previous one is gone.
RequestDrain(o) ==
    /\ controller = "idle"
    /\ o \notin asked
    /\ asked' = asked \union {o}
    /\ requestFile' = o
    /\ controller' = "waiting"
    /\ UNCHANGED <<gateVars, diskVars, readyFile, watchId, processVars, queueVars,
                   entryVars, historyVars, cancelEvents, request, canceller, worker>>

\* The watch sees a request and closes the gate; begin() raises, and the
\* watch tries again, while another operation owns it.
WatchBegin(o) ==
    /\ up # "down"
    /\ requestFile = o /\ watchId = NoOperation
    /\ BeginMaintenance(o)
    /\ watchId' = o
    /\ UNCHANGED <<diskVars, requestFile, readyFile, controller, asked, processVars,
                   queueVars, entryVars, historyVars, cancelEvents, request,
                   canceller, worker>>

\* advance() says "ready" (MaintenanceCoordinator): the acknowledgement.
WatchReady ==
    /\ up # "down"
    /\ watchId # NoOperation /\ watchId = requestFile
    /\ leases = {}
    /\ readyFile # watchId /\ readyFile' = watchId
    /\ UNCHANGED <<gateVars, diskVars, requestFile, controller, asked, watchId,
                   processVars, queueVars, entryVars, historyVars, cancelEvents,
                   request, canceller, worker>>

\* Mutant: the watch is ready for the next request, the gate stays closed.
WatchForgets ==
    /\ up # "down"
    /\ requestFile = NoOperation /\ watchId # NoOperation
    /\ watchId' = NoOperation
    /\ readyFile' = NoOperation
    /\ UNCHANGED <<gateVars, diskVars, requestFile, controller, asked, processVars,
                   queueVars, entryVars, historyVars, cancelEvents, request,
                   canceller, worker>>

\* The request is gone and the gate is drained: it reopens.
WatchEnd ==
    /\ up # "down"
    /\ requestFile = NoOperation /\ watchId # NoOperation
    /\ CompleteMaintenance(watchId)
    /\ watchId' = NoOperation
    /\ readyFile' = NoOperation
    /\ UNCHANGED <<diskVars, requestFile, controller, asked, processVars, queueVars,
                   entryVars, historyVars, cancelEvents, request, canceller, worker>>

\* force_operation of an administrator, while the gate drains.
ForceDrain ==
    /\ up = "serving"
    /\ RequestForceCancel
    /\ UNCHANGED <<diskVars, controlVars, processVars, queueVars, entryVars,
                   historyVars, cancelEvents, request, canceller, worker>>

\* The controller reads its acknowledgement (or finds the backend stopped)
\* and works alone: stop, backup, migration, new program, start.
ControllerWorks ==
    /\ controller = "waiting"
    /\ readyFile = requestFile \/ up = "down"
    /\ controller' = "working"
    /\ readyFile' = NoOperation
    /\ UNCHANGED <<gateVars, diskVars, requestFile, asked, watchId, processVars,
                   queueVars, entryVars, historyVars, cancelEvents, request,
                   canceller, worker>>

\* clear_maintenance: after the commit or the rollback, as soon as the backend
\* is healthy; or while it still drains, when the preparation fails or its 900 s
\* are over.  Nobody asks whether the watch has seen the request.
ClearMaintenance ==
    /\ controller # "idle"
    /\ controller = "working" => up = "serving"
    /\ controller' = "idle"
    /\ requestFile' = NoOperation
    /\ readyFile' = NoOperation
    /\ UNCHANGED <<gateVars, diskVars, asked, watchId, processVars, queueVars,
                   entryVars, historyVars, cancelEvents, request, canceller, worker>>

(* -------------------------- restart and restore ------------------------ *)

\* The backend dies: a crash, or the controller stops it.  Clients lose
\* their answers; what is in memory is gone.
Stop ==
    /\ up # "down"
    /\ restarts < MaxRestarts
    /\ restarts' = restarts + 1
    /\ up' = "down"
    /\ GateRestart(NoOperation)
    /\ watchId' = NoOperation
    /\ toRestore' = <<>>
    /\ reservations' = {} /\ waiting' = <<>>
    /\ status' = [j \in Job |-> "none"]
    /\ forms' = {} /\ completed' = {} /\ cancelEvents' = {}
    /\ request' = [j \in Job |-> IF request[j] = "idle" THEN "idle" ELSE "done"]
    /\ canceller' = [j \in Job |-> IF canceller[j] = "done" THEN "done" ELSE "idle"]
    /\ worker' = [w \in Worker |-> Idle]
    /\ UNCHANGED <<diskVars, requestFile, readyFile, controller, asked, historyVars>>

\* Mutant: every form that has not begun is taken for a waiting one.
FormsNotBegun == {j \in Job : pending[j] \in {"queued", "cancelled"}}

\* What load_pending yields ...
QueuedForms == {j \in Job : pending[j] = "queued"}
\* ... oldest write first.
OldestFirst(s) == \A i, k \in DOMAIN s : i < k => Earlier(s[i], s[k])

\* Mutant: the gate stays open until the watch's first poll.
BootOpen ==
    /\ up = "down"
    /\ up' = "restoring"
    /\ GateRestart(NoOperation)
    /\ \E s \in SetToSeqs(QueuedForms) : OldestFirst(s) /\ toRestore' = s
    /\ UNCHANGED <<diskVars, controlVars, restarts, queueVars, entryVars,
                   historyVars, cancelEvents, request, canceller, worker>>

\* Mutant: a new backend does not look at the waiting forms.
BootForgetting ==
    /\ up = "down"
    /\ up' = "restoring"
    /\ GateRestart(requestFile)
    /\ toRestore' = <<>>
    /\ UNCHANGED <<diskVars, controlVars, restarts, queueVars, entryVars,
                   historyVars, cancelEvents, request, canceller, worker>>

\* Mutant: the forms come back in any order, here the newest first.
BootNewestFirst ==
    /\ up = "down"
    /\ up' = "restoring"
    /\ GateRestart(requestFile)
    /\ \E s \in SetToSeqs(QueuedForms) : OldestFirst(Reverse(s)) /\ toRestore' = s
    /\ UNCHANGED <<diskVars, controlVars, restarts, queueVars, entryVars,
                   historyVars, cancelEvents, request, canceller, worker>>

\* _startup: the gate is closed before anything else when a request stands.
Boot ==
    /\ up = "down"
    /\ up' = "restoring"
    /\ GateRestart(requestFile)
    /\ \E s \in SetToSeqs(QueuedForms) : OldestFirst(s) /\ toRestore' = s
    /\ UNCHANGED <<diskVars, controlVars, restarts, queueVars, entryVars,
                   historyVars, cancelEvents, request, canceller, worker>>

\* One form of _restore_pending_process_jobs: a slot (without a lease), the
\* entry, the queue.  The first exception ends the loop for all the others.
RestoreJob ==
    /\ up = "restoring" /\ QueueLockFree
    /\ toRestore # <<>>
    /\ LET j == Head(toRestore) IN
       IF j \notin BadForms /\ HasCapacity(j)
       THEN /\ toRestore' = Tail(toRestore)
            /\ reservations' = reservations \union {j}
            /\ status' = [status EXCEPT ![j] = "queued"]
            /\ forms' = forms \union {j}
            /\ waiting' = Append(waiting, j)
       ELSE /\ toRestore' = <<>>
            /\ UNCHANGED <<queueVars, status, forms>>
    /\ UNCHANGED <<gateVars, diskVars, controlVars, up, restarts, completed,
                   historyVars, cancelEvents, request, canceller, worker>>

\* Startup is over: the server accepts requests.
Serve ==
    /\ up = "restoring"
    /\ toRestore = <<>>
    /\ up' = "serving"
    /\ UNCHANGED <<gateVars, diskVars, controlVars, toRestore, restarts, queueVars,
                   entryVars, historyVars, cancelEvents, request, canceller, worker>>

(* ------------------------------ behaviours ----------------------------- *)

ClientStep(j) ==
    \/ Reserve(j) \/ StageForm(j) \/ StageFails(j) \/ Publish(j)
    \/ Submit(j) \/ SubmitFails(j) \/ Respond(j)

WorkerStepOf(w) ==
    WorkerAdmit(w) \/ Take(w) \/ Start(w) \/ Execute(w) \/ End(w) \/ Complete(w)
      \/ Leave(w)

CancelStepOf(j) ==
    CancelMark(j) \/ CancelInQueue(j) \/ CancelEntry(j) \/ CancelClean(j)
      \/ CancelAnswer(j)

WatchStep == (\E o \in Operation : WatchBegin(o)) \/ WatchReady \/ WatchEnd

Startup == Boot \/ RestoreJob \/ Serve

Next ==
    \/ \E j \in Job : Admit(j) \/ ClientStep(j)
    \/ \E j \in Job : CancelAdmit(j) \/ CancelStepOf(j) \/ ForcedCancel(j)
    \/ \E w \in Worker : WorkerStepOf(w)
    \/ \E o \in Operation : RequestDrain(o)
    \/ WatchStep
    \/ ForceDrain
    \/ ControllerWorks
    \/ ClearMaintenance
    \/ Stop
    \/ Startup

Spec == Init /\ [][Next]_vars

\* Fairness: threads of the backend run, the watch polls every 0.2 s, the
\* launcher starts a stopped backend, the body of a job ends, and the
\* controller ends every operation (its drain is limited to 900 s).  Nobody
\* need submit, cancel, force, crash or ask for maintenance.
Fairness ==
    /\ \A j \in Job :
         WF_vars(ClientStep(j)) /\ WF_vars(CancelStepOf(j)) /\ WF_vars(ForcedCancel(j))
    /\ \A w \in Worker : WF_vars(WorkerStepOf(w))
    /\ WF_vars(WatchStep)
    /\ WF_vars(ControllerWorks)
    /\ WF_vars(ClearMaintenance)
    /\ WF_vars(Startup)

FairSpec == Spec /\ Fairness

(* ------------------------------ properties ----------------------------- *)

\* While the controller works alone nothing writes: no client stages, no
\* worker runs, no DELETE is being handled - in the backend it drained, and in
\* every backend started before it is done (tests/test_process_pending.py,
\* test_restored_queue_waits_for_maintenance_before_running).
NothingWritesDuringMaintenance ==
    controller = "working" =>
        /\ \A w \in Worker : worker[w] = Idle
        /\ \A j \in Job : /\ request[j] \in {"idle", "accepted", "awaiting", "done"}
                          /\ canceller[j] \in {"idle", "done"}

\* The leases are exactly the work in progress: none is left behind by an
\* error path, which would hang every later drain, and a waiting job has none
\* (ProcessQueueService.submit: it "must not hold the drain open").
LeasesAreWorkInProgress ==
    leases =
        {Stage(j) : j \in {k \in Job :
            request[k] \in {"admitted", "reserved", "staged", "published"}}}
        \union {Run(j) : j \in {k \in Job : AtWork(k) \/
            (~ QueueLockFree /\ k = Head(waiting))}}
        \union {Cancel(j) : j \in {k \in Job : canceller[k] \notin {"idle", "done"}}}

\* The slots are exactly the jobs being submitted, waiting or running: every
\* path, cancellation and failure included, gives its slot back once.
SlotsAreJobsInFlight ==
    reservations = {j \in Job :
        request[j] \in {"reserved", "staged", "published"} \/ InQueue(j) \/ AtWork(j)}

\* A forced drain reaches every running job, taken before or after it.
ForceReachesRunningJobs ==
    forceRequested =>
        \A w \in Worker : worker[w].job # NoJob =>
            Run(worker[w].job) \in called \union dueCalls

\* "Never replay it automatically" (load_pending): whatever crashes, restarts
\* and cancellations do, the body of a job is begun at most once.
RunAtMostOnce == \A j \in Job : execs[j] <= 1

\* What waits in memory would survive a crash right now: its form is queued on
\* disk, unless its cancellation is under way.
WaitingJobsAreDurable ==
    \A j \in Job : InQueue(j) => pending[j] = "queued" \/ canceller[j] = "marked"

\* ... and conversely what is queued on disk, and can be read, is in the queue
\* of the serving process: "Formularze i zdjecia oczekujacych zadan sa zachowywane na dysku i
\* wznawiane po restarcie" (docs/installed-windows.md).
QueuedFormsAreInQueue ==
    up = "serving" => \A j \in Job \ BadForms :
        pending[j] = "queued" =>
            InQueue(j) \/ AtWork(j) \/ canceller[j] \in {"removed", "finished"}

\* Jobs keep their place: the queue is in the order of submission, restarts
\* included.
SubmissionOrderSurvives == OldestFirst(waiting)

\* Once a DELETE was answered "cancelled", and left the form gone or marked,
\* nothing brings the job back: not the worker that had taken it before, nor a
\* late mark, nor a restart, also where the directory could not be removed:
\* "cancelled forms are not replayed if cleanup was blocked"
\* (tests/test_process_pending.py).
CancelledStaysOut ==
    [][\A j \in withdrawn : pending[j] \in {"none", "cancelled"} =>
           pending'[j] \in {"none", "cancelled"} /\ execs'[j] = execs[j]]_vars

\* A job whose cancellation was confirmed as "cancelled" never runs, in this
\* process or after a restart.  (Not so when submit() marked the form again and
\* its directory could not be removed.)
CancelledNeverRuns == \A j \in withdrawn : execs[j] = 0

\* Whoever waits for the completion event reads an outcome afterwards: the
\* synchronous endpoint and tests/test_web_app_files.py both do.
CompletionMeansTerminal == \A j \in completed : status[j] \in Terminal

\* _startup has closed the gate for a request that was withdrawn before the
\* first poll of the watch: nobody is left to open it.
Stranded ==
    up # "down" /\ ~ GateOpen /\ watchId = NoOperation /\ requestFile # operation

\* A queued form does not stay queued for ever, through restarts and
\* maintenance: the job is begun or cancelled, unless the gate is stranded.
QueuedJobsRun ==
    \A j \in Job : pending[j] = "queued" ~> pending[j] # "queued" \/ Stranded

\* A synchronous request is answered (or its server dies), even when the gate
\* drains while it waits: it is not counted as a writer.
SynchronousRequestsEnd ==
    \A j \in Job : request[j] = "awaiting" ~> request[j] = "done" \/ Stranded

\* A request that the watch has taken up and the controller withdraws, however
\* soon and whatever it asks next, does not leave the gate closed: the work in
\* progress returns its leases, and the watch comes back to it.
SeenRequestsEnd ==
    (requestFile = NoOperation /\ watchId # NoOperation)
        ~> (GateOpen \/ requestFile # NoOperation)

\* Once the controller withdraws its request the gate reopens: "kolejka rusza
\* po odblokowaniu aplikacji" (docs/installed-windows.md).  The code does not
\* keep this promise: see Stranded.
GateReopens == requestFile = NoOperation ~> GateOpen \/ requestFile # NoOperation
=============================================================================
