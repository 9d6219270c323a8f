------------------------------- MODULE OcrRuns -------------------------------
(***************************************************************************)
(* OCR runs of the installed WEB program: OcrExecutionService with its     *)
(* registry (services/), the lazily started OCR process behind it          *)
(* (installation/ocr_runtime.py: LazyInstalledOcrWorker over               *)
(* StagedInstalledOcrWorker over InstalledOcrWorker), the background queue *)
(* that feeds it, and the maintenance gate that counts each run.           *)
(*                                                                         *)
(* Four kinds of threads meet here without a common lock: the one that     *)
(* submits a run (up to Pend), the dispatch thread of the run (from Check  *)
(* to Recheck), those that cancel, and the one at a time, under            *)
(* _pump_lock, that pumps.  thread[r] is where the first two are.          *)
(*                                                                         *)
(* The process answers its jobs in any order, events is the union of the   *)
(* three queues between it and the pump, and a lagging pipe is left out.   *)
(***************************************************************************)
EXTENDS MaintenanceGate, Naturals, FiniteSets

CONSTANTS
    Queue,       \* the token of the lease the queue thread itself holds
    NoRun,
    Tester,      \* the runs the live tester starts, and may cancel; the others
                 \* belong to the queue, which tells nobody their identifier
    MaxFaults    \* bound: deaths, hangs and failed starts of the OCR process,
                 \* and answers of it that name no run

Run == Token \ {Queue}

ASSUME OcrAssumption ==
    Queue \in Token /\ NoRun \notin Token /\ Tester \subseteq Run /\ MaxFaults \in Nat

VARIABLES
    state,            \* registry: state of every run ("none": not created)
    cancelRequested,  \* registry: runs whose cancellation was requested
    cancelling,       \* calls of cancel that have not reached the worker yet
    inflight,         \* _inflight_run_ids
    held,             \* the keys of _maintenance_leases
    pending,          \* _pending_dispatch
    thread,           \* where the submission of each run is
    lazyCancelled,    \* Lazy._cancelled
    starter,          \* holder of Lazy._start_lock
    abort,            \* Lazy._abort_start
    worker,           \* Lazy._worker: "none", "alive", or "dead" (process gone)
    runs,             \* Lazy._runs
    staged,           \* Staged._runs
    jobs,             \* what the OCR process has been sent and not answered
    hung,             \* the OCR process lives and does nothing
    events,           \* <<run, "completed" or "error">> on the way to the pump
    pump,             \* "idle", "status", or what status() answered
    queueRun,         \* the run the queue thread waits for
    faults

registryVars == <<state, cancelRequested, cancelling>>
serviceVars == <<inflight, held, pending>>
lazyVars == <<lazyCancelled, starter, abort, worker, runs>>
childVars == <<staged, jobs, hung, events>>
vars == <<gateVars, registryVars, serviceVars, thread, lazyVars, childVars,
          pump, queueRun, faults>>

Ended == {"paused", "completed", "error", "cancelled"}

Init ==
    /\ GateInit
    /\ state = [r \in Run |-> "none"]
    /\ thread = [r \in Run |-> "none"]
    /\ worker = "none" /\ starter = NoRun /\ abort = FALSE /\ hung = FALSE
    /\ cancelRequested = {} /\ cancelling = {}
    /\ inflight = {} /\ held = {} /\ pending = {}
    /\ lazyCancelled = {} /\ runs = {} /\ staged = {} /\ jobs = {} /\ events = {}
    /\ pump = "idle" /\ queueRun = NoRun /\ faults = 0

Reach(r, place) == thread' = [thread EXCEPT ![r] = place]

\* _finish_maintenance_lease for each of the runs: only what held knows.
FinishLeases(done) ==
    /\ held' = held \ done
    /\ leases' = leases \ (done \intersect held)
    /\ callbacks' = callbacks \ (done \intersect held)
    /\ UNCHANGED <<operation, forceRequested, dueCalls, called>>

\* Mutant: a run that could not be dispatched keeps its lease.
ForgetLeases(done) ==
    /\ held' = held \ done
    /\ UNCHANGED gateVars

--------------------------------------------------------------------------
\* Submission.

\* _submit is called, by the live tester's request or by the queue thread,
\* which has claimed a crop job for the run.  create_run has no step of its
\* own: nobody knows the identifier yet.
Called(r) ==
    /\ thread[r] = "none"
    /\ r \in Tester \/ r = queueRun

\* The resource policy defers the run (without a profile the same way: error).
EndAtOnce(r) ==
    /\ Called(r)
    /\ state' = [state EXCEPT ![r] = "paused"]
    /\ Reach(r, "over")
    /\ UNCHANGED <<gateVars, cancelRequested, cancelling, serviceVars, lazyVars,
                   childVars, pump, queueRun, faults>>

\* The gate is closed: RuntimeError, and the registry keeps the run "running".
Refuse(r) ==
    /\ Called(r)
    /\ ~ GateOpen
    /\ state' = [state EXCEPT ![r] = "running"]
    /\ Reach(r, "refused")
    /\ UNCHANGED <<gateVars, cancelRequested, cancelling, serviceVars, lazyVars,
                   childVars, pump, queueRun, faults>>

Admit(r) ==
    /\ Called(r)
    /\ TryAdmit(r, FALSE)
    /\ state' = [state EXCEPT ![r] = "running"]
    /\ inflight' = inflight \union {r}
    /\ Reach(r, "admitted")
    /\ UNCHANGED <<cancelRequested, cancelling, held, pending, lazyVars, childVars,
                   pump, queueRun, faults>>

\* The lease is noted, and its callback set: at once called in this thread if
\* force was requested.  Before that the pump cannot finish the lease; it can
\* already take the run out of inflight.
Hold(r) ==
    /\ thread[r] = "admitted"
    /\ held' = held \union {r}
    /\ SetCancelCallback(r)
    /\ Reach(r, IF forceRequested THEN "inline" ELSE "ready")
    /\ UNCHANGED <<registryVars, inflight, pending, lazyVars, childVars, pump,
                   queueRun, faults>>

\* The dispatch thread is started once the inline call has returned.
Pend(r) ==
    /\ \/ thread[r] = "ready"
       \/ thread[r] = "inline" /\ r \notin dueCalls \union cancelling
    /\ pending' = pending \union {r}
    /\ Reach(r, "dispatch")
    /\ UNCHANGED <<gateVars, registryVars, inflight, held, lazyVars, childVars,
                   pump, queueRun, faults>>

--------------------------------------------------------------------------
\* Dispatch.

\* Mutant: the except branch leaves the lease to the pump.
GiveUpWithLease(r) ==
    /\ state' = [state EXCEPT ![r] = IF r \in cancelRequested THEN "cancelled" ELSE "error"]
    /\ inflight' = inflight \ {r}
    /\ pending' = pending \ {r}
    /\ ForgetLeases({r})
    /\ Reach(r, "over")
    /\ UNCHANGED <<cancelRequested, cancelling, pump, queueRun>>

\* The end of a dispatch that starts nothing: both the early return and the
\* except branch, and the finally after them.
GiveUp(r) ==
    /\ state' = [state EXCEPT ![r] = IF r \in cancelRequested THEN "cancelled" ELSE "error"]
    /\ inflight' = inflight \ {r}
    /\ pending' = pending \ {r}
    /\ FinishLeases({r})
    /\ Reach(r, "over")
    /\ UNCHANGED <<cancelRequested, cancelling, pump, queueRun>>

\* is_cancel_requested before anything is submitted.
Check(r) ==
    /\ thread[r] = "dispatch"
    /\ IF r \in cancelRequested
         THEN GiveUp(r)
         ELSE /\ Reach(r, "waiting")
              /\ UNCHANGED <<gateVars, registryVars, serviceVars, pump, queueRun>>
    /\ UNCHANGED <<lazyVars, childVars, faults>>

\* Lazy.submit takes _start_lock; a worker whose process is gone is replaced,
\* and the runs it still owed an answer get an error event.
Enter(r) ==
    /\ thread[r] = "waiting"
    /\ starter = NoRun
    /\ r \notin lazyCancelled
    /\ starter' = r
    /\ IF worker = "alive"
         THEN Reach(r, "started") /\ UNCHANGED <<abort, worker, runs, childVars>>
         ELSE /\ Reach(r, "starting")
              /\ worker' = "none"
              /\ abort' = FALSE
              /\ events' = events \union {<<owed, "error">> :
                                owed \in {q \in runs : \A e \in events : e[1] # q}}
              /\ runs' = {} /\ staged' = {} /\ jobs' = {} /\ hung' = FALSE
    /\ UNCHANGED <<gateVars, registryVars, serviceVars, lazyCancelled, pump,
                   queueRun, faults>>

\* ... and raises for a run that was cancelled while it waited for the lock.
EnterCancelled(r) ==
    /\ thread[r] = "waiting"
    /\ starter = NoRun
    /\ r \in lazyCancelled
    /\ GiveUp(r)
    /\ UNCHANGED <<lazyVars, childVars, faults>>

\* _start_worker: the hello of the new process arrived and nobody aborted.
Started(r) ==
    /\ thread[r] = "starting"
    /\ ~ abort
    /\ worker' = "alive"
    /\ Reach(r, "started")
    /\ UNCHANGED <<gateVars, registryVars, serviceVars, lazyCancelled, starter, abort,
                   runs, childVars, pump, queueRun, faults>>

\* No executable, no hello within startup_timeout_seconds, or an abort.
StartFails(r) ==
    /\ thread[r] = "starting"
    /\ abort \/ faults < MaxFaults
    /\ faults' = IF abort THEN faults ELSE faults + 1
    /\ starter' = NoRun
    /\ GiveUp(r)
    /\ UNCHANGED <<lazyCancelled, abort, worker, runs, childVars>>

\* The last look at _cancelled; then the run is added to _runs ...
Register(r) ==
    /\ thread[r] = "started"
    /\ IF r \in lazyCancelled
         THEN GiveUp(r) /\ starter' = NoRun /\ UNCHANGED runs
         ELSE /\ runs' = runs \union {r}
              /\ Reach(r, "registered")
              /\ UNCHANGED <<gateVars, registryVars, serviceVars, starter, pump, queueRun>>
    /\ UNCHANGED <<lazyCancelled, abort, worker, childVars, faults>>

\* ... and Staged.submit stages the image and writes the job to the process,
\* which raises when another run's cancellation has just ended it.
Send(r) ==
    /\ thread[r] = "registered"
    /\ starter' = NoRun
    /\ IF worker = "alive"
         THEN /\ jobs' = jobs \union {r}
              /\ staged' = staged \union {r}
              /\ Reach(r, "sent")
              /\ UNCHANGED <<gateVars, registryVars, serviceVars, runs, pump, queueRun>>
         ELSE /\ runs' = runs \ {r}
              /\ GiveUp(r)
              /\ UNCHANGED <<jobs, staged>>
    /\ UNCHANGED <<lazyCancelled, abort, worker, hung, events, faults>>

\* The effect of Lazy.cancel: a run whose process is starting aborts the
\* start; one that was sent ends the whole process, the only cancellation the
\* protocol has.
WorkerCancel(r) ==
    /\ lazyCancelled' = lazyCancelled \union {r}
    /\ abort' = (abort \/ (starter = r /\ thread[r] = "starting"))
    /\ IF worker # "none" /\ r \in runs \intersect staged
         THEN /\ worker' = "dead"
              /\ staged' = staged \ {r}
              /\ events' = events \union {<<r, "error">>}
              /\ jobs' = {} /\ hung' = FALSE
         ELSE UNCHANGED <<worker, childVars>>
    /\ UNCHANGED <<starter, runs>>

\* Mutant: a cancellation that overtook the submission is forgotten.
RecheckNothing(r) ==
    /\ thread[r] = "sent"
    /\ pending' = pending \ {r}
    /\ Reach(r, "over")
    /\ UNCHANGED <<gateVars, registryVars, inflight, held, lazyVars, childVars,
                   pump, queueRun, faults>>

\* After worker.submit: cancel again what was cancelled meanwhile.
Recheck(r) ==
    /\ thread[r] = "sent"
    /\ IF r \in cancelRequested
         THEN WorkerCancel(r)
         ELSE UNCHANGED <<lazyVars, childVars>>
    /\ pending' = pending \ {r}
    /\ Reach(r, "over")
    /\ UNCHANGED <<gateVars, registryVars, inflight, held, pump, queueRun, faults>>

--------------------------------------------------------------------------
\* Cancellation: by the administrator, or by the gate's callback.

AskCancel(r) ==
    /\ cancelRequested' = cancelRequested \union {r}
    /\ cancelling' = cancelling \union {r}
    /\ UNCHANGED <<state, serviceVars, thread, lazyVars, childVars, pump, queueRun, faults>>

Cancel(r) ==
    /\ r \in Tester
    /\ thread[r] \notin {"none", "refused"}
    /\ r \notin cancelRequested
    /\ AskCancel(r)
    /\ UNCHANGED gateVars

\* One call after the other, but for the one a submission makes itself.
ForceCancel(r) ==
    /\ cancelling \intersect called = {} \/ thread[r] = "inline"
    /\ RunCallback(r)
    /\ AskCancel(r)

ReachWorker(r) ==
    /\ r \in cancelling
    /\ cancelling' = cancelling \ {r}
    /\ WorkerCancel(r)
    /\ UNCHANGED <<gateVars, state, cancelRequested, serviceVars, thread, pump,
                   queueRun, faults>>

--------------------------------------------------------------------------
\* The OCR process.

\* A result; an error that names its run takes the same way.  What the process cannot
\* read, or the reader of its output, is answered by an error that names none
\* (invalid_job, invalid_command, invalid_runtime_message): _pump passes it over.
Answer(r) ==
    /\ worker = "alive" /\ ~ hung
    /\ r \in jobs
    /\ jobs' = jobs \ {r}
    /\ \/ events' = events \union {<<r, "completed">>} /\ faults' = faults
       \/ faults < MaxFaults /\ faults' = faults + 1 /\ UNCHANGED events
    /\ UNCHANGED <<gateVars, registryVars, serviceVars, thread, lazyVars, staged,
                   hung, pump, queueRun>>

Die ==
    /\ worker = "alive"
    /\ faults < MaxFaults
    /\ faults' = faults + 1
    /\ worker' = "dead"
    /\ jobs' = {} /\ hung' = FALSE
    /\ UNCHANGED <<gateVars, registryVars, serviceVars, thread, lazyCancelled, starter,
                   abort, runs, staged, events, pump, queueRun>>

Hang ==
    /\ worker = "alive" /\ ~ hung
    /\ faults < MaxFaults
    /\ faults' = faults + 1
    /\ hung' = TRUE
    /\ UNCHANGED <<gateVars, registryVars, serviceVars, thread, lazyVars, staged,
                   jobs, events, pump, queueRun>>

--------------------------------------------------------------------------
\* pump, under _pump_lock.

\* poll_events, and each event applied: no look at what the run was before.
Poll ==
    /\ pump = "idle"
    /\ pump' = "status"
    /\ LET answered == {e[1] : e \in events} IN
         /\ \E end \in [answered -> {"completed", "error"}] :
              /\ \A r \in answered : <<r, end[r]>> \in events
              /\ state' = [r \in Run |-> IF r \in answered THEN end[r] ELSE state[r]]
         /\ runs' = runs \ answered
         /\ staged' = staged \ answered
         /\ inflight' = inflight \ answered
         /\ FinishLeases(answered)
    /\ events' = {}
    /\ UNCHANGED <<cancelRequested, cancelling, pending, thread, lazyCancelled, starter,
                   abort, worker, jobs, hung, queueRun, faults>>

\* status(): alive is None while a process starts, False without one.
Status ==
    /\ pump = "status"
    /\ pump' = IF worker # "alive" /\ (\A r \in Run : thread[r] # "starting")
                 THEN "stopped" ELSE "idle"
    /\ UNCHANGED <<gateVars, registryVars, serviceVars, thread, lazyVars, childVars,
                   queueRun, faults>>

\* Mutant: the runs of a process that died are left to themselves.
FinalizeNothing ==
    /\ pump = "stopped"
    /\ pump' = "idle"
    /\ UNCHANGED <<gateVars, registryVars, serviceVars, thread, lazyVars, childVars,
                   queueRun, faults>>

\* The loop of _finalize_runs_for_stopped_worker.
FinalizeStopped ==
    /\ pump = "stopped"
    /\ pump' = "idle"
    /\ LET lost == inflight \ pending IN
         /\ state' = [r \in Run |-> IF r \in lost THEN "error" ELSE state[r]]
         /\ inflight' = inflight \ lost
         /\ FinishLeases(lost)
    /\ UNCHANGED <<cancelRequested, cancelling, pending, thread, lazyVars, childVars,
                   queueRun, faults>>

--------------------------------------------------------------------------
\* The queue thread (_run_ocr_queue_once and OcrQueueScheduler.run_once).

\* Its own lease, without a callback, and the oldest pending job.
Claim(r) ==
    /\ r \notin Tester
    /\ thread[r] = "none"
    /\ queueRun = NoRun
    /\ TryAdmit(Queue, FALSE)
    /\ queueRun' = r
    /\ UNCHANGED <<registryVars, serviceVars, thread, lazyVars, childVars, pump, faults>>

\* The process lives and owes r nothing more, and the pump will hear nothing of r.
Unanswered(r) ==
    /\ worker = "alive" /\ r \in staged \ jobs
    /\ \A e \in events : e[1] # r

\* wait_for_terminal returned, raised after 30 minutes on a process that does
\* nothing (or nothing for this run), or the gate refused the run.  The row of the crop job, completed
\* or queued again, is left out.
Conclude ==
    /\ queueRun # NoRun
    /\ \/ thread[queueRun] = "refused"
       \/ /\ thread[queueRun] \in {"dispatch", "waiting", "starting", "started",
                                   "registered", "sent", "over"}
          /\ state[queueRun] \in Ended \/ hung \/ Unanswered(queueRun)
    /\ queueRun' = NoRun
    /\ Finish(Queue)
    /\ UNCHANGED <<registryVars, serviceVars, thread, lazyVars, childVars, pump, faults>>

--------------------------------------------------------------------------
\* The operation that owns the gate.

Begin(o) ==
    /\ GateOpen
    /\ BeginMaintenance(o)
    /\ UNCHANGED <<registryVars, serviceVars, thread, lazyVars, childVars, pump,
                   queueRun, faults>>

Force ==
    /\ RequestForceCancel
    /\ UNCHANGED <<registryVars, serviceVars, thread, lazyVars, childVars, pump,
                   queueRun, faults>>

Complete(o) ==
    /\ CompleteMaintenance(o)
    /\ UNCHANGED <<registryVars, serviceVars, thread, lazyVars, childVars, pump,
                   queueRun, faults>>

--------------------------------------------------------------------------
Submit(r) == EndAtOnce(r) \/ Refuse(r) \/ Admit(r)

Thread(r) ==
    \/ Hold(r) \/ Pend(r)
    \/ Check(r) \/ Enter(r) \/ EnterCancelled(r) \/ Started(r) \/ StartFails(r)
    \/ Register(r) \/ Send(r) \/ Recheck(r)

Pump == Poll \/ Status \/ FinalizeStopped

Next ==
    \/ \E r \in Run : \/ Claim(r) \/ Submit(r) \/ Thread(r)
                      \/ Cancel(r) \/ ForceCancel(r) \/ ReachWorker(r) \/ Answer(r)
    \/ Pump \/ Conclude \/ Die \/ Hang \/ Force
    \/ \E o \in Operation : Begin(o) \/ Complete(o)

\* Every thread runs on, the queue thread and the polls keep pumping, and a
\* process that does not hang answers.  Nobody need cancel, and none need fail.
Fairness ==
    /\ \A r \in Run \ Tester : WF_vars(Submit(r))
    /\ \A r \in Run : /\ WF_vars(Thread(r)) /\ WF_vars(Answer(r))
                      /\ WF_vars(ForceCancel(r)) /\ WF_vars(ReachWorker(r))
    /\ WF_vars(Pump)
    /\ WF_vars(Conclude)

Spec == Init /\ [][Next]_vars /\ Fairness

--------------------------------------------------------------------------
\* Every admitted run comes to an end in the registry (a poll of the tester,
\* the queue's wait_for_terminal, would otherwise wait for ever) whatever
\* process dies, start fails or cancellation comes, unless the process hangs or
\* has answered without a name.
RunsEnd ==
    \A r \in Run : (r \in inflight) ~> (state[r] \in Ended \/ hung \/ Unanswered(r))

\* Whenever a cancellation comes, before, during or after the submission, in
\* the end the OCR process does not work on that run and never will.
CancelEnds ==
    \A r \in Run : (r \in cancelRequested) ~>
        [](thread[r] \in {"over", "refused"} /\ r \notin jobs)

\* After a force request every OCR lease, the queue's own included, is given
\* back, also when the OCR process hangs or never answers its start.
ForceEnds == forceRequested ~> (leases = {})

\* What the drain is for: a run the OCR process works on is counted by the
\* gate.
WorkIsCounted == jobs \subseteq leases
=============================================================================
