-------------------------- MODULE ProcessJobsProofs --------------------------
(***************************************************************************)
(* Theorems about ProcessJobs, for any number of jobs, owners, workers,    *)
(* operations and restarts, and any limits of the queue.                   *)
(*                                                                         *)
(* One inductive invariant per question, each on top of the ones before:   *)
(* Typed (types, and the worker that has the queue condition), Phases      *)
(* (what a stopped or starting backend has), Placed (a job is in one       *)
(* place), Slots, Leased and Drained (the gate), Forced, Begun, Durable,   *)
(* Withdrawn and Out (a job's form and its canceller), Ordered, and        *)
(* Resumable, Marked and Claims (who takes care of a queued form, and its  *)
(* slot after a restart).  Every step of Next belongs to one of six groups *)
(* of actors, whose frames come first.                                     *)
(***************************************************************************)
EXTENDS ProcessJobs, FiniteSetTheorems, SequenceTheorems, TLAPS

USE JobAssumption, OperationAssumption

(* ------------------------ who changes which state ----------------------- *)

Clients == \E j \in Job : Admit(j) \/ ClientStep(j)
Cancellers == \E j \in Job : CancelAdmit(j) \/ CancelStepOf(j) \/ ForcedCancel(j)
Workers == \E w \in Worker : WorkerStepOf(w)
Control ==
    \/ \E o \in Operation : RequestDrain(o)
    \/ WatchStep \/ ForceDrain \/ ControllerWorks \/ ClearMaintenance

LEMMA Steps == Next <=> Clients \/ Cancellers \/ Workers \/ Control \/ Stop \/ Startup
BY DEF Next, Clients, Cancellers, Workers, Control

LEMMA ClientFrame ==
    Clients => UNCHANGED <<controlVars, processVars, historyVars, cancelEvents, canceller,
                           worker>>
BY DEF Clients, ClientStep, Admit, Reserve, StageForm, StageFails, Publish, Submit, SubmitFails,
   Respond

LEMMA CancelFrame ==
    Cancellers => UNCHANGED <<controlVars, processVars, execs, queuedOrder, request, worker>>
<1> USE DEF entryVars, historyVars, diskVars
<1> QED
  BY DEF Cancellers, CancelStepOf, CancelAdmit, CancelMark, CancelInQueue, CancelEntry,
     CancelClean, CancelAnswer, ForcedCancel

LEMMA WorkerFrame ==
    Workers => UNCHANGED <<queuedOrder, controlVars, processVars, withdrawn, cancelEvents, request,
                           canceller>>
BY DEF Workers, WorkerStepOf, WorkerAdmit, Take, Start, Execute, End, Complete, Leave, diskVars,
   historyVars

LEMMA ControlFrame ==
    Control => UNCHANGED <<diskVars, processVars, queueVars, entryVars, historyVars, cancelEvents,
                           request, canceller, worker>>
BY DEF Control, RequestDrain, WatchStep, WatchBegin, WatchReady, WatchEnd, ForceDrain,
   ControllerWorks, ClearMaintenance, controlVars

LEMMA StartupFrame ==
    Startup => UNCHANGED <<diskVars, controlVars, restarts, completed, historyVars, cancelEvents,
                           request, canceller, worker>>
BY DEF Startup, Boot, RestoreJob, Serve, processVars, queueVars, entryVars

(* --------------------------- type correctness -------------------------- *)

ControlTypes ==
    /\ requestFile \in Operation \union {NoOperation} /\ readyFile \in Operation \union {NoOperation}
    /\ watchId \in Operation \union {NoOperation}
    /\ controller \in {"idle", "waiting", "working"}
    /\ asked \subseteq Operation
    /\ restarts \in 0 .. MaxRestarts
    /\ up \in {"down", "restoring", "serving"}

EntryTypes ==
    /\ pending \in [Job -> PendingState]
    /\ execs \in [Job -> Nat]
    /\ withdrawn \subseteq Job
    /\ reservations \subseteq Job
    /\ status \in [Job -> Status]
    /\ forms \subseteq Job /\ cancelEvents \subseteq Job /\ completed \subseteq Job
    /\ request \in [Job -> RequestStep]
    /\ canceller \in [Job -> CancelStep]

QueueTypes ==
    /\ queuedOrder \in Seq(Job) /\ toRestore \in Seq(Job) /\ waiting \in Seq(Job)

WorkerTypes == worker \in [Worker -> [step : WorkerStep, job : Job \union {NoJob}]]

\* What the types rest on: a worker has a job unless it has only asked for one, and then
\* it alone keeps the queue, which is not empty.
Holding ==
    /\ \A w \in Worker : worker[w].job = NoJob <=> worker[w].step \in {"idle", "admitted"}
    /\ ~ QueueLockFree => waiting # <<>>
    /\ \A v, w \in Worker : worker[v].step = "admitted" /\ worker[w].step = "admitted" => v = w

Typed == GateTypeOK /\ ControlTypes /\ EntryTypes /\ QueueTypes /\ WorkerTypes /\ Holding

LEMMA ControlTypesKept ==
    ASSUME Typed, [Next]_vars
    PROVE  ControlTypes'
<1> USE DEF Typed, ControlTypes, controlVars, processVars
<1>1. CASE Clients \/ Cancellers \/ Workers
  BY <1>1, ClientFrame, CancelFrame, WorkerFrame
<1>2. CASE Control
  BY <1>2 DEF Control, RequestDrain, WatchStep, WatchBegin, WatchReady, WatchEnd, ForceDrain,
     ControllerWorks, ClearMaintenance
<1>3. CASE Stop \/ Startup
  BY <1>3 DEF Stop, Startup, Boot, RestoreJob, Serve
<1>4. CASE UNCHANGED vars
  BY <1>4 DEF vars
<1> QED
  BY <1>1, <1>2, <1>3, <1>4, Steps

LEMMA WorkerTypesKept ==
    ASSUME Typed, [Next]_vars
    PROVE  WorkerTypes'
<1> USE DEF Typed, WorkerTypes, WorkerStep, Holding, QueueTypes, QueueLockFree
<1>1. CASE Clients \/ Cancellers \/ Control \/ Startup \/ UNCHANGED vars
  BY <1>1, ClientFrame, CancelFrame, ControlFrame, StartupFrame DEF vars
<1>2. ASSUME NEW w \in Worker, WorkerAdmit(w) \/ Start(w) \/ Execute(w) \/ End(w) \/ Complete(w)
      PROVE  WorkerTypes'
  <2>1. \E s \in WorkerStep : worker' = [worker EXCEPT ![w].step = s]
    BY <1>2 DEF WorkerAdmit, Start, Execute, End, Complete, WorkerGoes
  <2> QED
    BY <2>1
<1>3. ASSUME NEW w \in Worker, Take(w)
      PROVE  WorkerTypes'
  <2>1. Head(waiting) \in Job
    BY <1>3 DEF Take
  <2> QED
    BY <1>3, <2>1 DEF Take
<1>4. ASSUME NEW w \in Worker, Leave(w)
      PROVE  WorkerTypes'
  BY <1>4 DEF Leave, Idle
<1>5. CASE Stop
  BY <1>5 DEF Stop, Idle
<1> QED
  BY <1>1, <1>2, <1>3, <1>4, <1>5, Steps DEF Workers, WorkerStepOf

\* What a step does to the gate: one of its critical sections, or nothing.
LEMMA GateSteps ==
    ASSUME Typed, [Next]_vars
    PROVE  \/ \E t \in Token : TryAdmit(t, FALSE) \/ SetCancelCallback(t) \/ Finish(t)
                                \/ RunCallback(t)
           \/ RequestForceCancel
           \/ \E o \in Operation \union {NoOperation} :
                BeginMaintenance(o) \/ CompleteMaintenance(o) \/ GateRestart(o)
           \/ UNCHANGED gateVars
<1>1. \A j \in Job : {Stage(j), Run(j), Cancel(j)} \subseteq Token
  BY DEF Stage, Run, Cancel
<1>2. CASE Clients
  BY <1>1, <1>2 DEF Clients, ClientStep, Admit, Reserve, StageForm, StageFails, Publish, Submit,
                    SubmitFails, Respond
<1>3. CASE Cancellers
  BY <1>1, <1>3 DEF Cancellers, CancelStepOf, CancelAdmit, CancelMark, CancelInQueue, CancelEntry,
                    CancelClean, CancelAnswer, ForcedCancel
<1>4. ASSUME NEW w \in Worker, WorkerStepOf(w)
      PROVE  \/ \E t \in Token : TryAdmit(t, FALSE) \/ SetCancelCallback(t) \/ Finish(t)
             \/ UNCHANGED gateVars
  <2>1. WorkerAdmit(w) \/ Take(w) => Run(Head(waiting)) \in Token
    <3>1. WorkerAdmit(w) \/ Take(w) => waiting # <<>>
      BY DEF WorkerAdmit, Take, Typed, Holding, QueueLockFree
    <3> QED
      BY <1>1, <3>1 DEF Typed, QueueTypes
  <2>2. Leave(w) => Run(worker[w].job) \in Token
    <3>1. Leave(w) => worker[w].job \in Job
      BY DEF Leave, Typed, Holding, WorkerTypes
    <3> QED
      BY <1>1, <3>1
  <2> QED
    BY <1>4, <2>1, <2>2 DEF WorkerStepOf, WorkerAdmit, Take, Start, Execute, End, Complete, Leave
<1>5. CASE Control
  BY <1>5 DEF Control, RequestDrain, WatchStep, WatchBegin, WatchReady, WatchEnd, ForceDrain,
              ControllerWorks, ClearMaintenance, Typed, ControlTypes
<1>6. CASE Stop \/ Startup
  BY <1>6 DEF Stop, Startup, Boot, RestoreJob, Serve, Typed, ControlTypes
<1>7. CASE UNCHANGED vars
  BY <1>7 DEF vars
<1> QED
  BY <1>2, <1>3, <1>4, <1>5, <1>6, <1>7, Steps DEF Workers

LEMMA GateTypesKept ==
    ASSUME Typed, [Next]_vars
    PROVE  GateTypeOK'
<1> USE DEF Typed, GateTypeOK
<1>1. ASSUME NEW t \in Token, TryAdmit(t, FALSE) \/ SetCancelCallback(t) \/ Finish(t) \/ RunCallback(t)
      PROVE  GateTypeOK'
  BY <1>1 DEF TryAdmit, SetCancelCallback, Finish, RunCallback
<1>2. CASE RequestForceCancel
  BY <1>2 DEF RequestForceCancel
<1>3. ASSUME NEW o \in Operation \union {NoOperation},
             BeginMaintenance(o) \/ CompleteMaintenance(o) \/ GateRestart(o)
      PROVE  GateTypeOK'
  BY <1>3 DEF BeginMaintenance, CompleteMaintenance, GateRestart
<1>4. CASE UNCHANGED gateVars
  BY <1>4 DEF gateVars
<1> QED
  BY <1>1, <1>2, <1>3, <1>4, GateSteps

LEMMA QueueTypesKept ==
    ASSUME Typed, [Next]_vars
    PROVE  QueueTypes'
<1> USE DEF Typed, QueueTypes, diskVars, processVars, queueVars
<1>1. CASE Control \/ UNCHANGED vars
  BY <1>1, ControlFrame DEF vars
<1>2. CASE Clients
  <2>1. PICK j \in Job : Admit(j) \/ ClientStep(j)
    BY <1>2 DEF Clients
  <2>2. /\ queuedOrder' \in {queuedOrder, Append(queuedOrder, j)}
        /\ waiting' \in {waiting, Append(waiting, j)} /\ toRestore' = toRestore
    BY <1>2, <2>1, ClientFrame DEF ClientStep, Admit, Reserve, StageForm, StageFails, Publish,
       Submit, SubmitFails, Respond
  <2>3. Append(queuedOrder, j) \in Seq(Job) /\ Append(waiting, j) \in Seq(Job)
    OBVIOUS
  <2> QED
    BY <2>2, <2>3
<1>3. ASSUME NEW j \in Job, CancelInQueue(j)
      PROVE  QueueTypes'
  <2>1. ASSUME NEW i \in DOMAIN waiting
        PROVE  RemoveAt(waiting, i) \in Seq(Job)
    BY DEF RemoveAt
  <2>2. UNCHANGED <<queuedOrder, toRestore>>
    BY <1>3 DEF CancelInQueue
  <2> QED
    BY <1>3, <2>1, <2>2 DEF CancelInQueue
<1>4. ASSUME Cancellers, \A j \in Job : ~ CancelInQueue(j)
      PROVE  QueueTypes'
  BY <1>4, CancelFrame DEF Cancellers, CancelStepOf, CancelAdmit, CancelMark, CancelEntry,
     CancelClean, CancelAnswer, ForcedCancel
<1>5. ASSUME NEW w \in Worker, WorkerStepOf(w)
      PROVE  QueueTypes'
  <2>1. CASE Take(w)
    <3>1. waiting # <<>>
      BY <2>1 DEF Take, Holding, QueueLockFree
    <3> QED
      BY <2>1, <3>1 DEF Take
  <2>2. CASE ~ Take(w)
    BY <1>5, <2>2 DEF WorkerStepOf, WorkerAdmit, Start, Execute, End, Complete, Leave
  <2> QED
    BY <2>1, <2>2
<1>6. CASE Stop \/ Serve
  <2>1. /\ queuedOrder' = queuedOrder /\ waiting' \in {waiting, <<>>}
        /\ toRestore' \in {toRestore, <<>>}
    BY <1>6 DEF Stop, Serve
  <2>2. <<>> \in Seq(Job)
    OBVIOUS
  <2> QED
    BY <2>1, <2>2
<1>7. CASE RestoreJob
  <2>1. Head(toRestore) \in Job /\ Tail(toRestore) \in Seq(Job)
    BY <1>7 DEF RestoreJob
  <2>2. /\ queuedOrder' = queuedOrder
        /\ waiting' \in {waiting, Append(waiting, Head(toRestore))}
        /\ toRestore' \in {Tail(toRestore), <<>>}
    BY <1>7 DEF RestoreJob
  <2>3. Append(waiting, Head(toRestore)) \in Seq(Job) /\ <<>> \in Seq(Job)
    BY <2>1
  <2> QED
    BY <2>1, <2>2, <2>3
<1>8. CASE Boot
  <2>1. \A s \in SetToSeqs(QueuedForms) : s \in Seq(Job)
    <3>1. Cardinality(QueuedForms) \in Nat
      BY FS_Subset, FS_CardinalityType DEF QueuedForms
    <3>2. ASSUME NEW s \in SetToSeqs(QueuedForms)
          PROVE  s \in [1 .. Cardinality(QueuedForms) -> Job]
      BY <3>2 DEF SetToSeqs, QueuedForms
    <3>3. \A n \in Nat : \A s \in [1 .. n -> Job] : s \in Seq(Job)
      OBVIOUS
    <3> QED
      BY <3>1, <3>2, <3>3
  <2> QED
    BY <1>8, <2>1 DEF Boot
<1> QED
  BY <1>1, <1>2, <1>3, <1>4, <1>5, <1>6, <1>7, <1>8, Steps DEF Workers, Cancellers, CancelStepOf,
     Startup

LEMMA EntryTypesKept ==
    ASSUME Typed, [Next]_vars
    PROVE  EntryTypes'
<1> USE DEF Typed, EntryTypes, diskVars, processVars, queueVars, entryVars, historyVars
<1>1. CASE Control \/ UNCHANGED vars
  BY <1>1, ControlFrame DEF vars
<1>2. ASSUME NEW j \in Job, Admit(j) \/ ClientStep(j)
      PROVE  EntryTypes'
  <2>1. \E to \in RequestStep : request' = [request EXCEPT ![j] = to]
    BY <1>2 DEF ClientStep, Admit, Reserve, StageForm, StageFails, Publish, Submit, SubmitFails,
       Respond, RequestGoes, RequestStep
  <2>2. \E to \in PendingState : pending' \in {pending, [pending EXCEPT ![j] = to]}
    BY <1>2 DEF ClientStep, Admit, Reserve, StageForm, StageFails, Publish, Submit, SubmitFails,
       Respond, MarkState, CleanDirectory, PendingState
  <2>3. \E to \in Status : status' \in {status, [status EXCEPT ![j] = to]}
    BY <1>2 DEF ClientStep, Admit, Reserve, StageForm, StageFails, Publish, Submit, SubmitFails,
       Respond, Status
  <2>4. /\ reservations' \subseteq Job /\ forms' \subseteq Job /\ completed' \subseteq Job
        /\ UNCHANGED <<execs, withdrawn, cancelEvents, canceller>>
    BY <1>2 DEF ClientStep, Admit, Reserve, StageForm, StageFails, Publish, Submit, SubmitFails,
       Respond
  <2> QED
    BY <2>1, <2>2, <2>3, <2>4
<1>3. ASSUME NEW j \in Job, CancelAdmit(j) \/ CancelStepOf(j) \/ ForcedCancel(j)
      PROVE  EntryTypes'
  <2>1. \E to \in CancelStep : canceller' \in {canceller, [canceller EXCEPT ![j] = to]}
    BY <1>3 DEF CancelStepOf, CancelAdmit, CancelMark, CancelInQueue, CancelEntry, CancelClean,
       CancelAnswer, ForcedCancel, CancelGoes, CancelStep
  <2>2. \E to \in PendingState : pending' \in {pending, [pending EXCEPT ![j] = to]}
    BY <1>3 DEF CancelStepOf, CancelAdmit, CancelMark, CancelInQueue, CancelEntry, CancelClean,
       CancelAnswer, ForcedCancel, MarkState, CleanDirectory, PendingState
  <2>3. status' \in {status, [status EXCEPT ![j] = "cancelled"]}
    BY <1>3 DEF CancelStepOf, CancelAdmit, CancelMark, CancelInQueue, CancelEntry, CancelClean,
       CancelAnswer, ForcedCancel
  <2>4. /\ reservations' \subseteq Job /\ forms' \subseteq Job /\ completed' \subseteq Job
        /\ withdrawn' \subseteq Job /\ cancelEvents' \subseteq Job
        /\ UNCHANGED <<execs, request>>
    BY <1>3 DEF CancelStepOf, CancelAdmit, CancelMark, CancelInQueue, CancelEntry, CancelClean,
       CancelAnswer, ForcedCancel
  <2> QED
    BY <2>1, <2>2, <2>3, <2>4 DEF Status
<1>4. ASSUME NEW w \in Worker, WorkerStepOf(w)
      PROVE  EntryTypes'
  <2> DEFINE j == worker[w].job
  <2>1. \E to \in PendingState : pending' \in {pending, [pending EXCEPT ![j] = to]}
    BY <1>4 DEF WorkerStepOf, WorkerAdmit, Take, Start, Execute, End, Complete, Leave,
       MarkState, CleanDirectory, PendingState
  <2>2. \E to \in Status : status' \in {status, [status EXCEPT ![j] = to]}
    BY <1>4 DEF WorkerStepOf, WorkerAdmit, Take, Start, Execute, End, Complete, Leave, Outcome,
       Status
  <2>3. Complete(w) => j \in Job
    BY DEF Complete, WorkerGoes, WorkerTypes, Holding
  <2>4. /\ reservations' \subseteq Job /\ forms' \subseteq Job /\ completed' \subseteq Job
        /\ execs' \in {execs, [execs EXCEPT ![j] = @ + 1]}
    BY <1>4, <2>3 DEF WorkerStepOf, WorkerAdmit, Take, Start, Execute, End, Complete, Leave
  <2>5. UNCHANGED <<withdrawn, cancelEvents, request, canceller>>
    BY <1>4, WorkerFrame DEF Workers
  <2> QED
    BY <2>1, <2>2, <2>4, <2>5
<1>5. CASE Stop
  BY <1>5 DEF Stop, PendingState, Status, RequestStep, CancelStep
<1>6. CASE Startup
  <2>1. /\ reservations' \subseteq Job /\ forms' \subseteq Job
        /\ status' = status \/ \E j \in Job : status' = [status EXCEPT ![j] = "queued"]
    <3>1. Boot \/ Serve => UNCHANGED <<reservations, forms, status>>
      BY DEF Boot, Serve
    <3>2. RestoreJob => Head(toRestore) \in Job
      BY DEF RestoreJob, QueueTypes
    <3> QED
      BY <1>6, <3>1, <3>2 DEF Startup, RestoreJob
  <2> QED
    BY <1>6, <2>1, StartupFrame DEF Status
<1> QED
  BY <1>1, <1>2, <1>3, <1>4, <1>5, <1>6, Steps DEF Workers, Clients, Cancellers

\* The queue only changes while its condition is free, or by the worker that has it.
LEMMA QueueSteps ==
    ASSUME Typed, [Next]_vars
    PROVE  \/ waiting' = waiting
           \/ \E j \in Job : QueueLockFree /\ waiting' = Append(waiting, j) /\ worker' = worker
           \/ \E i \in DOMAIN waiting :
                QueueLockFree /\ waiting' = RemoveAt(waiting, i) /\ worker' = worker
           \/ \E w \in Worker : Take(w)
           \/ Stop
<1> USE DEF queueVars
<1>1. CASE Clients
  BY <1>1, ClientFrame DEF Clients, ClientStep, Admit, Reserve, StageForm, StageFails, Publish,
     Submit, SubmitFails, Respond
<1>2. CASE Cancellers
  BY <1>2, CancelFrame DEF Cancellers, CancelStepOf, CancelAdmit, CancelMark, CancelInQueue,
     CancelEntry, CancelClean, CancelAnswer, ForcedCancel
<1>3. CASE Workers
  BY <1>3 DEF Workers, WorkerStepOf, WorkerAdmit, Start, Execute, End, Complete, Leave
<1>4. CASE Control \/ UNCHANGED vars
  BY <1>4, ControlFrame DEF vars
<1>5. CASE RestoreJob
  <2>1. Head(toRestore) \in Job
    BY <1>5 DEF RestoreJob, Typed, QueueTypes
  <2> QED
    BY <1>5, <2>1, StartupFrame DEF RestoreJob, Startup
<1>6. CASE Boot \/ Serve
  BY <1>6 DEF Boot, Serve
<1> QED
  BY <1>1, <1>2, <1>3, <1>4, <1>5, <1>6, Steps DEF Startup

LEMMA HoldingKept ==
    ASSUME Typed, [Next]_vars
    PROVE  Holding'
<1> USE DEF Typed, Holding, QueueLockFree, WorkerTypes
<1>1. CASE worker' = worker
  <2>1. CASE QueueLockFree
    BY <1>1, <2>1
  <2>2. CASE ~ QueueLockFree
    <3>1. ~ Stop \/ QueueLockFree'
      BY DEF Stop, Idle
    <3>2. ASSUME NEW w \in Worker, Take(w)
          PROVE  FALSE
      BY <1>1, <3>2 DEF Take
    <3>3. waiting' = waiting \/ QueueLockFree'
      BY <2>2, <3>1, <3>2, QueueSteps
    <3> QED
      BY <1>1, <3>3
  <2> QED
    BY <2>1, <2>2
<1>2. ASSUME NEW w \in Worker, WorkerAdmit(w)
      PROVE  Holding'
  BY <1>2 DEF WorkerAdmit, WorkerGoes, queueVars
<1>3. ASSUME NEW w \in Worker, Start(w) \/ Execute(w) \/ End(w) \/ Complete(w)
      PROVE  Holding'
  <2>1. /\ waiting' = waiting /\ worker[w].step \notin {"idle", "admitted"}
        /\ \E s \in {"started", "broken", "executing", "ended", "leaving"} :
             worker' = [worker EXCEPT ![w].step = s]
    BY <1>3 DEF Start, Execute, End, Complete, WorkerGoes, queueVars, Outcome
  <2> QED
    BY <2>1
<1>4. ASSUME NEW w \in Worker, Take(w)
      PROVE  Holding'
  <2>1. Head(waiting) \in Job
    BY <1>4 DEF Take, QueueTypes
  <2> QED
    BY <1>4, <2>1 DEF Take
<1>5. ASSUME NEW w \in Worker, Leave(w)
      PROVE  Holding'
  BY <1>5 DEF Leave, Idle
<1>6. CASE Stop
  BY <1>6 DEF Stop, Idle
<1> QED
  BY <1>1, <1>2, <1>3, <1>4, <1>5, <1>6, Steps, ClientFrame, CancelFrame, ControlFrame,
     StartupFrame
     DEF Workers, WorkerStepOf, vars

LEMMA TypedInvariant == Spec => []Typed
<1>1. Init => Typed
  <2> SUFFICES ASSUME Init
               PROVE  Typed
    OBVIOUS
  <2>1. GateTypeOK
    BY DEF Init, GateInit, GateTypeOK
  <2>2. ControlTypes /\ QueueTypes
    BY DEF Init, ControlTypes, QueueTypes
  <2>3. EntryTypes
    BY DEF Init, EntryTypes, PendingState, Status, RequestStep, CancelStep
  <2>4. WorkerTypes /\ Holding
    BY DEF Init, Idle, WorkerTypes, WorkerStep, Holding, QueueLockFree
  <2> QED
    BY <2>1, <2>2, <2>3, <2>4 DEF Typed
<1>2. Typed /\ [Next]_vars => Typed'
  <2> SUFFICES ASSUME Typed, [Next]_vars
               PROVE  Typed'
    OBVIOUS
  <2> QED
    BY GateTypesKept, ControlTypesKept, EntryTypesKept, QueueTypesKept, WorkerTypesKept,
       HoldingKept
       DEF Typed
<1> QED
  BY <1>1, <1>2, PTL DEF Spec

\* Every operation of clients, workers, controller and restarts leaves the state in its
\* type.
THEOREM TypeCorrect == Spec => []TypeOK
<1>1. Typed => TypeOK
  BY DEF Typed, ControlTypes, EntryTypes, QueueTypes, WorkerTypes, TypeOK
<1> QED
  BY <1>1, TypedInvariant, PTL

(* ------------------------- where a job may be -------------------------- *)

Once(s) == \A i, k \in DOMAIN s : s[i] = s[k] => i = k
Within(s, j) == \E i \in DOMAIN s : s[i] = j

LEMMA OnceAppend ==
    ASSUME NEW S, NEW s \in Seq(S), NEW j \in S
    PROVE  /\ \A k : Within(Append(s, j), k) <=> Within(s, k) \/ k = j
           /\ Once(s) /\ ~ Within(s, j) => Once(Append(s, j))
<1>1. /\ Len(s) \in Nat /\ DOMAIN s = 1 .. Len(s) /\ DOMAIN Append(s, j) = 1 .. (Len(s) + 1)
      /\ \A i \in 1 .. Len(s) : Append(s, j)[i] = s[i]
      /\ Append(s, j)[Len(s) + 1] = j
  BY AppendProperties
<1>2. \A i \in 1 .. (Len(s) + 1) : i \in 1 .. Len(s) \/ i = Len(s) + 1
  BY <1>1
<1>3. 1 .. Len(s) \subseteq 1 .. (Len(s) + 1) /\ Len(s) + 1 \in 1 .. (Len(s) + 1)
  BY <1>1
<1> QED
  BY <1>1, <1>2, <1>3 DEF Within, Once

LEMMA OnceTail ==
    ASSUME NEW S, NEW s \in Seq(S), s # <<>>, Once(s)
    PROVE  /\ Within(s, Head(s)) /\ Once(Tail(s))
           /\ \A k : Within(Tail(s), k) <=> Within(s, k) /\ k # Head(s)
<1>1. /\ Len(s) \in Nat \ {0} /\ DOMAIN s = 1 .. Len(s) /\ Head(s) = s[1]
      /\ DOMAIN Tail(s) = 1 .. (Len(s) - 1)
      /\ \A i \in 1 .. (Len(s) - 1) : Tail(s)[i] = s[i + 1]
  OBVIOUS
<1>2. Within(s, Head(s)) /\ Once(Tail(s))
  BY <1>1 DEF Within, Once
<1>3. ASSUME NEW k, Within(Tail(s), k)
      PROVE  Within(s, k) /\ k # Head(s)
  BY <1>1, <1>3 DEF Within, Once
<1>4. ASSUME NEW k, Within(s, k), k # Head(s)
      PROVE  Within(Tail(s), k)
  <2>1. PICK i \in 1 .. Len(s) : s[i] = k
    BY <1>1, <1>4 DEF Within
  <2>2. i - 1 \in 1 .. (Len(s) - 1) /\ Tail(s)[i - 1] = k
    BY <1>1, <1>4, <2>1
  <2> QED
    BY <1>1, <2>2 DEF Within
<1> QED
  BY <1>2, <1>3, <1>4

LEMMA RemoveAtElements ==
    ASSUME NEW S, NEW s \in Seq(S), NEW i \in DOMAIN s
    PROVE  /\ Len(s) \in Nat /\ DOMAIN s = 1 .. Len(s) /\ i \in 1 .. Len(s)
           /\ DOMAIN RemoveAt(s, i) = 1 .. (Len(s) - 1)
           /\ \A k \in 1 .. (Len(s) - 1) :
                RemoveAt(s, i)[k] = IF k < i THEN s[k] ELSE s[k + 1]
<1> DEFINE r == RemoveAt(s, i)
<1>1. Len(s) \in Nat /\ DOMAIN s = 1 .. Len(s) /\ i \in 1 .. Len(s)
  OBVIOUS
<1>2. /\ SubSeq(s, 1, i - 1) \in Seq(S) /\ Len(SubSeq(s, 1, i - 1)) = i - 1
      /\ \A k \in 1 .. (i - 1) : SubSeq(s, 1, i - 1)[k] = s[k]
  BY <1>1, SubSeqProperties
<1>3. /\ SubSeq(s, i + 1, Len(s)) \in Seq(S) /\ Len(SubSeq(s, i + 1, Len(s))) = Len(s) - i
      /\ \A k \in 1 .. (Len(s) - i) : SubSeq(s, i + 1, Len(s))[k] = s[i + k]
  <2>1. /\ i + 1 \in Int /\ Len(s) \in Int /\ \A k \in (i + 1) .. Len(s) : s[k] \in S
    BY <1>1
  <2>2. /\ SubSeq(s, i + 1, Len(s)) \in Seq(S)
        /\ Len(SubSeq(s, i + 1, Len(s)))
             = IF i + 1 <= Len(s) THEN Len(s) - (i + 1) + 1 ELSE 0
        /\ \A k \in 1 .. Len(s) - (i + 1) + 1 :
             SubSeq(s, i + 1, Len(s))[k] = s[(i + 1) + k - 1]
    BY <2>1, SubSeqProperties
  <2>3. Len(SubSeq(s, i + 1, Len(s))) = Len(s) - i
    <3>1. (IF i + 1 <= Len(s) THEN Len(s) - (i + 1) + 1 ELSE 0) = Len(s) - i
      BY <1>1
    <3> QED
      BY <2>2, <3>1
  <2>4. ASSUME NEW k \in 1 .. (Len(s) - i)
        PROVE  SubSeq(s, i + 1, Len(s))[k] = s[i + k]
    <3>1. k \in 1 .. Len(s) - (i + 1) + 1 /\ (i + 1) + k - 1 = i + k
      BY <1>1
    <3> QED
      BY <2>2, <3>1
  <2> QED
    BY <2>2, <2>3, <2>4
<1> DEFINE before == SubSeq(s, 1, i - 1)
           after == SubSeq(s, i + 1, Len(s))
<1>4. r = before \o after
  BY DEF RemoveAt
<1> HIDE DEF r, before, after
<1>5. /\ r \in Seq(S) /\ Len(r) = Len(before) + Len(after)
      /\ \A k \in 1 .. Len(before) + Len(after) :
           r[k] = IF k <= Len(before) THEN before[k] ELSE after[k - Len(before)]
  <2>1. before \in Seq(S) /\ after \in Seq(S)
    BY <1>2, <1>3 DEF before, after
  <2> QED
    BY <1>4, <2>1, ConcatProperties
<1>6. Len(before) = i - 1 /\ Len(after) = Len(s) - i /\ Len(r) = Len(s) - 1
  BY <1>1, <1>2, <1>3, <1>5 DEF before, after
<1>7. DOMAIN r = 1 .. (Len(s) - 1)
  BY <1>5, <1>6
<1>8. ASSUME NEW k \in 1 .. (Len(s) - 1)
      PROVE  r[k] = IF k < i THEN s[k] ELSE s[k + 1]
  <2>1. CASE k < i
    BY <1>1, <1>2, <1>5, <1>6, <2>1 DEF before
  <2>2. CASE k >= i
    <3>1. k - (i - 1) \in 1 .. (Len(s) - i) /\ i + (k - (i - 1)) = k + 1
      BY <1>1, <2>2
    <3>2. r[k] = after[k - (i - 1)]
      BY <1>1, <1>5, <1>6, <2>2
    <3> QED
      <4>1. after[k - (i - 1)] = s[i + (k - (i - 1))]
        BY <1>3, <3>1 DEF after
      <4> QED
        BY <2>2, <3>1, <3>2, <4>1
  <2> QED
    BY <1>1, <2>1, <2>2
<1> QED
  BY <1>1, <1>7, <1>8 DEF r

LEMMA OnceRemove ==
    ASSUME NEW S, NEW s \in Seq(S), NEW i \in DOMAIN s, Once(s)
    PROVE  /\ Once(RemoveAt(s, i))
           /\ \A k : Within(RemoveAt(s, i), k) <=> Within(s, k) /\ k # s[i]
<1> DEFINE r == RemoveAt(s, i)
<1>1. /\ Len(s) \in Nat /\ DOMAIN s = 1 .. Len(s) /\ i \in 1 .. Len(s)
      /\ DOMAIN r = 1 .. (Len(s) - 1)
      /\ \A k \in 1 .. (Len(s) - 1) : r[k] = IF k < i THEN s[k] ELSE s[k + 1]
  BY RemoveAtElements
<1> HIDE DEF r
<1>2. Once(r)
  <2> SUFFICES ASSUME NEW a \in 1 .. (Len(s) - 1), NEW b \in 1 .. (Len(s) - 1), r[a] = r[b]
               PROVE  a = b
    BY <1>1 DEF Once
  <2>1. (IF a < i THEN a ELSE a + 1) = (IF b < i THEN b ELSE b + 1)
    <3> DEFINE x == IF a < i THEN a ELSE a + 1
               y == IF b < i THEN b ELSE b + 1
    <3>1. x \in DOMAIN s /\ y \in DOMAIN s /\ s[x] = s[y]
      BY <1>1
    <3> QED
      BY <3>1 DEF Once
  <2> QED
    BY <1>1, <2>1
<1>3. ASSUME NEW k, Within(r, k)
      PROVE  Within(s, k) /\ k # s[i]
  <2>1. PICK b \in 1 .. (Len(s) - 1) : r[b] = k
    BY <1>1, <1>3 DEF Within
  <2> DEFINE a == IF b < i THEN b ELSE b + 1
  <2>2. a \in 1 .. Len(s) /\ a # i /\ s[a] = k
    BY <1>1, <2>1
  <2> QED
    BY <1>1, <2>2 DEF Within, Once
<1>4. ASSUME NEW k, Within(s, k), k # s[i]
      PROVE  Within(r, k)
  <2>1. PICK a \in 1 .. Len(s) : s[a] = k
    BY <1>1, <1>4 DEF Within
  <2>2. a # i
    BY <1>4, <2>1
  <2>3. \E b \in 1 .. (Len(s) - 1) : r[b] = k
    <3>1. CASE a < i
      BY <1>1, <2>1, <3>1
    <3>2. CASE a > i
      <4>1. a - 1 \in 1 .. (Len(s) - 1) /\ r[a - 1] = k
        BY <1>1, <2>1, <3>2
      <4> QED
        BY <4>1
    <3> QED
      BY <1>1, <2>1, <2>2, <3>1, <3>2
  <2> QED
    BY <1>1, <2>3 DEF Within
<1> QED
  BY <1>2, <1>3, <1>4 DEF r

Early == {"idle", "admitted", "reserved", "staged", "published"}

\* Only a serving backend has clients, only one that restores has forms to restore,
\* and one that is down has nothing.
Phases ==
    /\ up # "serving" => \A j \in Job : /\ request[j] \in {"idle", "done"}
                                        /\ canceller[j] \in {"idle", "done"}
    /\ up # "restoring" => toRestore = <<>>
    /\ up = "down" => /\ waiting = <<>> /\ leases = {}
                       /\ \A w \in Worker : worker[w] = Idle

LEMMA PhasesInvariant == Spec => []Phases
<1>1. Init => Phases
  BY DEF Init, GateInit, Phases
<1>2. Typed /\ Phases /\ [Next]_vars => Phases'
  <2> SUFFICES ASSUME Typed, Phases, [Next]_vars
               PROVE  Phases'
    OBVIOUS
  <2> USE DEF Phases, processVars, queueVars
  <2>1. CASE Clients
    <3>1. up = "serving"
      BY <2>1 DEF Clients, ClientStep, Admit, Reserve, StageForm, StageFails, Publish, Submit,
         SubmitFails, Respond, RequestGoes
    <3> QED
      BY <2>1, <3>1, ClientFrame
  <2>2. CASE Cancellers
    <3>1. up = "serving" \/ \E j \in Job : up # "down" /\ ForcedCancel(j)
      BY <2>2 DEF Cancellers, CancelStepOf, CancelAdmit, CancelMark, CancelInQueue, CancelEntry,
         CancelClean, CancelAnswer, ForcedCancel, CancelGoes
    <3>2. CASE up = "serving"
      BY <2>2, <3>2, CancelFrame
    <3>3. ASSUME NEW j \in Job, up # "down", ForcedCancel(j)
          PROVE  Phases'
      BY <2>2, <3>3, CancelFrame DEF ForcedCancel
    <3> QED
      BY <3>1, <3>2, <3>3
  <2>3. CASE Workers
    <3>1. up # "down"
      BY <2>3 DEF Workers, WorkerStepOf, WorkerAdmit, Take, Start, Execute, End, Complete, Leave,
         WorkerGoes
    <3> QED
      BY <2>3, <3>1, WorkerFrame
  <2>4. CASE Control
    <3>1. leases' = leases
      BY <2>4 DEF Control, RequestDrain, WatchStep, WatchBegin, WatchReady, WatchEnd, ForceDrain,
         ControllerWorks, ClearMaintenance, BeginMaintenance, CompleteMaintenance,
         RequestForceCancel, gateVars
    <3> QED
      BY <2>4, <3>1, ControlFrame
  <2>5. CASE Stop
    BY <2>5 DEF Stop, GateRestart
  <2>6. CASE Startup
    BY <2>6, StartupFrame DEF Startup, Boot, RestoreJob, Serve
  <2>7. CASE UNCHANGED vars
    BY <2>7 DEF vars, gateVars
  <2> QED
    BY <2>1, <2>2, <2>3, <2>4, <2>5, <2>6, <2>7, Steps
<1> QED
  BY <1>1, <1>2, TypedInvariant, PTL DEF Spec

\* A job is in one place only, and before its submission in none.
Placed ==
    /\ Once(waiting) /\ Once(toRestore)
    /\ \A j \in Job : InQueue(j) => ~ AtWork(j)
    /\ \A v, w \in Worker : worker[v].job = worker[w].job /\ worker[v].job # NoJob => v = w
    /\ \A j \in Job : Within(toRestore, j) => pending[j] = "queued" /\ ~ InQueue(j) /\ ~ AtWork(j)
    /\ \A j \in Job : request[j] \in Early =>
         ~ InQueue(j) /\ ~ AtWork(j) /\ pending[j] \notin {"queued", "running"}

LEMMA QueueIsWaiting ==
    \A k : (InQueue(k) <=> Within(waiting, k)) /\ (InQueue(k)' <=> Within(waiting', k))
BY DEF InQueue, Within

LEMMA SameJobs ==
    ASSUME waiting' = waiting, \A w \in Worker : worker'[w].job = worker[w].job
    PROVE  \A j \in Job : (InQueue(j)' <=> InQueue(j)) /\ (AtWork(j)' <=> AtWork(j))
BY DEF InQueue, AtWork

\* A step of a worker that only moves its thread.
WorkerStays(w) == WorkerAdmit(w) \/ Start(w) \/ Execute(w) \/ End(w) \/ Complete(w)

LEMMA StaysAtWork ==
    ASSUME Typed, NEW w \in Worker, WorkerStays(w)
    PROVE  waiting' = waiting /\ \A v \in Worker : worker'[v].job = worker[v].job
<1>1. waiting' = waiting /\ \E s \in WorkerStep : worker' = [worker EXCEPT ![w].step = s]
  BY DEF WorkerStays, WorkerAdmit, Start, Execute, End, Complete, WorkerGoes, WorkerStep,
     queueVars
<1> QED
  BY <1>1 DEF Typed, WorkerTypes

\* A job joins the queue ...
LEMMA Joins ==
    ASSUME Typed, Placed, NEW j \in Job, ~ InQueue(j),
           waiting' = Append(waiting, j), worker' = worker
    PROVE  /\ Once(waiting')
           /\ \A k \in Job : (InQueue(k)' <=> InQueue(k) \/ k = j) /\ (AtWork(k)' <=> AtWork(k))
<1>1. Once(waiting) /\ ~ Within(waiting, j) /\ waiting \in Seq(Job)
  BY QueueIsWaiting DEF Placed, Typed, QueueTypes
<1>2. /\ \A k : Within(Append(waiting, j), k) <=> Within(waiting, k) \/ k = j
      /\ Once(Append(waiting, j))
  BY <1>1, OnceAppend
<1>3. \A k \in Job : AtWork(k)' <=> AtWork(k)
  BY DEF AtWork
<1> QED
  BY <1>2, <1>3, QueueIsWaiting

\* ... is taken out of it by its canceller ...
LEMMA Removed ==
    ASSUME Typed, Placed, NEW i \in DOMAIN waiting,
           waiting' = RemoveAt(waiting, i), worker' = worker
    PROVE  /\ Once(waiting')
           /\ \A k \in Job : /\ InQueue(k)' <=> InQueue(k) /\ k # waiting[i]
                             /\ AtWork(k)' <=> AtWork(k)
<1>1. waiting \in Seq(Job) /\ Once(waiting)
  BY DEF Placed, Typed, QueueTypes
<1>2. /\ Once(RemoveAt(waiting, i))
      /\ \A k : Within(RemoveAt(waiting, i), k) <=> Within(waiting, k) /\ k # waiting[i]
  BY <1>1, OnceRemove
<1>3. \A k \in Job : AtWork(k)' <=> AtWork(k)
  BY DEF AtWork
<1> QED
  BY <1>2, <1>3, QueueIsWaiting

\* ... or by a worker ...
LEMMA Taken ==
    ASSUME Typed, Placed, NEW w \in Worker, Take(w)
    PROVE  /\ Head(waiting) \in Job /\ InQueue(Head(waiting)) /\ Once(waiting')
           /\ \A k \in Job : /\ InQueue(k)' <=> InQueue(k) /\ k # Head(waiting)
                             /\ AtWork(k)' <=> AtWork(k) \/ k = Head(waiting)
<1> USE DEF Typed
<1>1. /\ waiting' = Tail(waiting) /\ waiting # <<>> /\ worker[w].job = NoJob
      /\ worker' = [worker EXCEPT ![w] = [step |-> "taken", job |-> Head(waiting)]]
  BY DEF Take, Holding, QueueLockFree
<1>2. waiting \in Seq(Job) /\ Once(waiting) /\ Head(waiting) \in Job
  BY <1>1 DEF Placed, QueueTypes
<1>3. /\ Within(waiting, Head(waiting)) /\ Once(Tail(waiting))
      /\ \A k : Within(Tail(waiting), k) <=> Within(waiting, k) /\ k # Head(waiting)
  BY <1>1, <1>2, OnceTail
<1>4. \A k \in Job : AtWork(k)' <=> AtWork(k) \/ k = Head(waiting)
  BY <1>1, <1>2 DEF AtWork, WorkerTypes
<1> QED
  BY <1>1, <1>2, <1>3, <1>4, QueueIsWaiting

\* ... which leaves it at the end.
LEMMA Left ==
    ASSUME Typed, Placed, NEW w \in Worker, Leave(w)
    PROVE  /\ worker[w].job \in Job /\ AtWork(worker[w].job)
           /\ \A k \in Job : /\ InQueue(k)' <=> InQueue(k)
                             /\ AtWork(k)' <=> AtWork(k) /\ k # worker[w].job
<1> USE DEF Typed
<1>1. /\ waiting' = waiting /\ worker' = [worker EXCEPT ![w] = Idle]
      /\ worker[w].job \in Job
  BY DEF Leave, Holding, WorkerTypes
<1>2. AtWork(worker[w].job)
  BY DEF AtWork
<1>3. ASSUME NEW k \in Job
      PROVE  AtWork(k)' <=> AtWork(k) /\ k # worker[w].job
  <2>1. k # NoJob
    OBVIOUS
  <2>2. \A v \in Worker : worker'[v].job = IF v = w THEN NoJob ELSE worker[v].job
    BY <1>1 DEF Idle, WorkerTypes
  <2>3. \A v \in Worker : worker[v].job = worker[w].job => v = w
    BY <1>1 DEF Placed
  <2> QED
    BY <2>1, <2>2, <2>3 DEF AtWork
<1> QED
  BY <1>1, <1>2, <1>3, QueueIsWaiting

LEMMA PlacedKept ==
    ASSUME Typed, Phases, Placed, [Next]_vars
    PROVE  Placed'
<1> USE DEF Placed, queueVars, processVars, diskVars, Typed, EntryTypes, QueueTypes, WorkerTypes
<1>1. ASSUME NEW j \in Job, Admit(j) \/ Reserve(j) \/ StageForm(j) \/ StageFails(j) \/ Publish(j)
                             \/ SubmitFails(j) \/ Respond(j)
      PROVE  Placed'
  <2>1. UNCHANGED <<waiting, worker, toRestore>> /\ toRestore = <<>>
    BY <1>1 DEF Admit, Reserve, StageForm, StageFails, Publish, SubmitFails, Respond, RequestGoes,
                Phases
  <2>2. /\ pending' = pending \/ pending' = [pending EXCEPT ![j] = "staged"]
             \/ pending' = [pending EXCEPT ![j] = "none"]
        /\ pending' # pending => request[j] \in Early
    BY <1>1 DEF Admit, Reserve, StageForm, StageFails, Publish, SubmitFails, Respond, RequestGoes,
                CleanDirectory, Early
  <2>3. \A k \in Job : request'[k] \in Early => request[k] \in Early
    BY <1>1 DEF Admit, Reserve, StageForm, StageFails, Publish, SubmitFails, Respond, RequestGoes,
                Early
  <2>4. \A k \in Job : (InQueue(k)' <=> InQueue(k)) /\ (AtWork(k)' <=> AtWork(k))
    BY <2>1, SameJobs
  <2>5. \A k \in Job : request'[k] \in Early => pending'[k] \notin {"queued", "running"}
    BY <2>2, <2>3
  <2> QED
    BY <2>1, <2>3, <2>4, <2>5 DEF Within
<1>2. ASSUME NEW j \in Job, Submit(j)
      PROVE  Placed'
  <2>1. /\ request[j] = "published" /\ up = "serving" /\ worker' = worker /\ toRestore' = toRestore
        /\ request' = [request EXCEPT ![j] = "accepted"] /\ waiting' = Append(waiting, j)
        /\ \A k \in Job \ {j} : pending'[k] = pending[k]
    BY <1>2 DEF Submit, RequestGoes, MarkState
  <2>2. toRestore = <<>>
    BY <2>1 DEF Phases
  <2>3. ~ InQueue(j) /\ ~ AtWork(j)
    BY <2>1 DEF Early
  <2>4. /\ Once(waiting')
        /\ \A k \in Job : (InQueue(k)' <=> InQueue(k) \/ k = j) /\ (AtWork(k)' <=> AtWork(k))
    BY <2>1, <2>3, Joins
  <2>6. \A k \in Job : request'[k] \in Early => request[k] \in Early /\ k # j
    BY <2>1 DEF Early
  <2> QED
    BY <2>1, <2>2, <2>3, <2>4, <2>6 DEF Within
<1>3. ASSUME NEW j \in Job, CancelInQueue(j)
      PROVE  Placed'
  <2>1. UNCHANGED <<worker, toRestore, pending, request>>
    BY <1>3 DEF CancelInQueue
  <2>2. /\ Once(waiting')
        /\ \A k \in Job : (InQueue(k)' => InQueue(k)) /\ (AtWork(k)' <=> AtWork(k))
    <3>1. CASE waiting' = waiting
      BY <2>1, <3>1, SameJobs
    <3> QED
      BY <1>3, <2>1, <3>1, Removed DEF CancelInQueue
  <2> QED
    BY <2>1, <2>2 DEF Within, Once
<1>4. ASSUME NEW j \in Job, CancelAdmit(j) \/ CancelMark(j) \/ CancelEntry(j) \/ CancelClean(j)
                             \/ CancelAnswer(j) \/ ForcedCancel(j)
      PROVE  Placed'
  <2>1. UNCHANGED <<waiting, worker, toRestore, request>>
    BY <1>4 DEF CancelAdmit, CancelMark, CancelEntry, CancelClean, CancelAnswer, ForcedCancel
  <2>2. \/ pending' = pending
        \/ /\ toRestore = <<>>
           /\ \E to \in {"none", "cancelled"} : pending' = [pending EXCEPT ![j] = to]
    BY <1>4 DEF CancelAdmit, CancelMark, CancelEntry, CancelClean, CancelAnswer, ForcedCancel,
                CancelGoes, MarkState, CleanDirectory, Phases
  <2>3. \A k \in Job : (InQueue(k)' <=> InQueue(k)) /\ (AtWork(k)' <=> AtWork(k))
    BY <2>1, SameJobs
  <2> QED
    BY <2>1, <2>2, <2>3 DEF Within
<1>5. ASSUME NEW w \in Worker, WorkerStays(w)
      PROVE  Placed'
  <2>1. UNCHANGED <<toRestore, request, waiting>>
    BY <1>5, StaysAtWork, WorkerFrame DEF WorkerStays, Workers, WorkerStepOf
  <2>2. \A v \in Worker : worker'[v].job = worker[v].job
    BY <1>5, StaysAtWork
  <2>3. \A k \in Job : (InQueue(k)' <=> InQueue(k)) /\ (AtWork(k)' <=> AtWork(k))
    BY <2>1, <2>2, SameJobs
  <2>4. \A k \in Job : pending'[k] = pending[k] \/ AtWork(k)
    <3>1. \E to \in PendingState : pending' \in {pending, [pending EXCEPT ![worker[w].job] = to]}
      BY <1>5 DEF WorkerStays, WorkerAdmit, Start, Execute, End, Complete, MarkState,
         CleanDirectory, PendingState
    <3>2. \A k \in Job : k = worker[w].job => AtWork(k)
      BY DEF AtWork
    <3> QED
      BY <3>1, <3>2
  <2> QED
    BY <2>1, <2>2, <2>3, <2>4 DEF Within, Once
<1>6. ASSUME NEW w \in Worker, Take(w)
      PROVE  Placed'
  <2> DEFINE j == Head(waiting)
  <2>1. /\ UNCHANGED <<toRestore, request, pending>> /\ waiting' = Tail(waiting)
        /\ worker' = [worker EXCEPT ![w] = [step |-> "taken", job |-> j]]
        /\ worker[w].job = NoJob /\ waiting # <<>>
    BY <1>6, WorkerFrame DEF Take, Workers, WorkerStepOf, Holding, QueueLockFree
  <2>2. /\ j \in Job /\ InQueue(j) /\ Once(waiting')
        /\ \A k \in Job : /\ InQueue(k)' <=> InQueue(k) /\ k # j
                          /\ AtWork(k)' <=> AtWork(k) \/ k = j
    BY <1>6, Taken
  <2>3. \A v \in Worker : worker[v].job # j
    BY <2>2 DEF AtWork
  <2>4. \A v, u \in Worker : worker'[v].job = worker'[u].job /\ worker'[v].job # NoJob => v = u
    BY <2>1, <2>3
  <2> QED
    BY <2>1, <2>2, <2>4 DEF Within, Once
<1>7. ASSUME NEW w \in Worker, Leave(w)
      PROVE  Placed'
  <2>1. /\ UNCHANGED <<toRestore, request, pending, waiting>>
        /\ worker' = [worker EXCEPT ![w] = Idle]
    BY <1>7, WorkerFrame DEF Leave, Workers, WorkerStepOf
  <2>2. \A v \in Worker : worker'[v].job # NoJob => worker'[v].job = worker[v].job
    BY <2>1 DEF Idle
  <2>3. \A k \in Job : (InQueue(k)' <=> InQueue(k)) /\ (AtWork(k)' => AtWork(k))
    BY <1>7, Left
  <2> QED
    BY <2>1, <2>2, <2>3 DEF Within, Once
<1>8. CASE Stop
  <2>1. /\ waiting' = <<>> /\ toRestore' = <<>> /\ pending' = pending
        /\ \A v \in Worker : worker'[v].job = NoJob
        /\ \A k \in Job : request'[k] \in Early => request[k] \in Early
    BY <1>8 DEF Stop, Idle, Early
  <2>2. \A k \in Job : ~ InQueue(k)' /\ ~ AtWork(k)'
    BY <2>1 DEF InQueue, AtWork
  <2> QED
    BY <2>1, <2>2 DEF Within, Once
<1>9. CASE Boot
  <2>1. /\ waiting' = <<>> /\ waiting = <<>> /\ UNCHANGED <<pending, request, worker>>
        /\ \A v \in Worker : worker'[v].job = NoJob
    BY <1>9 DEF Boot, Phases, Idle
  <2>2. \A k \in Job : ~ InQueue(k)' /\ ~ AtWork(k)'
    BY <2>1 DEF InQueue, AtWork
  <2>3. Once(toRestore)' /\ \A k \in Job : Within(toRestore, k)' => pending[k] = "queued"
    <3>1. PICK s \in SetToSeqs(QueuedForms) : toRestore' = s
      BY <1>9 DEF Boot
    <3>2. /\ \A i \in DOMAIN s : s[i] \in QueuedForms
          /\ \A i, k \in DOMAIN s : s[i] = s[k] => i = k
      BY DEF SetToSeqs, IsInjective
    <3> QED
      BY <3>1, <3>2 DEF QueuedForms, Within, Once
  <2> QED
    BY <2>1, <2>2, <2>3 DEF Once
<1>10. CASE RestoreJob
  <2> DEFINE j == Head(toRestore)
  <2>1. /\ UNCHANGED <<pending, request, worker>> /\ j \in Job /\ toRestore # <<>>
    BY <1>10, StartupFrame DEF RestoreJob, Startup
  <2>2. \A k \in Job : AtWork(k)' <=> AtWork(k)
    BY <2>1 DEF AtWork
  <2>3. /\ Within(toRestore, j) /\ Once(Tail(toRestore))
        /\ \A k \in Job : Within(Tail(toRestore), k) <=> Within(toRestore, k) /\ k # j
    BY <2>1, OnceTail
  <2>4. CASE toRestore' = Tail(toRestore) /\ waiting' = Append(waiting, j)
    <3>1. ~ InQueue(j) /\ ~ AtWork(j) /\ pending[j] = "queued"
      BY <2>1, <2>3
    <3>2. Once(waiting') /\ \A k \in Job : InQueue(k)' <=> InQueue(k) \/ k = j
      BY <2>1, <2>4, <3>1, Joins
    <3>3. Once(toRestore') /\ \A k \in Job : Within(toRestore', k) => Within(toRestore, k) /\ k # j
      BY <2>3, <2>4
    <3> QED
      BY <2>1, <2>2, <3>1, <3>2, <3>3
  <2>5. CASE toRestore' = <<>> /\ waiting' = waiting
    <3>1. \A k \in Job : InQueue(k)' <=> InQueue(k)
      BY <2>5 DEF InQueue
    <3> QED
      BY <2>1, <2>2, <2>5, <3>1 DEF Within, Once
  <2> QED
    BY <1>10, <2>4, <2>5 DEF RestoreJob
<1>11. CASE Control \/ Serve \/ UNCHANGED vars
  <2>1. UNCHANGED <<waiting, toRestore, worker, pending, request>>
    BY <1>11, ControlFrame DEF Serve, vars
  <2>2. \A k \in Job : (InQueue(k)' <=> InQueue(k)) /\ (AtWork(k)' <=> AtWork(k))
    BY <2>1, SameJobs
  <2> QED
    BY <2>1, <2>2 DEF Within, Once
<1> QED
  BY <1>1, <1>2, <1>3, <1>4, <1>5, <1>6, <1>7, <1>8, <1>9, <1>10, <1>11, Steps
     DEF Clients, ClientStep, Cancellers, CancelStepOf, Workers, WorkerStepOf, WorkerStays, Startup

LEMMA PlacedInvariant == Spec => []Placed
<1>1. Init => Placed
  BY DEF Init, Idle, Placed, Once, Within, InQueue, AtWork
<1> QED
  BY <1>1, PlacedKept, TypedInvariant, PhasesInvariant, PTL DEF Spec

(* -------------------------- slots and leases --------------------------- *)

Staging == {"reserved", "staged", "published"}

\* Pointwise form of SlotsAreJobsInFlight.
Slots ==
    \A j \in Job : j \in reservations <=> request[j] \in Staging \/ InQueue(j) \/ AtWork(j)

LEMMA SlotsKept ==
    ASSUME Typed, Phases, Placed, Slots, [Next]_vars
    PROVE  Slots'
<1> USE DEF Slots, Staging, queueVars, Typed, EntryTypes
<1>1. ASSUME NEW j \in Job, Admit(j) \/ Reserve(j) \/ StageForm(j) \/ StageFails(j) \/ Publish(j)
                             \/ SubmitFails(j) \/ Respond(j)
      PROVE  Slots'
  <2>1. UNCHANGED <<waiting, worker>>
    BY <1>1 DEF Admit, Reserve, StageForm, StageFails, Publish, SubmitFails, Respond
  <2>2. \A k \in Job : (InQueue(k)' <=> InQueue(k)) /\ (AtWork(k)' <=> AtWork(k))
    BY <2>1, SameJobs
  <2>3. request[j] \in Early => ~ InQueue(j) /\ ~ AtWork(j)
    BY DEF Placed
  <2>4. \E to \in RequestStep :
          /\ request' = [request EXCEPT ![j] = to]
          /\ \/ reservations' = reservations /\ (to \in Staging <=> request[j] \in Staging)
             \/ reservations' = reservations \union {j} /\ to \in Staging
             \/ reservations' = reservations \ {j} /\ to \notin Staging /\ request[j] \in Early
    BY <1>1 DEF Admit, Reserve, StageForm, StageFails, Publish, SubmitFails, Respond, RequestGoes,
                RequestStep, Early
  <2> QED
    BY <2>2, <2>3, <2>4
<1>2. ASSUME NEW j \in Job, Submit(j)
      PROVE  Slots'
  <2>1. /\ request[j] = "published" /\ worker' = worker /\ reservations' = reservations
        /\ request' = [request EXCEPT ![j] = "accepted"] /\ waiting' = Append(waiting, j)
    BY <1>2 DEF Submit, RequestGoes
  <2>2. ~ InQueue(j)
    BY <2>1 DEF Placed, Early
  <2>3. \A k \in Job : (InQueue(k)' <=> InQueue(k) \/ k = j) /\ (AtWork(k)' <=> AtWork(k))
    BY <2>1, <2>2, Joins
  <2> QED
    BY <2>1, <2>3
<1>3. ASSUME NEW j \in Job, CancelInQueue(j)
      PROVE  Slots'
  <2>1. UNCHANGED <<worker, request>>
    BY <1>3 DEF CancelInQueue
  <2>2. CASE UNCHANGED <<waiting, reservations>>
    BY <2>1, <2>2, SameJobs
  <2>3. ASSUME NEW i \in DOMAIN waiting, InQueue(j), waiting[i] = j, waiting' = RemoveAt(waiting, i),
               reservations' = reservations \ {j}
        PROVE  Slots'
    <3>1. request[j] \notin Staging /\ ~ AtWork(j)
      BY <2>3 DEF Placed, Early
    <3>2. \A k \in Job : (InQueue(k)' <=> InQueue(k) /\ k # j) /\ (AtWork(k)' <=> AtWork(k))
      BY <2>1, <2>3, Removed
    <3> QED
      BY <2>1, <2>3, <3>1, <3>2
  <2> QED
    BY <1>3, <2>2, <2>3 DEF CancelInQueue
<1>4. ASSUME NEW w \in Worker, Take(w)
      PROVE  Slots'
  <2>1. UNCHANGED <<request, reservations>>
    BY <1>4 DEF Take
  <2> QED
    BY <1>4, <2>1, Taken
<1>5. ASSUME NEW w \in Worker, Leave(w)
      PROVE  Slots'
  <2> DEFINE j == worker[w].job
  <2>1. request' = request /\ reservations' = reservations \ {j}
    BY <1>5 DEF Leave
  <2>2. /\ j \in Job /\ AtWork(j)
        /\ \A k \in Job : (InQueue(k)' <=> InQueue(k)) /\ (AtWork(k)' <=> AtWork(k) /\ k # j)
    BY <1>5, Left
  <2>3. request[j] \notin Staging /\ ~ InQueue(j)
    BY <2>2 DEF Placed, Early
  <2> HIDE DEF j
  <2> QED
    BY <2>1, <2>2, <2>3
<1>6. CASE Stop
  <2>1. /\ waiting' = <<>> /\ reservations' = {}
        /\ \A v \in Worker : worker'[v].job = NoJob
        /\ \A k \in Job : request'[k] \in {"idle", "done"}
    BY <1>6 DEF Stop, Idle
  <2> QED
    BY <2>1 DEF InQueue, AtWork
<1>7. CASE RestoreJob
  <2> DEFINE j == Head(toRestore)
  <2>1. request' = request /\ worker' = worker /\ j \in Job /\ toRestore # <<>>
    BY <1>7, StartupFrame DEF RestoreJob, Startup, QueueTypes
  <2>2. CASE UNCHANGED <<waiting, reservations>>
    BY <2>1, <2>2, SameJobs
  <2>3. CASE waiting' = Append(waiting, j) /\ reservations' = reservations \union {j}
    <3>1. Within(toRestore, j) /\ toRestore \in Seq(Job) /\ Once(toRestore)
      BY <2>1, OnceTail DEF Placed, QueueTypes
    <3>2. ~ InQueue(j)
      BY <2>1, <3>1 DEF Placed
    <3> HIDE DEF j
    <3> QED
      BY <2>1, <2>3, <3>2, Joins
  <2> QED
    BY <1>7, <2>2, <2>3 DEF RestoreJob
<1>8. ASSUME UNCHANGED <<waiting, reservations, request>>,
             worker' = worker \/ \E w \in Worker : WorkerStays(w)
      PROVE  Slots'
  BY <1>8, SameJobs, StaysAtWork
<1>9. ASSUME NEW w \in Worker, WorkerStays(w)
      PROVE  UNCHANGED <<waiting, reservations, request>>
  BY <1>9 DEF WorkerStays, WorkerAdmit, Start, Execute, End, Complete
<1>10. ASSUME NEW j \in Job, CancelAdmit(j) \/ CancelMark(j) \/ CancelEntry(j) \/ CancelClean(j)
                             \/ CancelAnswer(j) \/ ForcedCancel(j)
       PROVE  UNCHANGED <<waiting, reservations, request, worker>>
  BY <1>10 DEF CancelAdmit, CancelMark, CancelEntry, CancelClean, CancelAnswer, ForcedCancel
<1>11. Control \/ Boot \/ Serve \/ UNCHANGED vars
         => UNCHANGED <<waiting, reservations, request, worker>>
  BY ControlFrame DEF Boot, Serve, vars
<1> QED
  BY <1>1, <1>2, <1>3, <1>4, <1>5, <1>6, <1>7, <1>8, <1>9, <1>10, <1>11, Steps
     DEF Clients, ClientStep, Cancellers, CancelStepOf, Workers, WorkerStepOf, WorkerStays, Startup

LEMMA SlotsInvariant == Spec => []Slots
<1>1. Init => Slots
  BY DEF Init, Idle, Slots, Staging, InQueue, AtWork
<1> QED
  BY <1>1, SlotsKept, TypedInvariant, PhasesInvariant, PlacedInvariant, PTL DEF Spec

\* reserve, submit, cancel, the worker's finally and the restoration give every slot to one job
\* in flight and take it back once, on every path.
THEOREM SlotsAccounted == Spec => []SlotsAreJobsInFlight
<1>1. Typed /\ Slots => SlotsAreJobsInFlight
  BY DEF Typed, EntryTypes, Slots, Staging, SlotsAreJobsInFlight
<1> QED
  BY <1>1, SlotsInvariant, TypedInvariant, PTL

Counted == {"admitted", "reserved", "staged", "published"}
Cancelling(j) == canceller[j] \notin {"idle", "done"}

\* The job whose lease a worker has, or has just got for the head of the queue.
AtRun(j) == AtWork(j) \/ (~ QueueLockFree /\ j = Head(waiting))

\* Pointwise form of LeasesAreWorkInProgress.
Leased ==
    \A j \in Job : /\ Stage(j) \in leases <=> request[j] \in Counted
                   /\ Run(j) \in leases <=> AtRun(j)
                   /\ Cancel(j) \in leases <=> Cancelling(j)

LEMMA Tokens ==
    \A j, k \in Job : /\ Stage(j) # Run(k) /\ Stage(j) # Cancel(k) /\ Run(j) # Cancel(k)
                      /\ j # k => Stage(j) # Stage(k) /\ Run(j) # Run(k) /\ Cancel(j) # Cancel(k)
BY DEF Stage, Run, Cancel

\* The lock protects the head of the queue that an admitted worker has its lease for.
LEMMA RunsKept ==
    ASSUME Typed, \/ UNCHANGED <<waiting, worker>>
                  \/ QueueLockFree /\ worker' = worker
                  \/ \E w \in Worker : Start(w) \/ Execute(w) \/ End(w) \/ Complete(w)
    PROVE  \A j \in Job : AtRun(j)' <=> AtRun(j)
<1>1. CASE UNCHANGED <<waiting, worker>> \/ (QueueLockFree /\ worker' = worker)
  BY <1>1 DEF AtRun, AtWork, QueueLockFree
<1>2. ASSUME NEW w \in Worker, Start(w) \/ Execute(w) \/ End(w) \/ Complete(w)
      PROVE  \A j \in Job : AtRun(j)' <=> AtRun(j)
  <2>1. /\ waiting' = waiting /\ worker[w].step \notin {"idle", "admitted"}
        /\ \E s \in WorkerStep \ {"idle", "admitted"} : worker' = [worker EXCEPT ![w].step = s]
    BY <1>2 DEF Start, Execute, End, Complete, WorkerGoes, queueVars, Outcome, WorkerStep
  <2>2. \A v \in Worker : /\ worker'[v].job = worker[v].job
                          /\ worker'[v].step = "admitted" <=> worker[v].step = "admitted"
    BY <2>1 DEF Typed, WorkerTypes
  <2> QED
    BY <2>1, <2>2 DEF AtRun, AtWork, QueueLockFree
<1> QED
  BY <1>1, <1>2

LEMMA LeasedKept ==
    ASSUME Typed, Phases, Placed, Leased, [Next]_vars
    PROVE  Leased'
<1> USE DEF Leased, Counted, Cancelling, Typed, EntryTypes
<1>1. ASSUME NEW j \in Job, Admit(j) \/ ClientStep(j)
      PROVE  Leased'
  <2>1. worker' = worker /\ canceller' = canceller /\ (waiting' = waiting \/ QueueLockFree)
    BY <1>1, ClientFrame DEF Clients, ClientStep, Admit, Reserve, StageForm, StageFails, Publish,
       Submit, SubmitFails, Respond, queueVars
  <2>2. \A k \in Job : AtRun(k)' <=> AtRun(k)
    BY <2>1, RunsKept
  <2>3. \E to \in RequestStep :
          /\ request' = [request EXCEPT ![j] = to]
          /\ \/ leases' = leases /\ (to \in Counted <=> request[j] \in Counted)
             \/ leases' = leases \union {Stage(j)} /\ to \in Counted
             \/ leases' = leases \ {Stage(j)} /\ to \notin Counted
    BY <1>1 DEF ClientStep, Admit, Reserve, StageForm, StageFails, Publish, Submit, SubmitFails,
       Respond, RequestGoes, RequestStep, TryAdmit, Finish, gateVars
  <2> QED
    BY <2>1, <2>2, <2>3, Tokens
<1>2. ASSUME NEW j \in Job, CancelAdmit(j) \/ CancelStepOf(j) \/ ForcedCancel(j)
      PROVE  Leased'
  <2>1. worker' = worker /\ request' = request /\ (waiting' = waiting \/ QueueLockFree)
    BY <1>2, CancelFrame DEF Cancellers, CancelStepOf, CancelAdmit, CancelMark, CancelInQueue,
       CancelEntry, CancelClean, CancelAnswer, ForcedCancel, queueVars
  <2>2. \A k \in Job : AtRun(k)' <=> AtRun(k)
    BY <2>1, RunsKept
  <2>3. \/ leases' = leases /\ canceller' = canceller
        \/ \E to \in CancelStep :
             /\ canceller' = [canceller EXCEPT ![j] = to]
             /\ \/ leases' = leases /\ to \notin {"idle", "done"} /\ Cancelling(j)
                \/ leases' = leases \union {Cancel(j)} /\ to \notin {"idle", "done"}
                \/ leases' = leases \ {Cancel(j)} /\ to \in {"idle", "done"}
    BY <1>2 DEF CancelStepOf, CancelAdmit, CancelMark, CancelInQueue, CancelEntry, CancelClean,
       CancelAnswer, ForcedCancel, CancelGoes, CancelStep, TryAdmit, Finish, RunCallback, gateVars
  <2> QED
    BY <2>1, <2>2, <2>3, Tokens
<1>3. ASSUME NEW w \in Worker, WorkerStepOf(w)
      PROVE  Leased'
  <2> USE DEF WorkerTypes
  <2>1. UNCHANGED <<request, canceller>>
    BY <1>3, WorkerFrame DEF Workers
  <2>2. CASE Start(w) \/ Execute(w) \/ End(w) \/ Complete(w)
    <3>1. leases' = leases
      BY <2>2 DEF Start, Execute, End, Complete, gateVars
    <3> QED
      BY <2>1, <2>2, <3>1, RunsKept
  <2>3. CASE WorkerAdmit(w)
    <3>1. /\ QueueLockFree /\ waiting' = waiting /\ waiting # <<>>
          /\ worker' = [worker EXCEPT ![w].step = "admitted"]
          /\ leases' = leases \union {Run(Head(waiting))}
      BY <2>3 DEF WorkerAdmit, WorkerGoes, TryAdmit, queueVars
    <3>2. Head(waiting) \in Job
      BY <3>1 DEF QueueTypes
    <3>3. ~ QueueLockFree' /\ \A k \in Job : AtWork(k)' <=> AtWork(k)
      BY <3>1 DEF QueueLockFree, AtWork
    <3>4. \A k \in Job : AtRun(k)' <=> AtRun(k) \/ k = Head(waiting)
      BY <3>1, <3>3 DEF AtRun
    <3> QED
      BY <2>1, <3>1, <3>2, <3>4, Tokens
  <2>4. CASE Take(w)
    <3>1. /\ leases' = leases /\ ~ QueueLockFree
          /\ worker' = [worker EXCEPT ![w] = [step |-> "taken", job |-> Head(waiting)]]
      BY <2>4 DEF Take, SetCancelCallback, QueueLockFree
    <3>2. QueueLockFree'
      <4>1. worker[w].step = "admitted" /\ \A v \in Worker : worker[v].step = "admitted" => v = w
        BY <2>4 DEF Take, Holding
      <4> QED
        BY <3>1, <4>1 DEF QueueLockFree
    <3>3. \A k \in Job : AtWork(k)' <=> AtWork(k) \/ k = Head(waiting)
      BY <2>4, Taken
    <3>4. \A k \in Job : AtRun(k)' <=> AtRun(k)
      BY <3>1, <3>2, <3>3 DEF AtRun
    <3> QED
      BY <2>1, <3>1, <3>4
  <2>5. CASE Leave(w)
    <3> DEFINE j == worker[w].job
    <3>1. leases' = leases \ {Run(j)} /\ QueueLockFree /\ worker' = [worker EXCEPT ![w] = Idle]
      BY <2>5 DEF Leave, Finish
    <3>2. QueueLockFree'
      BY <3>1 DEF QueueLockFree, Idle
    <3>3. j \in Job /\ \A k \in Job : AtWork(k)' <=> AtWork(k) /\ k # j
      BY <2>5, Left
    <3>4. \A k \in Job : AtRun(k)' <=> AtRun(k) /\ k # j
      BY <3>1, <3>2, <3>3 DEF AtRun
    <3> HIDE DEF j
    <3> QED
      BY <2>1, <3>1, <3>3, <3>4, Tokens
  <2> QED
    BY <1>3, <2>2, <2>3, <2>4, <2>5 DEF WorkerStepOf
<1>4. CASE Stop \/ Boot
  <2>1. /\ leases' = {}
        /\ \A k \in Job : request'[k] \in {"idle", "done"} /\ canceller'[k] \in {"idle", "done"}
        /\ \A v \in Worker : worker'[v] = Idle
    BY <1>4 DEF Stop, Boot, GateRestart, Phases
  <2>2. \A k \in Job : ~ AtRun(k)'
    BY <2>1 DEF AtRun, AtWork, QueueLockFree, Idle
  <2> QED
    BY <2>1, <2>2
<1>5. CASE Control \/ RestoreJob \/ Serve \/ UNCHANGED vars
  <2>1. leases' = leases
    BY <1>5 DEF Control, RequestDrain, WatchStep, WatchBegin, WatchReady, WatchEnd, ForceDrain,
       ControllerWorks, ClearMaintenance, BeginMaintenance, CompleteMaintenance,
       RequestForceCancel, RestoreJob, Serve, vars, gateVars
  <2>2. UNCHANGED <<worker, request, canceller>> /\ (waiting' = waiting \/ QueueLockFree)
    BY <1>5, ControlFrame DEF RestoreJob, Serve, vars, queueVars
  <2> QED
    BY <2>1, <2>2, RunsKept
<1> QED
  BY <1>1, <1>2, <1>3, <1>4, <1>5, Steps DEF Clients, Cancellers, Workers, Startup

LEMMA LeasedInvariant == Spec => []Leased
<1>1. Init => Leased
  BY DEF Init, GateInit, Idle, Leased, Counted, Cancelling, AtRun, AtWork, QueueLockFree
<1> QED
  BY <1>1, LeasedKept, TypedInvariant, PhasesInvariant, PlacedInvariant, PTL DEF Spec

\* A lease stands for a request that stages or cancels, or for a job a worker has, on every
\* path through reserve, submit, cancel and the worker loop: no error leaves one behind for
\* the next drain to wait for, and a waiting job has none.
THEOREM LeasesAccounted == Spec => []LeasesAreWorkInProgress
<1>1. Typed /\ Leased => LeasesAreWorkInProgress
  <2> SUFFICES ASSUME Typed, Leased
               PROVE  LeasesAreWorkInProgress
    OBVIOUS
  <2>1. \A t \in leases : \E j \in Job : t \in {Stage(j), Run(j), Cancel(j)}
    BY DEF Typed, GateTypeOK, Stage, Run, Cancel
  <2> QED
    BY <2>1 DEF Leased, Counted, Cancelling, AtRun, LeasesAreWorkInProgress
<1> QED
  BY <1>1, LeasedInvariant, TypedInvariant, PTL

(* ------------------- what holds during maintenance --------------------- *)

\* The controller is acknowledged, and works, only while no lease is held and none can be
\* granted: by the gate that the watch drained, by a gate that a new backend opened closed,
\* or because there is no backend.
Quiet == leases = {} /\ (up # "down" => ~ GateOpen)
Drained ==
    /\ controller = "idle" <=> requestFile = NoOperation
    /\ watchId # NoOperation => operation = watchId /\ up # "down"
    /\ readyFile # NoOperation => readyFile = requestFile /\ Quiet
    /\ controller = "working" => Quiet

LEMMA DrainedKept ==
    ASSUME Typed, Phases, Drained, [Next]_vars
    PROVE  Drained'
<1> USE DEF Drained, Quiet, GateOpen, controlVars, processVars
<1>1. ASSUME UNCHANGED <<requestFile, readyFile, controller, watchId, up, operation>>,
             leases' \subseteq leases \/ (up # "down" /\ GateOpen)
      PROVE  Drained'
  BY <1>1
<1>2. CASE Clients
  <2>1. operation' = operation /\ (leases' \subseteq leases \/ (up # "down" /\ GateOpen))
    BY <1>2 DEF Clients, ClientStep, Admit, Reserve, StageForm, StageFails, Publish, Submit,
       SubmitFails, Respond, RequestGoes, TryAdmit, Finish, gateVars
  <2> QED
    BY <1>1, <1>2, <2>1, ClientFrame
<1>3. CASE Cancellers
  <2>1. operation' = operation /\ (leases' \subseteq leases \/ (up # "down" /\ GateOpen))
    BY <1>3 DEF Cancellers, CancelStepOf, CancelAdmit, CancelMark, CancelInQueue, CancelEntry,
       CancelClean, CancelAnswer, ForcedCancel, CancelGoes, TryAdmit, Finish, RunCallback, gateVars
  <2> QED
    BY <1>1, <1>3, <2>1, CancelFrame
<1>4. CASE Workers
  <2>1. operation' = operation /\ (leases' \subseteq leases \/ (up # "down" /\ GateOpen))
    BY <1>4 DEF Workers, WorkerStepOf, WorkerAdmit, Take, Start, Execute, End, Complete, Leave,
       WorkerGoes, TryAdmit, Finish, SetCancelCallback, gateVars
  <2> QED
    BY <1>1, <1>4, <2>1, WorkerFrame
<1>5. CASE Control
  <2> USE <1>5 DEF Typed, ControlTypes
  <2>1. leases' = leases /\ up' = up
    BY ControlFrame DEF Control, RequestDrain, WatchStep, WatchBegin, WatchReady, WatchEnd,
       ForceDrain, ControllerWorks, ClearMaintenance, BeginMaintenance, CompleteMaintenance,
       RequestForceCancel, gateVars
  <2>2. ASSUME NEW o \in Operation, RequestDrain(o)
        PROVE  Drained'
    BY <2>1, <2>2 DEF RequestDrain, gateVars
  <2>3. ASSUME NEW o \in Operation, WatchBegin(o)
        PROVE  Drained'
    BY <2>1, <2>3 DEF WatchBegin, BeginMaintenance
  <2>4. CASE WatchReady
    BY <2>1, <2>4 DEF WatchReady, gateVars
  <2>5. CASE WatchEnd
    BY <2>1, <2>5 DEF WatchEnd, CompleteMaintenance
  <2>6. CASE ForceDrain
    BY <2>1, <2>6 DEF ForceDrain, RequestForceCancel
  <2>7. CASE ControllerWorks
    BY <2>1, <2>7 DEF ControllerWorks, Phases, gateVars
  <2>8. CASE ClearMaintenance
    BY <2>1, <2>8 DEF ClearMaintenance, gateVars
  <2> QED
    BY <2>2, <2>3, <2>4, <2>5, <2>6, <2>7, <2>8 DEF Control, WatchStep
<1>6. CASE Stop
  BY <1>6 DEF Stop, GateRestart
<1>7. CASE Boot
  <2>1. /\ leases' = {} /\ operation' = requestFile /\ watchId = NoOperation
        /\ UNCHANGED <<requestFile, readyFile, controller, watchId>>
    <3>1. UNCHANGED <<requestFile, readyFile, controller, watchId>>
      BY <1>7 DEF Boot
    <3> QED
      BY <1>7, <3>1 DEF Boot, GateRestart
  <2> QED
    BY <2>1
<1>8. CASE RestoreJob \/ Serve \/ UNCHANGED vars
  <2>1. /\ UNCHANGED <<requestFile, readyFile, controller, watchId, operation, leases>>
        /\ up' # "down" <=> up # "down"
    BY <1>8 DEF RestoreJob, Serve, vars, gateVars
  <2> QED
    BY <2>1
<1> QED
  BY <1>2, <1>3, <1>4, <1>5, <1>6, <1>7, <1>8, Steps DEF Startup

LEMMA DrainedInvariant == Spec => []Drained
<1>1. Init => Drained
  BY DEF Init, GateInit, Drained
<1> QED
  BY <1>1, DrainedKept, TypedInvariant, PhasesInvariant, PTL DEF Spec

\* Whatever the clients, the cancellers, the watch, crashes and restarts do: no writer of the
\* backend is at work while the controller replaces its program and its data.
THEOREM MaintenanceIsAlone == Spec => []NothingWritesDuringMaintenance
<1>1. Typed /\ Leased /\ Drained => NothingWritesDuringMaintenance
  <2> SUFFICES ASSUME Typed, Leased, Drained, controller = "working"
               PROVE  /\ \A w \in Worker : worker[w] = Idle
                      /\ \A j \in Job : /\ request[j] \in {"idle", "accepted", "awaiting", "done"}
                                        /\ canceller[j] \in {"idle", "done"}
    BY DEF NothingWritesDuringMaintenance
  <2>1. leases = {}
    BY DEF Drained, Quiet
  <2>2. \A j \in Job : request[j] \notin Counted /\ ~ AtRun(j) /\ ~ Cancelling(j)
    BY <2>1 DEF Leased
  <2>3. QueueLockFree
    BY <2>2 DEF AtRun, Typed, Holding, QueueTypes
  <2>4. \A w \in Worker : worker[w].job = NoJob /\ worker[w].step = "idle"
    BY <2>2, <2>3 DEF AtRun, AtWork, QueueLockFree, Typed, Holding, WorkerTypes
  <2> QED
    BY <2>2, <2>4 DEF Idle, Counted, Cancelling, Typed, EntryTypes, WorkerTypes, RequestStep
<1> QED
  BY <1>1, TypedInvariant, LeasedInvariant, DrainedInvariant, PTL

\* A force request ends with its operation, and every running job has its callback at the
\* gate, so that a request made after the job was taken finds it, and one made before is
\* found by the job.
Forced ==
    /\ forceRequested => ~ GateOpen
    /\ \A j \in Job : AtWork(j) => Run(j) \in callbacks
    /\ forceRequested => \A j \in Job : AtWork(j) => Run(j) \in called \union dueCalls

LEMMA ForcedKept ==
    ASSUME Typed, Phases, Placed, Forced, [Next]_vars
    PROVE  Forced'
<1> USE DEF Forced, GateOpen, Typed
<1>1. ASSUME UNCHANGED <<operation, forceRequested>>, called \union dueCalls \subseteq called' \union dueCalls',
             \A j \in Job : AtWork(j)' => AtWork(j) /\ (Run(j) \in callbacks => Run(j) \in callbacks')
      PROVE  Forced'
  BY <1>1
<1>2. ASSUME NEW j \in Job, NEW t \in {Stage(j), Cancel(j)}, TryAdmit(t, FALSE), worker' = worker
      PROVE  Forced'
  BY <1>2 DEF TryAdmit, AtWork
<1>3. ASSUME NEW j \in Job, NEW t \in {Stage(j), Cancel(j)}, Finish(t), worker' = worker
      PROVE  Forced'
  <2>1. \A k \in Job : (AtWork(k)' <=> AtWork(k)) /\ Run(k) # t
    BY <1>3, Tokens DEF AtWork
  <2> QED
    BY <1>1, <1>3, <2>1 DEF Finish
<1>4. ASSUME UNCHANGED gateVars, \A k \in Job : AtWork(k)' => AtWork(k)
      PROVE  Forced'
  BY <1>1, <1>4 DEF gateVars
<1>5. CASE Clients
  <2>1. worker' = worker
    BY <1>5, ClientFrame
  <2>2. \/ UNCHANGED gateVars
        \/ \E j \in Job : TryAdmit(Stage(j), FALSE) \/ Finish(Stage(j))
    BY <1>5 DEF Clients, ClientStep, Admit, Reserve, StageForm, StageFails, Publish, Submit,
       SubmitFails, Respond
  <2> QED
    BY <1>2, <1>3, <1>4, <2>1, <2>2 DEF AtWork
<1>6. CASE Cancellers
  <2>1. worker' = worker
    BY <1>6, CancelFrame
  <2>2. \/ UNCHANGED gateVars
        \/ \E j \in Job : TryAdmit(Cancel(j), FALSE) \/ Finish(Cancel(j)) \/ RunCallback(Run(j))
    BY <1>6 DEF Cancellers, CancelStepOf, CancelAdmit, CancelMark, CancelInQueue, CancelEntry,
       CancelClean, CancelAnswer, ForcedCancel
  <2>3. ASSUME NEW j \in Job, RunCallback(Run(j))
        PROVE  Forced'
    <3>1. \A k \in Job : AtWork(k)' <=> AtWork(k)
      BY <2>1 DEF AtWork
    <3> QED
      BY <1>1, <2>3, <3>1 DEF RunCallback
  <2> QED
    BY <1>2, <1>3, <1>4, <2>1, <2>2, <2>3 DEF AtWork
<1>7. ASSUME NEW w \in Worker, WorkerStepOf(w)
      PROVE  Forced'
  <2>1. CASE WorkerAdmit(w)
    <3>1. \A k \in Job : AtWork(k)' <=> AtWork(k)
      BY <2>1, StaysAtWork, SameJobs DEF WorkerStays
    <3> QED
      BY <2>1, <3>1 DEF WorkerAdmit, TryAdmit
  <2>2. CASE Take(w)
    <3>1. SetCancelCallback(Run(Head(waiting)))
      BY <2>2 DEF Take
    <3>2. \A k \in Job : AtWork(k)' <=> AtWork(k) \/ k = Head(waiting)
      BY <2>2, Taken
    <3> QED
      BY <3>1, <3>2 DEF SetCancelCallback
  <2>3. CASE Start(w) \/ Execute(w) \/ End(w) \/ Complete(w)
    <3>1. UNCHANGED gateVars
      BY <2>3 DEF Start, Execute, End, Complete
    <3>2. \A k \in Job : AtWork(k)' <=> AtWork(k)
      BY <2>3, StaysAtWork, SameJobs DEF WorkerStays
    <3> QED
      BY <1>4, <3>1, <3>2
  <2>4. CASE Leave(w)
    <3> DEFINE j == worker[w].job
    <3>1. Finish(Run(j))
      BY <2>4 DEF Leave
    <3>2. j \in Job /\ \A k \in Job : AtWork(k)' <=> AtWork(k) /\ k # j
      BY <2>4, Left
    <3> HIDE DEF j
    <3>3. \A k \in Job : AtWork(k)' => AtWork(k) /\ Run(k) # Run(j)
      BY <3>2, Tokens
    <3> QED
      BY <1>1, <3>1, <3>3 DEF Finish
  <2> QED
    BY <1>7, <2>1, <2>2, <2>3, <2>4 DEF WorkerStepOf
<1>8. CASE Control
  <2>1. \A k \in Job : AtWork(k)' <=> AtWork(k)
    BY <1>8, ControlFrame DEF AtWork
  <2>2. \/ UNCHANGED gateVars \/ RequestForceCancel
        \/ \E o \in Operation : BeginMaintenance(o) \/ CompleteMaintenance(o)
    BY <1>8 DEF Control, RequestDrain, WatchStep, WatchBegin, WatchReady, WatchEnd, ForceDrain,
       ControllerWorks, ClearMaintenance, ControlTypes
  <2>3. CASE RequestForceCancel
    BY <2>1, <2>3 DEF RequestForceCancel
  <2>4. ASSUME NEW o \in Operation, BeginMaintenance(o) \/ CompleteMaintenance(o)
        PROVE  Forced'
    BY <2>1, <2>4 DEF BeginMaintenance, CompleteMaintenance
  <2> QED
    BY <1>4, <2>1, <2>2, <2>3, <2>4
<1>9. CASE Stop
  <2>1. \A k \in Job : ~ AtWork(k)'
    BY <1>9 DEF Stop, Idle, AtWork
  <2> QED
    BY <1>9, <2>1 DEF Stop, GateRestart
<1>10. CASE Boot
  <2>1. \A k \in Job : ~ AtWork(k)'
    BY <1>10 DEF Boot, Phases, Idle, AtWork
  <2> QED
    BY <1>10, <2>1 DEF Boot, GateRestart
<1>11. CASE RestoreJob \/ Serve \/ UNCHANGED vars
  <2>1. UNCHANGED gateVars /\ \A k \in Job : AtWork(k)' <=> AtWork(k)
    BY <1>11 DEF RestoreJob, Serve, vars, AtWork
  <2> QED
    BY <1>4, <2>1
<1> QED
  BY <1>5, <1>6, <1>7, <1>8, <1>9, <1>10, <1>11, Steps DEF Workers, Startup

LEMMA ForcedInvariant == Spec => []Forced
<1>1. Init => Forced
  BY DEF Init, GateInit, Idle, Forced, AtWork
<1> QED
  BY <1>1, ForcedKept, TypedInvariant, PhasesInvariant, PlacedInvariant, PTL DEF Spec

\* request_force_cancel and set_cancel_callback, whichever comes first, leave no running job
\* of the drain without its cancellation.
THEOREM ForceReachesJobs == Spec => []ForceReachesRunningJobs
<1>1. Typed /\ Forced => ForceReachesRunningJobs
  BY DEF Typed, WorkerTypes, Forced, AtWork, ForceReachesRunningJobs
<1> QED
  BY <1>1, ForcedInvariant, TypedInvariant, PTL

(* -------------------------- a job runs once ---------------------------- *)

\* A job that can still be begun has not been.  What makes it so: a job is taken with its form,
\* and then begun only after its form has stopped saying "queued", or it has lost the form
\* to its canceller, which has set its event before.
Begun ==
    /\ \A j \in Job :
         /\ execs[j] <= 1
         /\ request[j] \in Early \/ pending[j] = "queued" \/ InQueue(j) => execs[j] = 0
         /\ request[j] = "published" \/ InQueue(j) => j \in forms \union cancelEvents
         /\ canceller[j] = "removed" => j \in cancelEvents
    /\ \A w \in Worker :
         /\ worker[w].step \in {"taken", "started", "broken"} => execs[worker[w].job] = 0
         /\ worker[w].step = "taken" => worker[w].job \in forms \union cancelEvents
         /\ worker[w].step = "started" =>
              worker[w].job \in cancelEvents \/ pending[worker[w].job] # "queued"

LEMMA BegunKept ==
    ASSUME Typed, Phases, Placed, Begun, [Next]_vars
    PROVE  Begun'
<1> USE DEF Begun, Typed, EntryTypes, diskVars, entryVars, historyVars
<1>0. \A w \in Worker : worker[w].step \notin {"idle", "admitted"} =>
                          worker[w].job \in Job /\ AtWork(worker[w].job)
  BY DEF Holding, WorkerTypes, AtWork
<1>1. ASSUME NEW j \in Job, Admit(j) \/ Reserve(j) \/ StageForm(j) \/ StageFails(j) \/ Publish(j)
                             \/ SubmitFails(j) \/ Respond(j)
      PROVE  Begun'
  <2>1. UNCHANGED <<waiting, worker, execs, cancelEvents, canceller>>
    BY <1>1, ClientFrame DEF Clients, ClientStep, Admit, Reserve, StageForm, StageFails, Publish,
       SubmitFails, Respond, queueVars
  <2>2. \A k \in Job : pending'[k] = "queued" => pending[k] = "queued"
    BY <1>1 DEF Admit, Reserve, StageForm, StageFails, Publish, SubmitFails, Respond,
       CleanDirectory
  <2>3. \A k \in Job : request'[k] \in Early => request[k] \in Early
    BY <1>1 DEF Admit, Reserve, StageForm, StageFails, Publish, SubmitFails, Respond, RequestGoes,
                Early
  <2>4. \A k \in Job : request'[k] = "published" => k \in forms' \/ (request[k] = "published" /\ k # j)
    BY <1>1 DEF Admit, Reserve, StageForm, StageFails, Publish, SubmitFails, Respond, RequestGoes
  <2>5. forms \subseteq forms' \/ (forms' = forms \ {j} /\ request[j] \in Early)
    BY <1>1 DEF Admit, Reserve, StageForm, StageFails, Publish, SubmitFails, Respond, RequestGoes,
                Early
  <2>6. \A k \in Job : InQueue(k)' <=> InQueue(k)
    BY <2>1, SameJobs
  <2>7. \A k \in Job : InQueue(k) \/ AtWork(k) \/ k # j => (k \in forms => k \in forms')
    BY <2>5 DEF Placed
  <2> QED
    BY <1>0, <2>1, <2>2, <2>3, <2>4, <2>6, <2>7
<1>2. ASSUME NEW j \in Job, Submit(j)
      PROVE  Begun'
  <2>1. /\ request[j] = "published" /\ request' = [request EXCEPT ![j] = "accepted"]
        /\ waiting' = Append(waiting, j)
        /\ UNCHANGED <<worker, execs, forms, cancelEvents, canceller>>
        /\ \A k \in Job \ {j} : pending'[k] = pending[k]
    BY <1>2 DEF Submit, RequestGoes, MarkState
  <2>2. ~ InQueue(j) /\ ~ AtWork(j) /\ execs[j] = 0
    BY <2>1 DEF Placed, Early
  <2>3. \A k \in Job : InQueue(k)' <=> InQueue(k) \/ k = j
    BY <2>1, <2>2, Joins
  <2>4. \A k \in Job : request'[k] \in Early => request[k] \in Early
    BY <2>1 DEF Early
  <2> QED
    BY <1>0, <2>1, <2>2, <2>3, <2>4
<1>3. ASSUME NEW j \in Job, CancelInQueue(j)
      PROVE  Begun'
  <2>1. /\ UNCHANGED <<worker, request, pending, execs, forms>>
        /\ cancelEvents \subseteq cancelEvents'
        /\ \A k \in Job : canceller'[k] = "removed" => canceller[k] = "removed" \/ k \in cancelEvents'
    BY <1>3 DEF CancelInQueue, CancelGoes
  <2>2. \A k \in Job : InQueue(k)' => InQueue(k)
    <3>1. CASE waiting' = waiting
      BY <2>1, <3>1, SameJobs
    <3> QED
      BY <1>3, <2>1, <3>1, Removed DEF CancelInQueue, queueVars
  <2> QED
    BY <2>1, <2>2
<1>4. ASSUME NEW j \in Job, CancelAdmit(j) \/ CancelMark(j) \/ CancelEntry(j) \/ CancelClean(j)
                             \/ CancelAnswer(j) \/ ForcedCancel(j)
      PROVE  Begun'
  <2>1. UNCHANGED <<waiting, worker, request, execs, cancelEvents>>
    BY <1>4 DEF CancelAdmit, CancelMark, CancelEntry, CancelClean, CancelAnswer, ForcedCancel,
                queueVars
  <2>2. \A k \in Job : pending'[k] = "queued" => pending[k] = "queued"
    BY <1>4 DEF CancelAdmit, CancelMark, CancelEntry, CancelClean, CancelAnswer, ForcedCancel,
                MarkState, CleanDirectory
  <2>3. \A k \in Job : canceller'[k] = "removed" => canceller[k] = "removed"
    BY <1>4 DEF CancelAdmit, CancelMark, CancelEntry, CancelClean, CancelAnswer, ForcedCancel,
                CancelGoes
  <2>4. forms' = forms \/ (forms' = forms \ {j} /\ j \in cancelEvents)
    BY <1>4 DEF CancelAdmit, CancelMark, CancelEntry, CancelClean, CancelAnswer, ForcedCancel,
                CancelGoes
  <2>5. \A k \in Job : InQueue(k)' <=> InQueue(k)
    BY <2>1, SameJobs
  <2> QED
    BY <1>0, <2>1, <2>2, <2>3, <2>4, <2>5
<1>5. ASSUME NEW w \in Worker, WorkerStays(w)
      PROVE  Begun'
  <2> DEFINE j == worker[w].job
  <2>1. UNCHANGED <<waiting, request, cancelEvents, canceller>>
    BY <1>5, StaysAtWork, WorkerFrame DEF WorkerStays, Workers, WorkerStepOf
  <2>2. /\ \A v \in Worker : worker'[v].job = worker[v].job
        /\ \A k \in Job : (InQueue(k)' <=> InQueue(k)) /\ (AtWork(k)' <=> AtWork(k))
    BY <1>5, <2>1, StaysAtWork, SameJobs
  <2>3. \A v \in Worker \ {w} : worker'[v] = worker[v]
    BY <1>5 DEF WorkerStays, WorkerAdmit, Start, Execute, End, Complete, WorkerGoes, WorkerTypes
  <2>4. \A k \in Job : pending'[k] = "queued" => pending[k] = "queued"
    <3>1. \E to \in {pending[j], "none", "running"} :
            pending' \in {pending, [pending EXCEPT ![j] = to]}
      BY <1>5 DEF WorkerStays, WorkerAdmit, Start, Execute, End, Complete, MarkState,
         CleanDirectory
    <3> QED
      BY <3>1
  <2>5. \A v \in Worker \ {w} : worker[v].job # NoJob => worker[v].job # j
    BY DEF Placed
  <2>6. CASE WorkerAdmit(w) \/ Complete(w)
    <3>1. /\ UNCHANGED <<execs, forms, pending>>
          /\ \E to \in {"admitted", "leaving"} : worker' = [worker EXCEPT ![w].step = to]
      BY <2>6 DEF WorkerAdmit, Complete, WorkerGoes
    <3>2. worker'[w].step \in {"admitted", "leaving"}
      BY <3>1 DEF WorkerTypes
    <3> QED
      BY <2>1, <2>2, <2>3, <3>1, <3>2
  <2>7. CASE Start(w)
    <3>1. /\ UNCHANGED <<execs, forms>> /\ worker[w].step = "taken"
          /\ worker'[w].step \in {"started", "broken"}
          /\ worker'[w].step = "started" /\ j \in forms => pending'[j] # "queued"
      <4>1. j \in Job
        BY <1>0, <2>7 DEF Start
      <4> QED
        BY <2>7, <4>1 DEF Start, WorkerGoes, MarkState, WorkerTypes
    <3> QED
      BY <1>0, <2>1, <2>2, <2>3, <2>4, <3>1
  <2>8. CASE Execute(w)
    <3>1. /\ UNCHANGED <<forms, pending>> /\ worker[w].step = "started" /\ j \notin cancelEvents
          /\ worker'[w].step = "executing" /\ execs' = [execs EXCEPT ![j] = @ + 1]
      BY <2>8 DEF Execute, WorkerGoes, CancelIsSet, WorkerTypes
    <3>2. j \in Job /\ AtWork(j) /\ execs[j] = 0 /\ pending[j] # "queued"
      BY <1>0, <3>1
    <3>3. request[j] \notin Early /\ ~ InQueue(j)
      BY <3>2 DEF Placed
    <3>4. execs'[j] = 1 /\ \A k \in Job \ {j} : execs'[k] = execs[k]
      BY <3>1, <3>2
    <3>5. \A v \in Worker \ {w} : worker[v].step \in {"taken", "started", "broken"} =>
                                    worker[v].job \in Job \ {j}
      BY <1>0, <2>5
    <3> HIDE DEF j
    <3>7. \A k \in Job :
            /\ execs'[k] <= 1
            /\ request'[k] \in Early \/ pending'[k] = "queued" \/ InQueue(k)' => execs'[k] = 0
            /\ request'[k] = "published" \/ InQueue(k)' => k \in forms' \union cancelEvents'
            /\ canceller'[k] = "removed" => k \in cancelEvents'
      BY <2>1, <2>2, <3>1, <3>2, <3>3, <3>4
    <3>8. \A v \in Worker \ {w} :
            /\ worker'[v].step \in {"taken", "started", "broken"} => execs'[worker'[v].job] = 0
            /\ worker'[v].step = "taken" => worker'[v].job \in forms' \union cancelEvents'
            /\ worker'[v].step = "started" =>
                 worker'[v].job \in cancelEvents' \/ pending'[worker'[v].job] # "queued"
      BY <2>1, <2>3, <3>1, <3>4, <3>5
    <3> QED
      BY <3>1, <3>7, <3>8
  <2>9. CASE End(w)
    <3>1. /\ execs' = execs /\ forms' = forms \ {j} /\ worker'[w].step = "ended"
          /\ worker[w].step \notin {"idle", "admitted"}
      BY <2>9 DEF End, WorkerGoes, Outcome, WorkerTypes
    <3>2. j \in Job /\ request[j] # "published" /\ ~ InQueue(j)
      BY <1>0, <3>1 DEF Placed, Early
    <3>3. \A v \in Worker \ {w} : worker[v].step = "taken" => worker[v].job # j
      BY <1>0, <2>5
    <3> HIDE DEF j
    <3> QED
      BY <1>0, <2>1, <2>2, <2>3, <2>4, <3>1, <3>2, <3>3
  <2> QED
    BY <1>5, <2>6, <2>7, <2>8, <2>9 DEF WorkerStays
<1>6. ASSUME NEW w \in Worker, Take(w)
      PROVE  Begun'
  <2> DEFINE j == Head(waiting)
  <2>1. /\ UNCHANGED <<request, pending, execs, forms, cancelEvents, canceller>>
        /\ worker' = [worker EXCEPT ![w] = [step |-> "taken", job |-> j]]
    BY <1>6, WorkerFrame DEF Take, Workers, WorkerStepOf
  <2>2. j \in Job /\ InQueue(j) /\ \A k \in Job : InQueue(k)' => InQueue(k)
    BY <1>6, Taken
  <2> QED
    BY <2>1, <2>2 DEF WorkerTypes
<1>7. ASSUME NEW w \in Worker, Leave(w)
      PROVE  Begun'
  <2>1. /\ UNCHANGED <<request, pending, execs, forms, cancelEvents, canceller>>
        /\ worker' = [worker EXCEPT ![w] = Idle]
    BY <1>7, WorkerFrame DEF Leave, Workers, WorkerStepOf
  <2>2. \A k \in Job : InQueue(k)' <=> InQueue(k)
    BY <1>7, Left
  <2> QED
    BY <2>1, <2>2 DEF WorkerTypes, Idle
<1>8. CASE Stop
  <2>1. /\ waiting' = <<>> /\ UNCHANGED <<pending, execs>>
        /\ \A v \in Worker : worker'[v] = Idle
        /\ \A k \in Job : /\ request'[k] \in Early => request[k] \in Early
                          /\ request'[k] # "published" /\ canceller'[k] # "removed"
    BY <1>8 DEF Stop, Early
  <2>2. \A k \in Job : ~ InQueue(k)'
    BY <2>1 DEF InQueue
  <2> QED
    BY <2>1, <2>2 DEF Idle
<1>9. CASE RestoreJob
  <2> DEFINE j == Head(toRestore)
  <2>1. UNCHANGED <<request, pending, execs, cancelEvents, canceller, worker>> /\ forms \subseteq forms'
    BY <1>9, StartupFrame DEF RestoreJob, Startup
  <2>2. j \in Job /\ toRestore # <<>> /\ toRestore \in Seq(Job) /\ Once(toRestore)
    BY <1>9 DEF RestoreJob, QueueTypes, Placed
  <2>3. execs[j] = 0 /\ ~ InQueue(j)
    <3>1. Within(toRestore, j)
      BY <2>2, OnceTail
    <3> QED
      BY <2>2, <3>1 DEF Placed
  <2>4. CASE waiting' = waiting
    <3>1. \A k \in Job : InQueue(k)' <=> InQueue(k)
      BY <2>1, <2>4, SameJobs
    <3> QED
      BY <2>1, <3>1
  <2>5. CASE waiting' = Append(waiting, j) /\ j \in forms'
    <3> HIDE DEF j
    <3>1. \A k \in Job : InQueue(k)' <=> InQueue(k) \/ k = j
      BY <2>1, <2>2, <2>3, <2>5, Joins
    <3> QED
      BY <2>1, <2>3, <2>5, <3>1
  <2> QED
    BY <1>9, <2>4, <2>5 DEF RestoreJob, queueVars
<1>10. CASE Control \/ Boot \/ Serve \/ UNCHANGED vars
  <2>1. UNCHANGED <<waiting, request, pending, execs, forms, cancelEvents, canceller, worker>>
    BY <1>10, ControlFrame DEF Boot, Serve, vars, queueVars
  <2>2. \A k \in Job : InQueue(k)' <=> InQueue(k)
    BY <2>1, SameJobs
  <2> QED
    BY <2>1, <2>2
<1> QED
  BY <1>1, <1>2, <1>3, <1>4, <1>5, <1>6, <1>7, <1>8, <1>9, <1>10, Steps
     DEF Clients, ClientStep, Cancellers, CancelStepOf, Workers, WorkerStepOf, WorkerStays, Startup

LEMMA BegunInvariant == Spec => []Begun
<1>1. Init => Begun
  BY DEF Init, Idle, Begun, InQueue
<1> QED
  BY <1>1, BegunKept, TypedInvariant, PhasesInvariant, PlacedInvariant, PTL DEF Spec

\* load_pending, mark_started and the cancel event keep their promise for every number of
\* restarts, also where rmtree fails and a form stays on disk.
THEOREM BegunAtMostOnce == Spec => []RunAtMostOnce
<1>1. Begun => RunAtMostOnce
  BY DEF Begun, RunAtMostOnce
<1> QED
  BY <1>1, BegunInvariant, PTL

(* ------------------- waiting jobs, and cancelled ones ------------------ *)

\* A waiting job keeps its form on disk.  It rests on what the canceller may assume: its mark is
\* made on an entry that says "queued", and after the queue has answered it the job
\* neither waits nor will be submitted.
Durable ==
    \A j \in Job :
      /\ InQueue(j) => /\ pending[j] = "queued" \/ canceller[j] = "marked"
                       /\ status[j] = "queued"
      /\ request[j] \in {"staged", "published"} => pending[j] # "none"
      /\ request[j] = "published" => status[j] = "queued"
      /\ canceller[j] \in {"removed", "finished", "withdrawn"} => ~ InQueue(j) /\ request[j] \notin Early

LEMMA DurableKept ==
    ASSUME Typed, Phases, Placed, Durable, [Next]_vars
    PROVE  Durable'
<1> USE DEF Durable, Typed, EntryTypes, diskVars, entryVars, historyVars, queueVars
<1>0. \A w \in Worker : worker[w].step \notin {"idle", "admitted"} =>
                          worker[w].job \in Job /\ AtWork(worker[w].job)
  BY DEF Holding, WorkerTypes, AtWork
<1>1. ASSUME NEW j \in Job, Admit(j) \/ Reserve(j) \/ StageForm(j) \/ StageFails(j) \/ Publish(j)
                             \/ SubmitFails(j) \/ Respond(j)
      PROVE  Durable'
  <2>1. UNCHANGED <<waiting, worker, canceller>>
    BY <1>1, ClientFrame DEF Clients, ClientStep, Admit, Reserve, StageForm, StageFails, Publish,
       SubmitFails, Respond
  <2>2. \A k \in Job : InQueue(k)' <=> InQueue(k)
    BY <2>1, SameJobs
  <2>3. /\ \A k \in Job \ {j} : /\ request'[k] = request[k] /\ pending'[k] = pending[k]
                                /\ status'[k] = status[k]
        /\ request'[j] \in Early => request[j] \in Early
        /\ request[j] \in Early \/ (pending'[j] = pending[j] /\ status'[j] = status[j])
    BY <1>1 DEF Admit, Reserve, StageForm, StageFails, Publish, SubmitFails, Respond, RequestGoes,
                CleanDirectory, Early
  <2>4. /\ request'[j] \in {"staged", "published"} => pending'[j] # "none"
        /\ request'[j] = "published" => status'[j] = "queued"
    BY <1>1 DEF Admit, Reserve, StageForm, StageFails, Publish, SubmitFails, Respond, RequestGoes
  <2>5. request[j] \in Early => ~ InQueue(j)
    BY DEF Placed
  <2> QED
    BY <2>1, <2>2, <2>3, <2>4, <2>5
<1>2. ASSUME NEW j \in Job, Submit(j)
      PROVE  Durable'
  <2>1. /\ request[j] = "published" /\ request' = [request EXCEPT ![j] = "accepted"]
        /\ waiting' = Append(waiting, j)
        /\ UNCHANGED <<worker, status, canceller>>
        /\ pending' = [pending EXCEPT ![j] = IF @ = "none" THEN @ ELSE "queued"]
    BY <1>2 DEF Submit, RequestGoes, MarkState
  <2>2. ~ InQueue(j) /\ request[j] \in Early /\ pending'[j] = "queued"
    BY <2>1 DEF Placed, Early
  <2>3. \A k \in Job : InQueue(k)' <=> InQueue(k) \/ k = j
    BY <2>1, <2>2, Joins
  <2> QED
    BY <2>1, <2>2, <2>3 DEF Early
<1>3. ASSUME NEW j \in Job, CancelInQueue(j)
      PROVE  Durable'
  <2>1. /\ UNCHANGED <<worker, request, pending, status>>
        /\ \E to \in {"removed", "leaving"} : canceller' = [canceller EXCEPT ![j] = to]
        /\ InQueue(j) \/ AtWork(j) \/ canceller'[j] = "leaving"
    BY <1>3 DEF CancelInQueue, CancelGoes
  <2>2. CASE waiting' = waiting /\ ~ InQueue(j)
    <3>1. \A k \in Job : InQueue(k)' <=> InQueue(k)
      BY <2>1, <2>2, SameJobs
    <3>2. AtWork(j) => request[j] \notin Early
      BY DEF Placed
    <3> QED
      BY <2>1, <2>2, <3>1, <3>2
  <2>3. ASSUME InQueue(j), NEW i \in DOMAIN waiting, waiting[i] = j, waiting' = RemoveAt(waiting, i)
        PROVE  Durable'
    <3>1. \A k \in Job : InQueue(k)' <=> InQueue(k) /\ k # j
      BY <2>1, <2>3, Removed
    <3>2. request[j] \notin Early
      BY <2>3 DEF Placed
    <3> QED
      BY <2>1, <3>1, <3>2
  <2>4. AtWork(j) => ~ InQueue(j)
    BY DEF Placed
  <2> QED
    BY <1>3, <2>2, <2>3, <2>4 DEF CancelInQueue
<1>4. ASSUME NEW j \in Job, CancelAdmit(j) \/ CancelMark(j) \/ CancelEntry(j) \/ CancelClean(j)
                             \/ CancelAnswer(j) \/ ForcedCancel(j)
      PROVE  Durable'
  <2>1. UNCHANGED <<waiting, worker, request>>
    BY <1>4 DEF CancelAdmit, CancelMark, CancelEntry, CancelClean, CancelAnswer, ForcedCancel
  <2>2. \A k \in Job : InQueue(k)' <=> InQueue(k)
    BY <2>1, SameJobs
  <2>3. CASE CancelMark(j)
    <3>1. /\ status' = status /\ \E to \in {"marked", "leaving"} : canceller' = [canceller EXCEPT ![j] = to]
          /\ \/ pending' = pending
             \/ pending' = [pending EXCEPT ![j] = IF @ = "none" THEN @ ELSE "cancelled"]
          /\ status[j] = "queued" => canceller'[j] = "marked"
          /\ canceller[j] = "admitted"
      BY <2>3 DEF CancelMark, CancelGoes, MarkState
    <3> QED
      BY <2>1, <2>2, <3>1
  <2>4. CASE CancelEntry(j)
    <3>1. /\ pending' = pending /\ status' \in {status, [status EXCEPT ![j] = "cancelled"]}
          /\ \/ status[j] = "queued" /\ canceller' = [canceller EXCEPT ![j] = "finished"]
             \/ canceller' = [canceller EXCEPT ![j] = "leaving"]
          /\ canceller[j] = "removed"
      BY <2>4 DEF CancelEntry, CancelGoes
    <3> QED
      BY <2>1, <2>2, <3>1 DEF Early
  <2>5. CASE CancelClean(j)
    <3>1. /\ status' = status /\ canceller[j] = "finished"
          /\ canceller' = [canceller EXCEPT ![j] = "withdrawn"]
          /\ \A k \in Job \ {j} : pending'[k] = pending[k]
      BY <2>5 DEF CancelClean, CancelGoes, CleanDirectory
    <3> QED
      BY <2>1, <2>2, <3>1 DEF Early
  <2>6. CASE CancelAdmit(j) \/ CancelAnswer(j) \/ ForcedCancel(j)
    <3>1. /\ UNCHANGED <<status, pending>>
          /\ \/ canceller' = canceller
             \/ /\ canceller[j] # "marked"
                /\ \E to \in {"admitted", "done", "idle"} : canceller' = [canceller EXCEPT ![j] = to]
      BY <2>6 DEF CancelAdmit, CancelAnswer, ForcedCancel, CancelGoes
    <3> QED
      BY <2>1, <2>2, <3>1
  <2> QED
    BY <1>4, <2>3, <2>4, <2>5, <2>6
<1>5. ASSUME NEW w \in Worker, WorkerStays(w)
      PROVE  Durable'
  <2> DEFINE j == worker[w].job
  <2>1. UNCHANGED <<waiting, request, canceller>>
    BY <1>5, StaysAtWork, WorkerFrame DEF WorkerStays, Workers, WorkerStepOf
  <2>2. \A k \in Job : InQueue(k)' <=> InQueue(k)
    BY <1>5, StaysAtWork, SameJobs
  <2>3. CASE UNCHANGED <<pending, status>>
    BY <2>1, <2>2, <2>3
  <2>4. CASE Start(w) \/ End(w)
    <3>1. /\ \E to \in PendingState : pending' \in {pending, [pending EXCEPT ![j] = to]}
          /\ \E to \in Status : status' = [status EXCEPT ![j] = to]
          /\ worker[w].step \notin {"idle", "admitted"}
      BY <2>4 DEF Start, End, MarkState, CleanDirectory, PendingState, Status, Outcome
    <3>2. j \in Job /\ ~ InQueue(j) /\ request[j] \notin Early
      BY <1>0, <3>1 DEF Placed
    <3> HIDE DEF j
    <3> QED
      BY <2>1, <2>2, <3>1, <3>2 DEF Early
  <2> QED
    BY <1>5, <2>3, <2>4 DEF WorkerStays, WorkerAdmit, Execute, Complete
<1>6. ASSUME NEW w \in Worker, Take(w) \/ Leave(w)
      PROVE  Durable'
  <2>1. UNCHANGED <<request, pending, status, canceller>>
    BY <1>6, WorkerFrame DEF Take, Leave, Workers, WorkerStepOf
  <2>2. \A k \in Job : InQueue(k)' => InQueue(k)
    BY <1>6, Taken, Left
  <2> QED
    BY <2>1, <2>2
<1>7. CASE Stop
  <2>1. /\ waiting' = <<>>
        /\ \A k \in Job : request'[k] \in {"idle", "done"} /\ canceller'[k] \in {"idle", "done"}
    BY <1>7 DEF Stop
  <2>2. \A k \in Job : ~ InQueue(k)'
    BY <2>1 DEF InQueue
  <2> QED
    BY <2>1, <2>2
<1>8. CASE RestoreJob
  <2> DEFINE j == Head(toRestore)
  <2>1. /\ UNCHANGED <<request, pending, canceller, worker>>
        /\ \A k \in Job : request[k] \in {"idle", "done"} /\ canceller[k] \in {"idle", "done"}
    BY <1>8, StartupFrame DEF RestoreJob, Startup, Phases
  <2>2. j \in Job /\ toRestore # <<>> /\ toRestore \in Seq(Job) /\ Once(toRestore)
    BY <1>8 DEF RestoreJob, QueueTypes, Placed
  <2>3. pending[j] = "queued" /\ ~ InQueue(j)
    <3>1. Within(toRestore, j)
      BY <2>2, OnceTail
    <3> QED
      BY <2>2, <3>1 DEF Placed
  <2>4. CASE UNCHANGED <<waiting, status>>
    <3>1. \A k \in Job : InQueue(k)' <=> InQueue(k)
      BY <2>1, <2>4, SameJobs
    <3> QED
      BY <2>1, <2>4, <3>1
  <2>5. CASE waiting' = Append(waiting, j) /\ status' = [status EXCEPT ![j] = "queued"]
    <3> HIDE DEF j
    <3>1. \A k \in Job : InQueue(k)' <=> InQueue(k) \/ k = j
      BY <2>1, <2>2, <2>3, <2>5, Joins
    <3> QED
      BY <2>1, <2>2, <2>3, <2>5, <3>1
  <2> QED
    BY <1>8, <2>4, <2>5 DEF RestoreJob
<1>9. CASE Control \/ Boot \/ Serve \/ UNCHANGED vars
  <2>1. UNCHANGED <<waiting, request, pending, status, canceller, worker>>
    BY <1>9, ControlFrame DEF Boot, Serve, vars
  <2>2. \A k \in Job : InQueue(k)' <=> InQueue(k)
    BY <2>1, SameJobs
  <2> QED
    BY <2>1, <2>2
<1> QED
  BY <1>1, <1>2, <1>3, <1>4, <1>5, <1>6, <1>7, <1>8, <1>9, Steps
     DEF Clients, ClientStep, Cancellers, CancelStepOf, Workers, WorkerStepOf, WorkerStays, Startup

LEMMA DurableInvariant == Spec => []Durable
<1>1. Init => Durable
  BY DEF Init, Durable, InQueue
<1> QED
  BY <1>1, DurableKept, TypedInvariant, PhasesInvariant, PlacedInvariant, PTL DEF Spec

\* At every moment a crash loses no waiting job: on_submit, load_pending, cancellation and the
\* clean-up of a directory never leave a job in the queue without its queued form.
THEOREM WaitingIsDurable == Spec => []WaitingJobsAreDurable
<1>1. Durable => WaitingJobsAreDurable
  BY DEF Durable, WaitingJobsAreDurable
<1> QED
  BY <1>1, DurableInvariant, PTL

\* A job found "queued" by its canceller has not begun, and cannot begin any more: in this
\* process its event is set, and after a restart its form is gone.
Withdrawn ==
    /\ \A j \in Job :
         /\ status[j] = "queued" => execs[j] = 0
         /\ canceller[j] \in {"finished", "withdrawn"} => execs[j] = 0 /\ j \in cancelEvents
         /\ canceller[j] = "withdrawn" => pending[j] = "none"
         /\ j \in withdrawn => /\ execs[j] = 0 /\ pending[j] = "none"
                               /\ request[j] \notin Early /\ ~ InQueue(j)
                               /\ AtWork(j) => j \in cancelEvents
    /\ \A w \in Worker : worker[w].job # NoJob /\ status[worker[w].job] = "queued" =>
                           worker[w].step = "taken"

LEMMA WithdrawnKept ==
    ASSUME ~ CleanupMayFail, Typed, Phases, Placed, Begun, Durable, Withdrawn, [Next]_vars
    PROVE  Withdrawn'
<1> USE DEF Withdrawn, Typed, EntryTypes, diskVars, entryVars, historyVars, queueVars
<1>0. \A w \in Worker : worker[w].job # NoJob => worker[w].job \in Job /\ AtWork(worker[w].job)
  BY DEF WorkerTypes, AtWork
<1>1. ASSUME NEW j \in Job, Admit(j) \/ ClientStep(j)
      PROVE  Withdrawn'
  <2>1. UNCHANGED <<worker, execs, withdrawn, cancelEvents, canceller>>
    BY <1>1, ClientFrame DEF Clients
  <2>2. /\ \A k \in Job \ {j} : /\ request'[k] = request[k] /\ pending'[k] = pending[k]
                                /\ status'[k] = status[k]
        /\ request'[j] \in Early => request[j] \in Early
        /\ request[j] \in Early \/ (pending'[j] = pending[j] /\ status'[j] = status[j])
    BY <1>1 DEF ClientStep, Admit, Reserve, StageForm, StageFails, Publish, Submit, SubmitFails,
       Respond, RequestGoes, MarkState, CleanDirectory, Early
  <2>3. \A k \in Job : AtWork(k)' <=> AtWork(k)
    BY <2>1 DEF AtWork
  <2>4. request[j] \in Early => execs[j] = 0 /\ ~ InQueue(j) /\ ~ AtWork(j)
    BY DEF Placed, Begun
  <2>5. \A k \in Job : InQueue(k)' => InQueue(k) \/ (k = j /\ request[j] \in Early)
    <3>1. CASE waiting' = waiting
      BY <2>1, <3>1, SameJobs
    <3>2. CASE Submit(j)
      <4>1. request[j] \in Early /\ waiting' = Append(waiting, j)
        BY <3>2 DEF Submit, RequestGoes, Early
      <4> QED
        BY <2>1, <2>4, <4>1, Joins
    <3> QED
      BY <1>1, <3>1, <3>2 DEF ClientStep, Admit, Reserve, StageForm, StageFails, Publish,
         SubmitFails, Respond
  <2>6. canceller[j] = "withdrawn" => request[j] \notin Early
    BY DEF Durable
  <2>7. \A v \in Worker : worker[v].job # NoJob /\ status'[worker[v].job] = "queued" =>
                            status[worker[v].job] = "queued"
    BY <1>0, <2>2, <2>4
  <2> QED
    BY <2>1, <2>2, <2>3, <2>4, <2>5, <2>6, <2>7
<1>2. ASSUME NEW j \in Job, CancelInQueue(j)
      PROVE  Withdrawn'
  <2>1. /\ UNCHANGED <<worker, request, pending, status, execs, withdrawn>>
        /\ cancelEvents \subseteq cancelEvents'
        /\ \E to \in {"removed", "leaving"} : canceller' = [canceller EXCEPT ![j] = to]
    BY <1>2 DEF CancelInQueue, CancelGoes
  <2>2. \A k \in Job : (InQueue(k)' => InQueue(k)) /\ (AtWork(k)' <=> AtWork(k))
    <3>1. CASE waiting' = waiting
      BY <2>1, <3>1, SameJobs
    <3> QED
      BY <1>2, <2>1, <3>1, Removed DEF CancelInQueue
  <2> QED
    BY <2>1, <2>2
<1>3. ASSUME NEW j \in Job, CancelAdmit(j) \/ CancelMark(j) \/ CancelEntry(j) \/ CancelClean(j)
                             \/ CancelAnswer(j) \/ ForcedCancel(j)
      PROVE  Withdrawn'
  <2>1. UNCHANGED <<waiting, worker, request, execs, cancelEvents>>
    BY <1>3 DEF CancelAdmit, CancelMark, CancelEntry, CancelClean, CancelAnswer, ForcedCancel
  <2>2. \A k \in Job : (InQueue(k)' <=> InQueue(k)) /\ (AtWork(k)' <=> AtWork(k))
    BY <2>1, SameJobs
  <2>3. \A k \in Job : pending[k] = "none" => pending'[k] = "none"
    BY <1>3 DEF CancelAdmit, CancelMark, CancelEntry, CancelClean, CancelAnswer, ForcedCancel,
                MarkState, CleanDirectory
  <2>4. status' \in {status, [status EXCEPT ![j] = "cancelled"]}
    BY <1>3 DEF CancelAdmit, CancelMark, CancelEntry, CancelClean, CancelAnswer, ForcedCancel
  <2>5. \A v \in Worker : worker[v].job # NoJob /\ status'[worker[v].job] = "queued" =>
                            status[worker[v].job] = "queued"
    BY <1>0, <2>4
  <2>6. CASE canceller'[j] \notin {"finished", "withdrawn"} /\ withdrawn' = withdrawn
    <3>1. \A k \in Job \ {j} : canceller'[k] = canceller[k]
      BY <1>3 DEF CancelAdmit, CancelMark, CancelEntry, CancelClean, CancelAnswer, ForcedCancel,
                  CancelGoes
    <3> QED
      BY <2>1, <2>2, <2>3, <2>4, <2>5, <2>6, <3>1
  <2>7. CASE CancelEntry(j) /\ canceller'[j] = "finished"
    <3>1. /\ canceller[j] = "removed" /\ status[j] = "queued" /\ withdrawn' = withdrawn
          /\ canceller' = [canceller EXCEPT ![j] = "finished"]
      BY <2>7 DEF CancelEntry, CancelGoes
    <3>2. j \in cancelEvents /\ execs[j] = 0
      BY <3>1 DEF Begun
    <3> QED
      BY <2>1, <2>2, <2>3, <2>4, <2>5, <3>1, <3>2
  <2>8. CASE CancelClean(j)
    <3>1. /\ canceller[j] = "finished" /\ canceller' = [canceller EXCEPT ![j] = "withdrawn"]
          /\ pending' = [pending EXCEPT ![j] = "none"] /\ withdrawn' = withdrawn
      BY <2>8 DEF CancelClean, CancelGoes, CleanDirectory
    <3> QED
      BY <2>1, <2>2, <2>3, <2>4, <2>5, <3>1
  <2>9. CASE CancelAnswer(j) /\ canceller[j] = "withdrawn"
    <3>1. /\ canceller' = [canceller EXCEPT ![j] = "done"] /\ withdrawn' = withdrawn \union {j}
          /\ pending' = pending
      BY <2>9 DEF CancelAnswer, CancelGoes
    <3>2. request[j] \notin Early /\ ~ InQueue(j)
      BY <2>9 DEF Durable
    <3> QED
      BY <2>1, <2>2, <2>4, <2>5, <2>9, <3>1, <3>2
  <2>10. CASE ForcedCancel(j)
    <3>1. UNCHANGED <<pending, status, canceller, withdrawn>>
      BY <2>10 DEF ForcedCancel
    <3> QED
      BY <2>1, <2>2, <3>1
  <2> QED
    BY <1>3, <2>6, <2>7, <2>8, <2>9, <2>10 DEF CancelAdmit, CancelMark, CancelEntry, CancelAnswer,
       CancelGoes
<1>4. ASSUME NEW w \in Worker, WorkerStays(w)
      PROVE  Withdrawn'
  <2> DEFINE j == worker[w].job
  <2>1. UNCHANGED <<waiting, request, cancelEvents, canceller, withdrawn>>
    BY <1>4, StaysAtWork, WorkerFrame DEF WorkerStays, Workers, WorkerStepOf
  <2>2. /\ \A v \in Worker : worker'[v].job = worker[v].job
        /\ \A k \in Job : (InQueue(k)' <=> InQueue(k)) /\ (AtWork(k)' <=> AtWork(k))
    BY <1>4, <2>1, StaysAtWork, SameJobs
  <2>3. \A v \in Worker \ {w} : worker'[v] = worker[v]
    BY <1>4 DEF WorkerStays, WorkerAdmit, Start, Execute, End, Complete, WorkerGoes, WorkerTypes
  <2>4. \A k \in Job : pending[k] = "none" => pending'[k] = "none"
    <3>1. \E to \in {"none", "running"} :
            \/ pending' \in {pending, [pending EXCEPT ![j] = "none"]}
            \/ pending' = [pending EXCEPT ![j] = IF @ = "none" THEN @ ELSE to]
      BY <1>4 DEF WorkerStays, WorkerAdmit, Start, Execute, End, Complete, MarkState,
         CleanDirectory
    <3> QED
      BY <3>1
  <2>5. CASE WorkerAdmit(w) \/ Complete(w)
    <3>1. /\ UNCHANGED <<execs, status, pending>>
          /\ WorkerAdmit(w) => worker[w].step = "idle"
          /\ Complete(w) => worker[w].step = "ended"
      BY <2>5 DEF WorkerAdmit, Complete, WorkerGoes
    <3>2. j # NoJob => status[j] # "queued"
      BY <2>5, <3>1 DEF Holding
    <3> HIDE DEF j
    <3>3. \A v \in Worker : worker'[v].job # NoJob /\ status'[worker'[v].job] = "queued" =>
                              worker'[v].step = "taken"
      BY <2>2, <2>3, <3>1, <3>2 DEF j
    <3> QED
      BY <2>1, <2>2, <3>1, <3>3
  <2>6. CASE Start(w) \/ End(w)
    <3>1. /\ execs' = execs /\ worker[w].step \notin {"idle", "admitted"}
          /\ \E to \in {"running", "cancelled", "failed", "completed"} :
               status' = [status EXCEPT ![j] = to]
      BY <2>6 DEF Start, End, Outcome
    <3>2. j \in Job
      BY <1>0, <3>1 DEF Holding
    <3> HIDE DEF j
    <3>3. \A k \in Job : status'[k] = "queued" => status[k] = "queued" /\ k # j
      BY <3>1, <3>2
    <3>4. \A v \in Worker : worker'[v].job # NoJob /\ status'[worker'[v].job] = "queued" =>
                              worker'[v].step = "taken"
      BY <1>0, <2>2, <2>3, <3>3 DEF j
    <3> QED
      BY <2>1, <2>2, <2>4, <3>1, <3>3, <3>4
  <2>7. CASE Execute(w)
    <3>1. /\ UNCHANGED <<status, pending>> /\ worker[w].step = "started" /\ j \notin cancelEvents
          /\ execs' = [execs EXCEPT ![j] = @ + 1]
      BY <2>7 DEF Execute, WorkerGoes, CancelIsSet
    <3>2. j \in Job /\ AtWork(j) /\ status[j] # "queued" /\ j \notin withdrawn
      BY <1>0, <3>1 DEF Holding
    <3>3. \A k \in Job \ {j} : execs'[k] = execs[k]
      BY <3>1
    <3> HIDE DEF j
    <3>4. \A v \in Worker : worker'[v].job # NoJob /\ status'[worker'[v].job] = "queued" =>
                              worker'[v].step = "taken"
      BY <2>2, <2>3, <3>1, <3>2 DEF j
    <3> QED
      BY <2>1, <2>2, <3>1, <3>2, <3>3, <3>4
  <2> QED
    BY <1>4, <2>5, <2>6, <2>7 DEF WorkerStays
<1>5. ASSUME NEW w \in Worker, Take(w)
      PROVE  Withdrawn'
  <2> DEFINE j == Head(waiting)
  <2>1. /\ UNCHANGED <<request, pending, status, execs, withdrawn, cancelEvents, canceller>>
        /\ worker' = [worker EXCEPT ![w] = [step |-> "taken", job |-> j]]
    BY <1>5, WorkerFrame DEF Take, Workers, WorkerStepOf
  <2>2. /\ j \in Job /\ InQueue(j)
        /\ \A k \in Job : (InQueue(k)' => InQueue(k)) /\ (AtWork(k)' <=> AtWork(k) \/ k = j)
    BY <1>5, Taken
  <2>3. \A v \in Worker : worker'[v].job # NoJob /\ status'[worker'[v].job] = "queued" =>
                            worker'[v].step = "taken"
    BY <2>1 DEF WorkerTypes
  <2> HIDE DEF j
  <2> QED
    BY <2>1, <2>2, <2>3
<1>6. ASSUME NEW w \in Worker, Leave(w)
      PROVE  Withdrawn'
  <2>1. /\ UNCHANGED <<request, pending, status, execs, withdrawn, cancelEvents, canceller>>
        /\ worker' = [worker EXCEPT ![w] = Idle]
    BY <1>6, WorkerFrame DEF Leave, Workers, WorkerStepOf
  <2>2. \A k \in Job : (InQueue(k)' <=> InQueue(k)) /\ (AtWork(k)' => AtWork(k))
    BY <1>6, Left
  <2>3. \A v \in Worker : worker'[v].job # NoJob => worker'[v] = worker[v]
    BY <2>1 DEF Idle, WorkerTypes
  <2> QED
    BY <2>1, <2>2, <2>3
<1>7. CASE Stop
  <2>1. /\ waiting' = <<>> /\ UNCHANGED <<pending, execs, withdrawn>>
        /\ \A v \in Worker : worker'[v].job = NoJob
        /\ \A k \in Job : /\ request'[k] \in Early => request[k] \in Early
                          /\ canceller'[k] \notin {"finished", "withdrawn"}
                          /\ status'[k] = "none"
    BY <1>7 DEF Stop, Early, Idle
  <2>2. \A k \in Job : ~ InQueue(k)' /\ ~ AtWork(k)'
    BY <2>1 DEF InQueue, AtWork
  <2> QED
    BY <2>1, <2>2
<1>8. CASE RestoreJob
  <2> DEFINE j == Head(toRestore)
  <2>1. UNCHANGED <<request, pending, execs, withdrawn, cancelEvents, canceller, worker>>
    BY <1>8, StartupFrame DEF RestoreJob, Startup
  <2>2. j \in Job /\ toRestore # <<>> /\ toRestore \in Seq(Job) /\ Once(toRestore)
    BY <1>8 DEF RestoreJob, QueueTypes, Placed
  <2>3. pending[j] = "queued" /\ execs[j] = 0 /\ ~ InQueue(j) /\ ~ AtWork(j)
    <3>1. Within(toRestore, j)
      BY <2>2, OnceTail
    <3> QED
      BY <2>2, <3>1 DEF Placed, Begun
  <2>4. \A k \in Job : AtWork(k)' <=> AtWork(k)
    BY <2>1 DEF AtWork
  <2>5. CASE UNCHANGED <<waiting, status>>
    <3>1. \A k \in Job : InQueue(k)' <=> InQueue(k)
      BY <2>1, <2>5, SameJobs
    <3> QED
      BY <2>1, <2>4, <2>5, <3>1
  <2>6. CASE waiting' = Append(waiting, j) /\ status' = [status EXCEPT ![j] = "queued"]
    <3> HIDE DEF j
    <3>1. \A k \in Job : InQueue(k)' <=> InQueue(k) \/ k = j
      BY <2>1, <2>2, <2>3, <2>6, Joins
    <3>2. \A v \in Worker : worker[v].job # NoJob => worker[v].job \in Job \ {j}
      BY <1>0, <2>3
    <3> QED
      BY <2>1, <2>2, <2>3, <2>4, <2>6, <3>1, <3>2
  <2> QED
    BY <1>8, <2>5, <2>6 DEF RestoreJob
<1>9. CASE Control \/ Boot \/ Serve \/ UNCHANGED vars
  <2>1. UNCHANGED <<waiting, request, pending, status, execs, withdrawn, cancelEvents, canceller,
                    worker>>
    BY <1>9, ControlFrame DEF Boot, Serve, vars
  <2>2. \A k \in Job : (InQueue(k)' <=> InQueue(k)) /\ (AtWork(k)' <=> AtWork(k))
    BY <2>1, SameJobs
  <2> QED
    BY <2>1, <2>2
<1> QED
  BY <1>1, <1>2, <1>3, <1>4, <1>5, <1>6, <1>7, <1>8, <1>9, Steps
     DEF Clients, Cancellers, CancelStepOf, Workers, WorkerStepOf, WorkerStays, Startup

\* Where rmtree removes the directory of a cancelled job (it may be blocked by an open file, which
\* is the assumption), a confirmed cancellation holds for ever, through every race of the
\* canceller with the worker and through every restart.
THEOREM CancelledStaysCancelled ==
    ASSUME ~ CleanupMayFail
    PROVE  Spec => []CancelledNeverRuns
<1>1. Init => Withdrawn
  BY DEF Init, Idle, Withdrawn, InQueue, AtWork
<1>2. Typed /\ Phases /\ Placed /\ Begun /\ Durable /\ Withdrawn /\ [Next]_vars => Withdrawn'
  BY WithdrawnKept
<1>3. Typed /\ Withdrawn => CancelledNeverRuns
  BY DEF Typed, EntryTypes, Withdrawn, CancelledNeverRuns
<1> QED
  BY <1>1, <1>2, <1>3, TypedInvariant, PhasesInvariant, PlacedInvariant, BegunInvariant,
     DurableInvariant, PTL DEF Spec

(* ------------------ a cancelled job is not brought back ----------------- *)

Over == {"none", "cancelled"}

\* A worker that has a withdrawn job whose form is gone or marked has lost the form to the
\* canceller, and finds the event set before it begins the body.
Out ==
    /\ \A j \in Job :
         /\ canceller[j] \in {"finished", "withdrawn"} => j \in cancelEvents /\ j \notin forms
         /\ j \in withdrawn => request[j] \notin Early /\ canceller[j] = "done"
         /\ j \in withdrawn /\ pending[j] \in Over => ~ InQueue(j)
    /\ \A w \in Worker : worker[w].job \in withdrawn /\ pending[worker[w].job] \in Over =>
         /\ worker[w].job \notin forms
         /\ worker[w].step \in {"taken", "started"} => worker[w].job \in cancelEvents

LEMMA OutKept ==
    ASSUME Typed, Phases, Placed, Begun, Durable, Out, [Next]_vars
    PROVE  Out'
<1> USE DEF Out, Typed, EntryTypes, diskVars, entryVars, historyVars, queueVars
<1>0. /\ \A w \in Worker : worker[w].job # NoJob => worker[w].job \in Job /\ AtWork(worker[w].job)
      /\ NoJob \notin withdrawn
  BY DEF WorkerTypes, AtWork
<1>1. ASSUME NEW j \in Job, Admit(j) \/ ClientStep(j)
      PROVE  Out'
  <2>1. UNCHANGED <<worker, withdrawn, cancelEvents, canceller>>
    BY <1>1, ClientFrame DEF Clients
  <2>2. /\ \A k \in Job \ {j} : /\ request'[k] = request[k] /\ pending'[k] = pending[k]
                                /\ k \in forms' <=> k \in forms
        /\ request'[j] \in Early => request[j] \in Early
        /\ request[j] \in Early \/ (pending'[j] = pending[j] /\ forms' = forms)
    BY <1>1 DEF ClientStep, Admit, Reserve, StageForm, StageFails, Publish, Submit, SubmitFails,
       Respond, RequestGoes, MarkState, CleanDirectory, Early
  <2>3. request[j] \in Early => /\ j \notin withdrawn /\ ~ InQueue(j)
                                /\ canceller[j] \notin {"finished", "withdrawn"}
    BY DEF Placed, Durable
  <2>4. \A k \in Job : InQueue(k)' => InQueue(k) \/ (k = j /\ request[j] \in Early)
    <3>1. CASE waiting' = waiting
      BY <2>1, <3>1, SameJobs
    <3>2. CASE Submit(j)
      <4>1. request[j] \in Early /\ waiting' = Append(waiting, j)
        BY <3>2 DEF Submit, RequestGoes, Early
      <4> QED
        BY <2>1, <2>3, <4>1, Joins
    <3> QED
      BY <1>1, <3>1, <3>2 DEF ClientStep, Admit, Reserve, StageForm, StageFails, Publish,
         SubmitFails, Respond
  <2> QED
    BY <1>0, <2>1, <2>2, <2>3, <2>4
<1>2. ASSUME NEW j \in Job, CancelInQueue(j)
      PROVE  Out'
  <2>1. /\ UNCHANGED <<worker, request, pending, forms, withdrawn>>
        /\ cancelEvents \subseteq cancelEvents' /\ canceller[j] = "marked"
        /\ \E to \in {"removed", "leaving"} : canceller' = [canceller EXCEPT ![j] = to]
    BY <1>2 DEF CancelInQueue, CancelGoes
  <2>2. \A k \in Job : InQueue(k)' => InQueue(k)
    <3>1. CASE waiting' = waiting
      BY <2>1, <3>1, SameJobs
    <3> QED
      BY <1>2, <2>1, <3>1, Removed DEF CancelInQueue
  <2> QED
    BY <2>1, <2>2
<1>3. ASSUME NEW j \in Job, CancelAdmit(j) \/ CancelMark(j) \/ CancelEntry(j) \/ CancelClean(j)
                             \/ CancelAnswer(j) \/ ForcedCancel(j)
      PROVE  Out'
  <2>1. UNCHANGED <<waiting, worker, request, cancelEvents>>
    BY <1>3 DEF CancelAdmit, CancelMark, CancelEntry, CancelClean, CancelAnswer, ForcedCancel
  <2>2. \A k \in Job : InQueue(k)' <=> InQueue(k)
    BY <2>1, SameJobs
  <2>3. /\ \A k \in Job \ {j} : canceller'[k] = canceller[k] /\ pending'[k] = pending[k]
        /\ forms' \subseteq forms
        /\ CancelAnswer(j) \/ withdrawn' = withdrawn
        /\ ForcedCancel(j) \/ canceller[j] # "done"
        /\ ForcedCancel(j) => UNCHANGED <<canceller, pending>>
    BY <1>3 DEF CancelAdmit, CancelMark, CancelEntry, CancelClean, CancelAnswer, ForcedCancel,
       CancelGoes, MarkState, CleanDirectory
  <2>4. CASE CancelAnswer(j)
    <3>1. /\ UNCHANGED <<pending, forms>>
          /\ \/ /\ canceller[j] = "withdrawn" /\ canceller'[j] = "done"
                /\ withdrawn' = withdrawn \union {j}
             \/ canceller'[j] = "idle" /\ withdrawn' = withdrawn
      BY <2>4 DEF CancelAnswer, CancelGoes
    <3>2. canceller[j] = "withdrawn" => /\ request[j] \notin Early /\ ~ InQueue(j)
                                        /\ j \in cancelEvents /\ j \notin forms
      BY DEF Durable
    <3>3. canceller[j] # "done"
      BY <2>3, <2>4 DEF CancelAnswer, CancelGoes
    <3> QED
      BY <2>1, <2>2, <2>3, <3>1, <3>2, <3>3
  <2>5. CASE ForcedCancel(j)
    BY <2>1, <2>2, <2>3, <2>5 DEF ForcedCancel
  <2>6. CASE CancelAdmit(j) \/ CancelMark(j) \/ CancelEntry(j) \/ CancelClean(j)
    <3>0. withdrawn' = withdrawn /\ canceller[j] # "done"
      BY <2>6 DEF CancelAdmit, CancelMark, CancelEntry, CancelClean, CancelGoes
    <3>1. canceller'[j] \in {"finished", "withdrawn"} => j \in cancelEvents /\ j \notin forms'
      <4>1. CASE CancelEntry(j)
        BY <4>1 DEF CancelEntry, CancelGoes, Begun
      <4>2. CASE CancelClean(j)
        BY <4>2 DEF CancelClean, CancelGoes
      <4> QED
        BY <2>6, <4>1, <4>2 DEF CancelAdmit, CancelMark, CancelGoes
    <3> QED
      BY <1>0, <2>1, <2>2, <2>3, <3>0, <3>1
  <2> QED
    BY <1>3, <2>4, <2>5, <2>6
<1>4. ASSUME NEW w \in Worker, WorkerStays(w)
      PROVE  Out'
  <2> DEFINE j == worker[w].job
  <2>1. UNCHANGED <<waiting, request, cancelEvents, canceller, withdrawn>>
    BY <1>4, StaysAtWork, WorkerFrame DEF WorkerStays, Workers, WorkerStepOf
  <2>2. /\ \A v \in Worker : worker'[v].job = worker[v].job
        /\ \A k \in Job : InQueue(k)' <=> InQueue(k)
    BY <1>4, <2>1, StaysAtWork, SameJobs
  <2>3. /\ \A v \in Worker \ {w} : worker'[v] = worker[v]
        /\ forms' \subseteq forms
    BY <1>4 DEF WorkerStays, WorkerAdmit, Start, Execute, End, Complete, WorkerGoes, WorkerTypes
  <2>4. CASE Start(w) \/ End(w)
    <3>1. /\ worker[w].step \notin {"idle", "admitted"}
          /\ \A k \in Job \ {j} : pending'[k] = pending[k]
          /\ \/ pending' = pending
             \/ j \in forms /\ End(w)
             \/ j \in forms /\ (pending[j] \notin Over => pending'[j] \notin Over)
      BY <2>4 DEF Start, End, Outcome, MarkState, CleanDirectory, Over
    <3>2. j \in Job /\ AtWork(j) /\ ~ InQueue(j)
      BY <1>0, <3>1 DEF Holding, Placed
    <3>3. /\ Start(w) => worker[w].step = "taken" /\ worker'[w].step \in {"started", "broken"}
          /\ End(w) => worker'[w].step = "ended" /\ j \notin forms'
      BY <2>4 DEF Start, End, WorkerGoes, WorkerTypes
    <3>4. \A v \in Worker \ {w} : worker[v].job # j
      BY <1>0, <3>2 DEF Placed
    <3> HIDE DEF j
    <3>5. \A k \in Job : k \in withdrawn /\ pending'[k] \in Over => ~ InQueue(k)
      BY <3>1, <3>2
    <3>6. ASSUME NEW v \in Worker, worker[v].job \in withdrawn, pending'[worker[v].job] \in Over
          PROVE  /\ worker[v].job \notin forms'
                 /\ worker'[v].step \in {"taken", "started"} => worker[v].job \in cancelEvents
      <4>1. CASE v # w
        <5>1. worker[v].job \in Job \ {j} /\ worker'[v] = worker[v]
          BY <2>3, <3>4, <3>6, <4>1
        <5> QED
          BY <2>3, <3>1, <3>6, <5>1
      <4>2. CASE v = w /\ End(w)
        BY <3>3, <4>2 DEF j
      <4>3. CASE v = w /\ Start(w) /\ ~ End(w)
        <5>1. pending[j] \in Over
          BY <3>1, <3>6, <4>3 DEF j
        <5> QED
          BY <2>3, <3>3, <3>6, <4>3, <5>1 DEF j
      <4> QED
        BY <2>4, <4>1, <4>2, <4>3
    <3> QED
      BY <2>1, <2>2, <2>3, <3>5, <3>6
  <2>5. CASE WorkerAdmit(w) \/ Execute(w) \/ Complete(w)
    <3>1. /\ UNCHANGED <<pending, forms>>
          /\ \E to \in {"admitted", "executing", "leaving"} :
               worker' = [worker EXCEPT ![w].step = to]
      BY <2>5 DEF WorkerAdmit, Execute, Complete, WorkerGoes
    <3>2. worker'[w].step \notin {"taken", "started"}
      BY <3>1 DEF WorkerTypes
    <3> QED
      BY <2>1, <2>2, <2>3, <3>1, <3>2
  <2> QED
    BY <1>4, <2>4, <2>5 DEF WorkerStays
<1>5. ASSUME NEW w \in Worker, Take(w)
      PROVE  Out'
  <2> DEFINE j == Head(waiting)
  <2>1. /\ UNCHANGED <<request, pending, forms, withdrawn, cancelEvents, canceller>>
        /\ worker' = [worker EXCEPT ![w] = [step |-> "taken", job |-> j]]
    BY <1>5, WorkerFrame DEF Take, Workers, WorkerStepOf
  <2>2. /\ j \in Job /\ InQueue(j) /\ \A k \in Job : InQueue(k)' => InQueue(k)
    BY <1>5, Taken
  <2> HIDE DEF j
  <2> QED
    BY <2>1, <2>2 DEF WorkerTypes
<1>6. ASSUME NEW w \in Worker, Leave(w)
      PROVE  Out'
  <2>1. /\ UNCHANGED <<request, pending, forms, withdrawn, cancelEvents, canceller>>
        /\ worker' = [worker EXCEPT ![w] = Idle]
    BY <1>6, WorkerFrame DEF Leave, Workers, WorkerStepOf
  <2>2. \A k \in Job : InQueue(k)' <=> InQueue(k)
    BY <1>6, Left
  <2> QED
    BY <1>0, <2>1, <2>2 DEF Idle, WorkerTypes
<1>7. CASE Stop
  <2>1. /\ waiting' = <<>> /\ UNCHANGED <<pending, withdrawn>>
        /\ \A v \in Worker : worker'[v].job = NoJob
        /\ \A k \in Job : /\ request'[k] \in Early => request[k] \in Early
                          /\ canceller'[k] \notin {"finished", "withdrawn"}
                          /\ canceller[k] = "done" => canceller'[k] = "done"
    BY <1>7 DEF Stop, Early, Idle
  <2>2. \A k \in Job : ~ InQueue(k)'
    BY <2>1 DEF InQueue
  <2> QED
    BY <1>0, <2>1, <2>2
<1>8. CASE RestoreJob
  <2> DEFINE j == Head(toRestore)
  <2>1. /\ UNCHANGED <<request, pending, withdrawn, cancelEvents, canceller, worker>>
        /\ \A k \in Job : canceller[k] \in {"idle", "done"}
    BY <1>8, StartupFrame DEF RestoreJob, Startup, Phases
  <2>2. j \in Job /\ toRestore # <<>> /\ toRestore \in Seq(Job) /\ Once(toRestore)
    BY <1>8 DEF RestoreJob, QueueTypes, Placed
  <2>3. pending[j] = "queued" /\ ~ InQueue(j) /\ ~ AtWork(j)
    <3>1. Within(toRestore, j)
      BY <2>2, OnceTail
    <3> QED
      BY <2>2, <3>1 DEF Placed
  <2>4. CASE UNCHANGED <<waiting, forms>>
    <3>1. \A k \in Job : InQueue(k)' <=> InQueue(k)
      BY <2>1, <2>4, SameJobs
    <3> QED
      BY <2>1, <2>4, <3>1
  <2>5. CASE waiting' = Append(waiting, j) /\ forms' = forms \union {j}
    <3> HIDE DEF j
    <3>1. \A k \in Job : InQueue(k)' <=> InQueue(k) \/ k = j
      BY <2>1, <2>2, <2>3, <2>5, Joins
    <3> QED
      BY <1>0, <2>1, <2>2, <2>3, <2>5, <3>1 DEF Over
  <2> QED
    BY <1>8, <2>4, <2>5 DEF RestoreJob
<1>9. CASE Control \/ Boot \/ Serve \/ UNCHANGED vars
  <2>1. UNCHANGED <<waiting, request, pending, forms, withdrawn, cancelEvents, canceller, worker>>
    BY <1>9, ControlFrame DEF Boot, Serve, vars
  <2>2. \A k \in Job : InQueue(k)' <=> InQueue(k)
    BY <2>1, SameJobs
  <2> QED
    BY <2>1, <2>2
<1> QED
  BY <1>1, <1>2, <1>3, <1>4, <1>5, <1>6, <1>7, <1>8, <1>9, Steps
     DEF Clients, Cancellers, CancelStepOf, Workers, WorkerStepOf, WorkerStays, Startup

\* No step brings such a job back: the steps that mark a form need a request not
\* submitted yet or an entry that still holds the form.
LEMMA OutStays ==
    ASSUME Typed, Phases, Placed, Out, [Next]_vars,
           NEW j \in withdrawn, pending[j] \in Over
    PROVE  pending'[j] \in Over /\ execs'[j] = execs[j]
<1> USE DEF Out, Typed, EntryTypes, diskVars, historyVars, Over
<1>1. j \in Job /\ request[j] \notin Early
  OBVIOUS
<1>2. ASSUME NEW k \in Job, Admit(k) \/ ClientStep(k)
      PROVE  pending'[j] \in Over /\ execs'[j] = execs[j]
  BY <1>1, <1>2 DEF ClientStep, Admit, Reserve, StageForm, StageFails, Publish, Submit,
     SubmitFails, Respond, RequestGoes, MarkState, CleanDirectory, Early
<1>3. ASSUME NEW k \in Job, CancelAdmit(k) \/ CancelStepOf(k) \/ ForcedCancel(k)
      PROVE  pending'[j] \in Over /\ execs'[j] = execs[j]
  BY <1>1, <1>3 DEF CancelStepOf, CancelAdmit, CancelMark, CancelInQueue, CancelEntry,
     CancelClean, CancelAnswer, ForcedCancel, MarkState, CleanDirectory
<1>4. ASSUME NEW w \in Worker, WorkerStepOf(w)
      PROVE  pending'[j] \in Over /\ execs'[j] = execs[j]
  <2>1. CASE Execute(w)
    <3>1. worker[w].job # j
      BY <2>1 DEF Execute, WorkerGoes, CancelIsSet
    <3> QED
      BY <2>1, <3>1 DEF Execute
  <2>2. CASE Start(w)
    <3>1. worker[w].job = j => j \notin forms
      OBVIOUS
    <3> QED
      BY <2>2, <3>1 DEF Start, MarkState
  <2>3. CASE End(w)
    BY <1>1, <2>3 DEF End, CleanDirectory
  <2> QED
    BY <1>4, <2>1, <2>2, <2>3 DEF WorkerStepOf, WorkerAdmit, Take, Complete, Leave
<1>5. CASE Control \/ Stop \/ Startup \/ UNCHANGED vars
  BY <1>5, ControlFrame, StartupFrame DEF Stop, vars
<1> QED
  BY <1>2, <1>3, <1>4, <1>5, Steps DEF Clients, Cancellers, Workers

\* "cancelled forms are not replayed if cleanup was blocked" (tests/test_process_pending.py), for
\* every race of the canceller with submission and worker, and every number of restarts:
\* what is replayed is only a form that says "queued" once more.
THEOREM CancelledIsNotReplayed == Spec => CancelledStaysOut
<1>1. Init => Out
  BY DEF Init, Idle, Out, InQueue
<1>2. Typed /\ Phases /\ Placed /\ Begun /\ Durable /\ Out /\ [Next]_vars => Out'
  BY OutKept
<1>3. Typed /\ Phases /\ Placed /\ Out /\ [Next]_vars =>
        [\A j \in withdrawn : pending[j] \in {"none", "cancelled"} =>
           pending'[j] \in {"none", "cancelled"} /\ execs'[j] = execs[j]]_vars
  BY OutStays DEF Over
<1> QED
  BY <1>1, <1>2, <1>3, TypedInvariant, PhasesInvariant, PlacedInvariant, BegunInvariant,
     DurableInvariant, PTL DEF Spec, CancelledStaysOut

(* ---------------------- the order of submission ------------------------ *)

\* The queue, and what a restart has still to put behind it, are in the order of the
\* "queued" writes.
Ordered ==
    /\ \A j \in Job : InQueue(j) \/ pending[j] = "queued" => Within(queuedOrder, j)
    /\ OldestFirst(waiting) /\ OldestFirst(toRestore)
    /\ \A i \in DOMAIN waiting, k \in DOMAIN toRestore : Earlier(waiting[i], toRestore[k])

Precedes(q, j, k) == \E a, b \in DOMAIN q : a < b /\ q[a] = j /\ q[b] = k

LEMMA PrecedesAppend ==
    ASSUME NEW q \in Seq(Job), NEW j \in Job
    PROVE  /\ \A k, l : Precedes(q, k, l) => Precedes(Append(q, j), k, l)
           /\ \A k : Within(q, k) => Precedes(Append(q, j), k, j)
           /\ \A k : Within(q, k) \/ k = j => Within(Append(q, j), k)
<1>1. /\ Len(q) \in Nat /\ DOMAIN q = 1 .. Len(q) /\ DOMAIN Append(q, j) = 1 .. (Len(q) + 1)
      /\ \A i \in 1 .. Len(q) : Append(q, j)[i] = q[i]
      /\ Append(q, j)[Len(q) + 1] = j
  BY AppendProperties
<1>2. /\ 1 .. Len(q) \subseteq 1 .. (Len(q) + 1) /\ Len(q) + 1 \in 1 .. (Len(q) + 1)
      /\ \A i \in 1 .. Len(q) : i < Len(q) + 1
  BY <1>1
<1>3. ASSUME NEW k, NEW l, Precedes(q, k, l)
      PROVE  Precedes(Append(q, j), k, l)
  BY <1>1, <1>2, <1>3 DEF Precedes
<1>4. ASSUME NEW k, Within(q, k)
      PROVE  Precedes(Append(q, j), k, j) /\ Within(Append(q, j), k)
  <2>1. PICK a \in 1 .. Len(q) : q[a] = k
    BY <1>1, <1>4 DEF Within
  <2> QED
    BY <1>1, <1>2, <2>1 DEF Precedes, Within
<1>5. Within(Append(q, j), j)
  BY <1>1, <1>2 DEF Within
<1> QED
  BY <1>3, <1>4, <1>5

LEMMA OldestFirstAppend ==
    ASSUME NEW s \in Seq(Job), NEW j \in Job, OldestFirst(s),
           \A i \in DOMAIN s : Earlier(s[i], j)
    PROVE  OldestFirst(Append(s, j))
<1>1. /\ Len(s) \in Nat /\ DOMAIN s = 1 .. Len(s) /\ DOMAIN Append(s, j) = 1 .. (Len(s) + 1)
      /\ \A i \in 1 .. Len(s) : Append(s, j)[i] = s[i]
      /\ Append(s, j)[Len(s) + 1] = j
  BY AppendProperties
<1> SUFFICES ASSUME NEW i \in 1 .. (Len(s) + 1), NEW k \in 1 .. (Len(s) + 1), i < k
             PROVE  Earlier(Append(s, j)[i], Append(s, j)[k])
  BY <1>1 DEF OldestFirst
<1>2. i \in 1 .. Len(s)
  BY <1>1
<1>3. CASE k \in 1 .. Len(s)
  BY <1>1, <1>2, <1>3 DEF OldestFirst
<1>4. CASE k = Len(s) + 1
  BY <1>1, <1>2, <1>4
<1> QED
  BY <1>1, <1>3, <1>4

LEMMA OldestFirstTail ==
    ASSUME NEW s \in Seq(Job), s # <<>>, OldestFirst(s)
    PROVE  /\ OldestFirst(Tail(s))
           /\ \A k \in DOMAIN Tail(s) : Earlier(Head(s), Tail(s)[k])
           /\ \A k \in DOMAIN Tail(s) : k + 1 \in DOMAIN s /\ Tail(s)[k] = s[k + 1]
<1>1. /\ Len(s) \in Nat \ {0} /\ DOMAIN s = 1 .. Len(s) /\ Head(s) = s[1]
      /\ DOMAIN Tail(s) = 1 .. (Len(s) - 1)
      /\ \A i \in 1 .. (Len(s) - 1) : Tail(s)[i] = s[i + 1]
  OBVIOUS
<1>2. ASSUME NEW i \in 1 .. (Len(s) - 1), NEW k \in 1 .. (Len(s) - 1), i < k
      PROVE  Earlier(Tail(s)[i], Tail(s)[k])
  <2>1. i + 1 \in DOMAIN s /\ k + 1 \in DOMAIN s /\ i + 1 < k + 1
    BY <1>1, <1>2
  <2> QED
    BY <1>1, <2>1 DEF OldestFirst
<1>3. ASSUME NEW k \in 1 .. (Len(s) - 1)
      PROVE  Earlier(Head(s), Tail(s)[k])
  <2>1. 1 \in DOMAIN s /\ k + 1 \in DOMAIN s /\ 1 < k + 1
    BY <1>1
  <2> QED
    BY <1>1, <2>1 DEF OldestFirst
<1> QED
  BY <1>1, <1>2, <1>3 DEF OldestFirst

LEMMA OldestFirstRemove ==
    ASSUME NEW s \in Seq(Job), NEW i \in DOMAIN s, OldestFirst(s)
    PROVE  OldestFirst(RemoveAt(s, i))
<1> DEFINE r == RemoveAt(s, i)
           at(a) == IF a < i THEN a ELSE a + 1
<1>1. /\ Len(s) \in Nat /\ DOMAIN s = 1 .. Len(s) /\ i \in 1 .. Len(s)
      /\ DOMAIN r = 1 .. (Len(s) - 1)
      /\ \A a \in 1 .. (Len(s) - 1) : r[a] = s[at(a)]
  BY RemoveAtElements
<1> SUFFICES ASSUME NEW a \in 1 .. (Len(s) - 1), NEW b \in 1 .. (Len(s) - 1), a < b
             PROVE  Earlier(r[a], r[b])
  BY <1>1 DEF OldestFirst
<1>2. at(a) \in DOMAIN s /\ at(b) \in DOMAIN s /\ at(a) < at(b)
  BY <1>1
<1> QED
  BY <1>1, <1>2 DEF OldestFirst

LEMMA OrderedKept ==
    ASSUME Typed, Phases, Placed, Ordered, [Next]_vars
    PROVE  Ordered'
<1> USE DEF Ordered, Typed, EntryTypes, QueueTypes, diskVars, queueVars, processVars
<1>1. ASSUME NEW j \in Job, Submit(j)
      PROVE  Ordered'
  <2>1. /\ request[j] = "published" /\ worker' = worker /\ toRestore' = toRestore
        /\ waiting' = Append(waiting, j) /\ queuedOrder' = Append(queuedOrder, j)
        /\ up = "serving" /\ \A k \in Job \ {j} : pending'[k] = pending[k]
    BY <1>1 DEF Submit, RequestGoes, MarkState
  <2>2. toRestore' = <<>>
    BY <2>1 DEF Phases
  <2>3. ~ InQueue(j)
    BY <2>1 DEF Placed, Early
  <2>4. \A k \in Job : InQueue(k)' <=> InQueue(k) \/ k = j
    BY <2>1, <2>3, Joins
  <2>5. /\ \A k, l : Precedes(queuedOrder, k, l) => Precedes(queuedOrder', k, l)
        /\ \A k : Within(queuedOrder, k) => Precedes(queuedOrder', k, j)
        /\ \A k : Within(queuedOrder, k) \/ k = j => Within(queuedOrder', k)
    BY <2>1, PrecedesAppend
  <2>6. ASSUME NEW i \in DOMAIN waiting', NEW k \in DOMAIN waiting', i < k
        PROVE  Precedes(queuedOrder', waiting'[i], waiting'[k])
    <3>1. /\ Len(waiting) \in Nat /\ DOMAIN waiting = 1 .. Len(waiting)
          /\ DOMAIN waiting' = 1 .. (Len(waiting) + 1)
          /\ \A a \in 1 .. Len(waiting) : waiting'[a] = waiting[a] /\ waiting[a] \in Job
          /\ waiting'[Len(waiting) + 1] = j
      BY <2>1, AppendProperties
    <3>2. i \in 1 .. Len(waiting)
      BY <2>6, <3>1
    <3>3. CASE k \in 1 .. Len(waiting)
      <4>1. Precedes(queuedOrder, waiting[i], waiting[k])
        BY <2>6, <3>1, <3>2, <3>3 DEF OldestFirst, Earlier, Precedes
      <4> QED
        BY <2>5, <3>1, <3>2, <3>3, <4>1
    <3>4. CASE k = Len(waiting) + 1
      <4>1. waiting[i] \in Job /\ InQueue(waiting[i])
        BY <3>1, <3>2 DEF InQueue
      <4> QED
        BY <2>5, <3>1, <3>2, <3>4, <4>1
    <3> QED
      BY <2>6, <3>1, <3>3, <3>4
  <2>7. OldestFirst(waiting)'
    BY <2>6 DEF OldestFirst, Earlier, Precedes
  <2>8. OldestFirst(toRestore)' /\ DOMAIN toRestore' = {}
    BY <2>2 DEF OldestFirst
  <2> QED
    <3>1. \A k \in Job : InQueue(k)' \/ pending'[k] = "queued" => Within(queuedOrder', k)
      BY <2>1, <2>4, <2>5
    <3> QED
      BY <2>7, <2>8, <3>1
<1>2. ASSUME queuedOrder' = queuedOrder,
             \A k \in Job : InQueue(k)' \/ pending'[k] = "queued" => Within(queuedOrder, k),
             OldestFirst(waiting'), OldestFirst(toRestore'),
             \A i \in DOMAIN waiting', k \in DOMAIN toRestore' : Earlier(waiting'[i], toRestore'[k])
      PROVE  Ordered'
  <2>1. \A k, l : Earlier(k, l)' <=> Earlier(k, l)
    BY <1>2 DEF Earlier
  <2>2. OldestFirst(waiting)' /\ OldestFirst(toRestore)'
    BY <1>2, <2>1 DEF OldestFirst
  <2> QED
    BY <1>2, <2>1, <2>2
<1>3. ASSUME UNCHANGED <<queuedOrder, waiting, toRestore>>,
             \A k \in Job : pending'[k] = "queued" => pending[k] = "queued"
      PROVE  Ordered'
  <2>1. \A k \in Job : InQueue(k)' <=> InQueue(k)
    BY <1>3 DEF InQueue
  <2> QED
    BY <1>2, <1>3, <2>1
<1>4. ASSUME NEW j \in Job, Admit(j) \/ Reserve(j) \/ StageForm(j) \/ StageFails(j) \/ Publish(j)
                             \/ SubmitFails(j) \/ Respond(j)
      PROVE  Ordered'
  BY <1>3, <1>4 DEF Admit, Reserve, StageForm, StageFails, Publish, SubmitFails, Respond,
     CleanDirectory
<1>5. ASSUME NEW j \in Job, CancelInQueue(j)
      PROVE  Ordered'
  <2>1. /\ UNCHANGED <<queuedOrder, worker, pending, toRestore>> /\ toRestore = <<>>
    BY <1>5 DEF CancelInQueue, CancelGoes, Phases
  <2>2. CASE waiting' = waiting
    BY <1>3, <2>1, <2>2
  <2>3. ASSUME NEW i \in DOMAIN waiting, waiting' = RemoveAt(waiting, i)
        PROVE  Ordered'
    <3>1. OldestFirst(waiting') /\ OldestFirst(toRestore')
      BY <2>1, <2>3, OldestFirstRemove
    <3>2. \A k \in Job : InQueue(k)' => InQueue(k)
      BY <2>1, <2>3, Removed
    <3>3. DOMAIN toRestore' = {}
      BY <2>1
    <3> QED
      BY <1>2, <2>1, <3>1, <3>2, <3>3
  <2> QED
    BY <1>5, <2>2, <2>3 DEF CancelInQueue
<1>6. ASSUME NEW j \in Job, CancelAdmit(j) \/ CancelMark(j) \/ CancelEntry(j) \/ CancelClean(j)
                             \/ CancelAnswer(j) \/ ForcedCancel(j)
      PROVE  Ordered'
  BY <1>3, <1>6 DEF CancelAdmit, CancelMark, CancelEntry, CancelClean, CancelAnswer, ForcedCancel,
     MarkState, CleanDirectory
<1>7. ASSUME NEW w \in Worker, WorkerStays(w) \/ Leave(w)
      PROVE  Ordered'
  <2>1. UNCHANGED <<queuedOrder, waiting, toRestore>>
    BY <1>7 DEF WorkerStays, WorkerAdmit, Start, Execute, End, Complete, Leave
  <2>2. \E to \in {pending[worker[w].job], "none", "running"} :
          pending' \in {pending, [pending EXCEPT ![worker[w].job] = to]}
    BY <1>7 DEF WorkerStays, WorkerAdmit, Start, Execute, End, Complete, Leave, MarkState,
       CleanDirectory
  <2>3. \A k \in Job : pending'[k] = "queued" => pending[k] = "queued"
    BY <2>2
  <2> QED
    BY <1>3, <2>1, <2>3
<1>8. ASSUME NEW w \in Worker, Take(w)
      PROVE  Ordered'
  <2>1. /\ UNCHANGED <<queuedOrder, pending, toRestore>> /\ waiting' = Tail(waiting)
        /\ waiting # <<>>
    BY <1>8 DEF Take, Holding, QueueLockFree
  <2>2. /\ OldestFirst(Tail(waiting))
        /\ \A i \in DOMAIN Tail(waiting) : i + 1 \in DOMAIN waiting /\ Tail(waiting)[i] = waiting[i + 1]
    BY <2>1, OldestFirstTail
  <2>3. \A k \in Job : InQueue(k)' => InQueue(k)
    BY <1>8, Taken
  <2> QED
    BY <1>2, <2>1, <2>2, <2>3
<1>9. CASE Stop
  <2>1. /\ waiting' = <<>> /\ toRestore' = <<>> /\ UNCHANGED <<pending, queuedOrder>>
    BY <1>9 DEF Stop
  <2>2. \A k \in Job : ~ InQueue(k)'
    BY <2>1 DEF InQueue
  <2>3. OldestFirst(waiting') /\ OldestFirst(toRestore') /\ DOMAIN waiting' = {}
    BY <2>1 DEF OldestFirst
  <2> QED
    BY <1>2, <2>1, <2>2, <2>3
<1>10. CASE Boot
  <2>1. waiting' = <<>> /\ UNCHANGED <<pending, queuedOrder>> /\ OldestFirst(toRestore')
    BY <1>10 DEF Boot, Phases
  <2>2. \A k \in Job : ~ InQueue(k)'
    BY <2>1 DEF InQueue
  <2>3. OldestFirst(waiting') /\ DOMAIN waiting' = {}
    BY <2>1 DEF OldestFirst
  <2> QED
    BY <1>2, <2>1, <2>2, <2>3
<1>11. CASE RestoreJob
  <2> DEFINE j == Head(toRestore)
  <2>1. UNCHANGED <<pending, queuedOrder, worker>> /\ j \in Job /\ toRestore # <<>>
    BY <1>11, StartupFrame DEF RestoreJob, Startup
  <2>2. CASE waiting' = waiting /\ toRestore' = <<>>
    <3>1. \A k \in Job : InQueue(k)' <=> InQueue(k)
      BY <2>2 DEF InQueue
    <3>2. OldestFirst(waiting') /\ OldestFirst(toRestore') /\ DOMAIN toRestore' = {}
      BY <2>2 DEF OldestFirst
    <3> QED
      BY <1>2, <2>1, <2>2, <3>1, <3>2
  <2>3. CASE waiting' = Append(waiting, j) /\ toRestore' = Tail(toRestore)
    <3>1. toRestore \in Seq(Job) /\ Within(toRestore, j) /\ 1 \in DOMAIN toRestore /\ j = toRestore[1]
      BY <2>1, OnceTail DEF Placed
    <3>2. pending[j] = "queued" /\ ~ InQueue(j)
      BY <2>1, <3>1 DEF Placed
    <3>3. /\ OldestFirst(Tail(toRestore))
          /\ \A k \in DOMAIN Tail(toRestore) :
               /\ Earlier(j, Tail(toRestore)[k])
               /\ k + 1 \in DOMAIN toRestore /\ Tail(toRestore)[k] = toRestore[k + 1]
      BY <2>1, <3>1, OldestFirstTail
    <3> HIDE DEF j
    <3>4. OldestFirst(waiting')
      BY <2>1, <2>3, <3>1, OldestFirstAppend
    <3>5. \A k \in Job : InQueue(k)' <=> InQueue(k) \/ k = j
      BY <2>1, <2>3, <3>2, Joins
    <3>6. /\ Len(waiting) \in Nat /\ DOMAIN waiting = 1 .. Len(waiting)
          /\ DOMAIN waiting' = 1 .. (Len(waiting) + 1)
          /\ \A a \in 1 .. Len(waiting) : waiting'[a] = waiting[a]
          /\ waiting'[Len(waiting) + 1] = j
      BY <2>1, <2>3, AppendProperties
    <3>7. ASSUME NEW i \in 1 .. (Len(waiting) + 1), NEW k \in DOMAIN Tail(toRestore)
          PROVE  Earlier(waiting'[i], Tail(toRestore)[k])
      <4>1. CASE i = Len(waiting) + 1
        BY <3>3, <3>6, <4>1
      <4>2. CASE i \in 1 .. Len(waiting)
        <5>1. Earlier(waiting[i], toRestore[k + 1]) /\ Tail(toRestore)[k] = toRestore[k + 1]
          BY <3>3, <3>6, <4>2
        <5> QED
          BY <3>6, <4>2, <5>1
      <4> QED
        BY <3>6, <4>1, <4>2
    <3>8. OldestFirst(toRestore')
      BY <2>3, <3>3
    <3>9. \A i \in DOMAIN waiting', k \in DOMAIN toRestore' : Earlier(waiting'[i], toRestore'[k])
      BY <2>3, <3>6, <3>7
    <3> QED
      BY <1>2, <2>1, <3>2, <3>4, <3>5, <3>8, <3>9
  <2> QED
    BY <1>11, <2>2, <2>3 DEF RestoreJob
<1>12. CASE Control \/ Serve \/ UNCHANGED vars
  <2>1. UNCHANGED <<queuedOrder, waiting, toRestore, pending>>
    BY <1>12, ControlFrame DEF Serve, vars
  <2> QED
    BY <1>3, <2>1
<1> QED
  BY <1>1, <1>4, <1>5, <1>6, <1>7, <1>8, <1>9, <1>10, <1>11, <1>12, Steps
     DEF Clients, ClientStep, Cancellers, CancelStepOf, Workers, WorkerStepOf, WorkerStays, Startup

\* submit, cancel, popleft and the restoration after every restart keep the jobs in the order
\* in which they were submitted.
THEOREM OrderIsKept == Spec => []SubmissionOrderSurvives
<1>1. Init => Ordered
  BY DEF Init, Ordered, InQueue, OldestFirst
<1>2. Typed /\ Phases /\ Placed /\ Ordered /\ [Next]_vars => Ordered'
  BY OrderedKept
<1>3. Ordered => SubmissionOrderSurvives
  BY DEF Ordered, SubmissionOrderSurvives
<1> QED
  BY <1>1, <1>2, <1>3, TypedInvariant, PhasesInvariant, PlacedInvariant, PTL DEF Spec

(* ---------------------- queued forms are resumed ----------------------- *)

\* load_pending yields every queued form: as many places as forms, no form twice.
LEMMA AllAreRestored ==
    ASSUME NEW s \in SetToSeqs(QueuedForms), NEW j \in QueuedForms
    PROVE  Within(s, j)
<1> DEFINE n == Cardinality(QueuedForms)
<1>1. IsFiniteSet(QueuedForms) /\ n \in Nat
  BY FS_Subset, FS_CardinalityType DEF QueuedForms
<1>2. s \in [1 .. n -> QueuedForms] /\ \A i, k \in 1 .. n : i # k => s[i] # s[k]
  BY DEF SetToSeqs
<1> SUFFICES ASSUME ~ Within(s, j)
             PROVE  FALSE
  OBVIOUS
<1>3. s \in [1 .. n -> QueuedForms \ {j}]
  BY <1>2 DEF Within
<1>4. IsFiniteSet(QueuedForms \ {j}) /\ Cardinality(QueuedForms \ {j}) = n - 1
  BY <1>1, FS_RemoveElement
<1>5. IsFiniteSet(1 .. n) /\ Cardinality(1 .. n) = n
  BY <1>1, FS_Interval
<1> HIDE DEF n
<1>6. Cardinality(QueuedForms \ {j}) < Cardinality(1 .. n)
  BY <1>1, <1>4, <1>5
<1>7. \E i, k \in 1 .. n : i # k /\ s[i] = s[k]
  BY <1>3, <1>4, <1>5, <1>6, FS_PigeonHole
<1> QED
  BY <1>2, <1>7

\* A form that says "queued" belongs to somebody who will deal with it: the queue, a worker, the
\* startup that restores, or a canceller between the queue and the directory.  What hands it on:
\* an entry keeps its form while it waits, a worker that is past its run has given the form up,
\* and when it was the canceller that took the form away, the canceller still has the directory
\* to clean.
Resumable ==
    /\ \A j \in Job :
         /\ up # "down" /\ pending[j] = "queued" =>
              \/ InQueue(j) \/ AtWork(j) \/ Within(toRestore, j)
              \/ canceller[j] \in {"removed", "finished"}
         /\ canceller[j] = "removed" /\ pending[j] = "queued" => AtWork(j) \/ status[j] = "queued"
         /\ AtWork(j) /\ pending[j] = "queued" => j \in forms \/ canceller[j] = "finished"
         /\ request[j] = "published" \/ InQueue(j) => j \in forms
    /\ \A w \in Worker : worker[w].step \in {"ended", "leaving"} => worker[w].job \notin forms

\* The startup can restore the form it is at.
Fits == RestoreJob => Head(toRestore) \notin BadForms /\ HasCapacity(Head(toRestore))

\* What the client does to a form, an entry and its own request before it submits.
LEMMA BeforeSubmission ==
    ASSUME Typed, Placed, NEW j \in Job,
           Admit(j) \/ Reserve(j) \/ StageForm(j) \/ StageFails(j) \/ Publish(j) \/ SubmitFails(j)
             \/ Respond(j)
    PROVE  /\ UNCHANGED <<waiting, worker, canceller, up, toRestore>>
           /\ \A k \in Job : pending'[k] = "queued" =>
                /\ pending[k] = "queued" /\ status'[k] = status[k]
                /\ k \in forms <=> k \in forms'
           /\ \A k \in Job : request'[k] = "published" => k \in forms' \/ (request[k] = "published" /\ k # j)
           /\ \A k \in Job : InQueue(k) \/ AtWork(k) \/ k # j => (k \in forms <=> k \in forms')
<1> USE DEF Typed, EntryTypes, diskVars, entryVars, queueVars, processVars
<1>1. UNCHANGED <<waiting, worker, canceller, up, toRestore>>
  BY ClientFrame DEF Clients, ClientStep, Admit, Reserve, StageForm, StageFails, Publish,
     SubmitFails, Respond
<1>2. CASE Publish(j)
  <2>1. /\ request[j] = "staged" /\ request' = [request EXCEPT ![j] = "published"]
        /\ pending' = pending /\ status' = [status EXCEPT ![j] = "queued"]
        /\ forms' = forms \union {j}
    BY <1>2 DEF Publish, RequestGoes
  <2>2. pending[j] # "queued" /\ ~ InQueue(j) /\ ~ AtWork(j)
    BY <2>1 DEF Placed, Early
  <2> QED
    BY <1>1, <2>1, <2>2
<1>3. CASE SubmitFails(j)
  <2>1. /\ request[j] = "published" /\ request' = [request EXCEPT ![j] = "idle"]
        /\ pending' \in {pending, [pending EXCEPT ![j] = "none"]}
        /\ status' = [status EXCEPT ![j] = "none"] /\ forms' = forms \ {j}
    BY <1>3 DEF SubmitFails, RequestGoes, CleanDirectory
  <2>2. pending[j] # "queued" /\ ~ InQueue(j) /\ ~ AtWork(j)
    BY <2>1 DEF Placed, Early
  <2> QED
    BY <1>1, <2>1, <2>2
<1>4. CASE Admit(j) \/ Reserve(j) \/ StageForm(j) \/ StageFails(j) \/ Respond(j)
  <2>1. /\ UNCHANGED <<status, forms>>
        /\ pending' \in {pending, [pending EXCEPT ![j] = "staged"]}
        /\ \E to \in RequestStep \ {"published"} : request' = [request EXCEPT ![j] = to]
    BY <1>4 DEF Admit, Reserve, StageForm, StageFails, Respond, RequestGoes, RequestStep
  <2> QED
    BY <1>1, <2>1
<1> QED
  BY <1>2, <1>3, <1>4

\* A worker never makes a form "queued", nor an entry.
LEMMA AtTheJob ==
    ASSUME Typed, NEW w \in Worker, WorkerStays(w)
    PROVE  /\ UNCHANGED <<waiting, request, canceller, up, toRestore>>
           /\ \A v \in Worker : worker'[v].job = worker[v].job
           /\ \A v \in Worker \ {w} : worker'[v] = worker[v]
           /\ \A k \in Job : (InQueue(k)' <=> InQueue(k)) /\ (AtWork(k)' <=> AtWork(k))
           /\ \A k \in Job : pending'[k] = "queued" => pending[k] = "queued"
           /\ \A k \in Job : status'[k] = "queued" => status[k] = "queued"
           /\ \A k \in Job : k # worker[w].job => status'[k] = status[k]
<1> USE DEF Typed, EntryTypes, diskVars, entryVars
<1>1. UNCHANGED <<waiting, request, canceller, up, toRestore>>
  BY StaysAtWork, WorkerFrame DEF WorkerStays, Workers, WorkerStepOf, processVars
<1>2. /\ \A v \in Worker : worker'[v].job = worker[v].job
      /\ \A k \in Job : (InQueue(k)' <=> InQueue(k)) /\ (AtWork(k)' <=> AtWork(k))
  BY <1>1, StaysAtWork, SameJobs
<1>3. \A v \in Worker \ {w} : worker'[v] = worker[v]
  BY DEF WorkerStays, WorkerAdmit, Start, Execute, End, Complete, WorkerGoes, WorkerTypes
<1>4. \E to \in {"none", "running"} :
        \/ pending' \in {pending, [pending EXCEPT ![worker[w].job] = "none"]}
        \/ pending' = [pending EXCEPT ![worker[w].job] = IF @ = "none" THEN @ ELSE to]
  BY DEF WorkerStays, WorkerAdmit, Start, Execute, End, Complete, MarkState, CleanDirectory
<1>5. \E to \in {"running", "cancelled", "failed", "completed"} :
        status' \in {status, [status EXCEPT ![worker[w].job] = to]}
  BY DEF WorkerStays, WorkerAdmit, Start, Execute, End, Complete, Outcome
<1>6. \A k \in Job : pending'[k] = "queued" => pending[k] = "queued"
  BY <1>4
<1>7. \A k \in Job : /\ status'[k] = "queued" => status[k] = "queued"
                     /\ k # worker[w].job => status'[k] = status[k]
  BY <1>5
<1> QED
  BY <1>1, <1>2, <1>3, <1>6, <1>7

LEMMA ResumableKept ==
    ASSUME ~ CleanupMayFail, Typed, Phases, Placed, Durable, Resumable, Fits, [Next]_vars
    PROVE  Resumable'
<1> USE DEF Resumable, Typed, EntryTypes, diskVars, entryVars, historyVars, queueVars, processVars
<1>0. \A w \in Worker : worker[w].step \notin {"idle", "admitted"} =>
                          worker[w].job \in Job /\ AtWork(worker[w].job)
  BY DEF Holding, WorkerTypes, AtWork
<1>1. ASSUME NEW j \in Job, Admit(j) \/ Reserve(j) \/ StageForm(j) \/ StageFails(j) \/ Publish(j)
                             \/ SubmitFails(j) \/ Respond(j)
      PROVE  Resumable'
  <2>1. /\ UNCHANGED <<waiting, worker, canceller, up, toRestore>>
        /\ \A k \in Job : pending'[k] = "queued" =>
             /\ pending[k] = "queued" /\ status'[k] = status[k]
             /\ k \in forms <=> k \in forms'
        /\ \A k \in Job : request'[k] = "published" => k \in forms' \/ (request[k] = "published" /\ k # j)
        /\ \A k \in Job : InQueue(k) \/ AtWork(k) \/ k # j => (k \in forms <=> k \in forms')
    BY <1>1, BeforeSubmission
  <2>2. \A k \in Job : (InQueue(k)' <=> InQueue(k)) /\ (AtWork(k)' <=> AtWork(k))
    BY <2>1, SameJobs
  <2>3. \A k \in Job : request'[k] = "published" \/ InQueue(k)' => k \in forms'
    BY <2>1, <2>2
  <2>4. \A w \in Worker : worker'[w].step \in {"ended", "leaving"} => worker'[w].job \notin forms'
    BY <1>0, <2>1
  <2> QED
    BY <2>1, <2>2, <2>3, <2>4
<1>2. ASSUME NEW j \in Job, Submit(j)
      PROVE  Resumable'
  <2>1. /\ request[j] = "published" /\ request' = [request EXCEPT ![j] = "accepted"]
        /\ waiting' = Append(waiting, j)
        /\ UNCHANGED <<worker, status, forms, canceller, up, toRestore>>
        /\ \A k \in Job \ {j} : pending'[k] = pending[k]
    BY <1>2 DEF Submit, RequestGoes, MarkState
  <2>2. ~ InQueue(j) /\ ~ AtWork(j) /\ canceller[j] # "removed" /\ j \in forms
    BY <2>1 DEF Placed, Durable, Early
  <2>3. \A k \in Job : (InQueue(k)' <=> InQueue(k) \/ k = j) /\ (AtWork(k)' <=> AtWork(k))
    BY <2>1, <2>2, Joins
  <2> QED
    BY <2>1, <2>2, <2>3
<1>3. ASSUME NEW j \in Job, CancelInQueue(j)
      PROVE  Resumable'
  <2>1. UNCHANGED <<worker, request, pending, status, forms, up, toRestore>>
    BY <1>3 DEF CancelInQueue
  <2>2. ASSUME NEW i \in DOMAIN waiting, InQueue(j), waiting[i] = j,
               waiting' = RemoveAt(waiting, i), canceller[j] = "marked",
               canceller' = [canceller EXCEPT ![j] = "removed"]
        PROVE  Resumable'
    <3>1. \A k \in Job : (InQueue(k)' <=> InQueue(k) /\ k # j) /\ (AtWork(k)' <=> AtWork(k))
      BY <2>1, <2>2, Removed
    <3>2. status[j] = "queued" /\ canceller'[j] = "removed"
      BY <2>2 DEF Durable
    <3>3. \A k \in Job : k # j => canceller'[k] = canceller[k]
      BY <2>2
    <3> QED
      BY <2>1, <2>2, <3>1, <3>2, <3>3
  <2>3. ASSUME waiting' = waiting, canceller[j] = "marked",
               \/ AtWork(j) /\ canceller' = [canceller EXCEPT ![j] = "removed"]
               \/ canceller' = [canceller EXCEPT ![j] = "leaving"]
        PROVE  Resumable'
    <3>1. \A k \in Job : (InQueue(k)' <=> InQueue(k)) /\ (AtWork(k)' <=> AtWork(k))
      BY <2>1, <2>3, SameJobs
    <3> QED
      BY <2>1, <2>3, <3>1
  <2> QED
    BY <1>3, <2>2, <2>3 DEF CancelInQueue, CancelGoes
<1>4. ASSUME NEW j \in Job, CancelAdmit(j) \/ CancelMark(j) \/ CancelEntry(j) \/ CancelClean(j)
                             \/ CancelAnswer(j) \/ ForcedCancel(j)
      PROVE  Resumable'
  <2>1. UNCHANGED <<waiting, worker, request, up, toRestore>>
    BY <1>4 DEF CancelAdmit, CancelMark, CancelEntry, CancelClean, CancelAnswer, ForcedCancel
  <2>2. \A k \in Job : (InQueue(k)' <=> InQueue(k)) /\ (AtWork(k)' <=> AtWork(k))
    BY <2>1, SameJobs
  <2>3. \A k \in Job : pending'[k] = "queued" => pending[k] = "queued"
    BY <1>4 DEF CancelAdmit, CancelMark, CancelEntry, CancelClean, CancelAnswer, ForcedCancel,
                MarkState, CleanDirectory
  <2>4. CASE CancelEntry(j) /\ status[j] = "queued"
    <3>1. /\ canceller[j] = "removed" /\ canceller' = [canceller EXCEPT ![j] = "finished"]
          /\ status' = [status EXCEPT ![j] = "cancelled"] /\ forms' = forms \ {j}
      BY <2>4 DEF CancelEntry, CancelGoes
    <3>2. ~ InQueue(j) /\ request[j] # "published"
      BY <3>1 DEF Durable, Early
    <3> QED
      BY <2>1, <2>2, <2>3, <3>1, <3>2
  <2>5. CASE CancelEntry(j) /\ status[j] # "queued"
    <3>1. /\ canceller[j] = "removed" /\ canceller' = [canceller EXCEPT ![j] = "leaving"]
          /\ UNCHANGED <<status, forms>>
      BY <2>5 DEF CancelEntry, CancelGoes
    <3> QED
      BY <2>1, <2>2, <2>3, <2>5, <3>1
  <2>6. CASE CancelClean(j)
    <3>1. /\ canceller[j] = "finished" /\ canceller' = [canceller EXCEPT ![j] = "withdrawn"]
          /\ pending' = [pending EXCEPT ![j] = "none"] /\ UNCHANGED <<status, forms>>
      BY <2>6 DEF CancelClean, CancelGoes, CleanDirectory
    <3> QED
      BY <2>1, <2>2, <2>3, <3>1
  <2>7. CASE CancelAdmit(j) \/ CancelMark(j) \/ CancelAnswer(j)
    <3>1. /\ canceller[j] \notin {"removed", "finished"} /\ UNCHANGED <<status, forms>>
          /\ \E to \in CancelStep \ {"removed", "finished"} :
               canceller' = [canceller EXCEPT ![j] = to]
      BY <2>7 DEF CancelAdmit, CancelMark, CancelAnswer, CancelGoes, CancelStep
    <3> QED
      BY <2>1, <2>2, <2>3, <3>1
  <2>8. CASE ForcedCancel(j)
    <3>1. UNCHANGED <<status, forms, canceller>>
      BY <2>8 DEF ForcedCancel
    <3> QED
      BY <2>1, <2>2, <2>3, <3>1
  <2> QED
    BY <1>4, <2>4, <2>5, <2>6, <2>7, <2>8
<1>5. ASSUME NEW w \in Worker, WorkerStays(w)
      PROVE  Resumable'
  <2> DEFINE j == worker[w].job
  <2>1. /\ UNCHANGED <<waiting, request, canceller, up, toRestore>>
        /\ \A v \in Worker : worker'[v].job = worker[v].job
        /\ \A v \in Worker \ {w} : worker'[v] = worker[v]
        /\ \A k \in Job : (InQueue(k)' <=> InQueue(k)) /\ (AtWork(k)' <=> AtWork(k))
        /\ \A k \in Job : pending'[k] = "queued" => pending[k] = "queued"
        /\ \A k \in Job : status'[k] = "queued" => status[k] = "queued"
        /\ \A k \in Job : k # j => status'[k] = status[k]
    BY <1>5, AtTheJob
  <2>2. j \in Job => AtWork(j)
    BY DEF AtWork
  <2>3. \A k \in Job : canceller'[k] = "removed" /\ pending'[k] = "queued" =>
                         AtWork(k)' \/ status'[k] = "queued"
    BY <2>1, <2>2
  <2>4. CASE ~ End(w)
    <3>1. /\ forms' = forms
          /\ worker'[w].step \in {"ended", "leaving"} => worker[w].step \in {"ended", "leaving"}
      <4>1. /\ forms' = forms
            /\ \E to \in WorkerStep :
                 /\ worker' = [worker EXCEPT ![w].step = to]
                 /\ to \in {"ended", "leaving"} => worker[w].step = "ended"
        BY <1>5, <2>4 DEF WorkerStays, WorkerAdmit, Start, Execute, Complete, WorkerGoes, WorkerStep
      <4> QED
        BY <4>1 DEF WorkerTypes
    <3> QED
      BY <2>1, <2>3, <3>1
  <2>5. CASE End(w)
    <3>1. /\ worker[w].step \notin {"idle", "admitted"} /\ forms' = forms \ {j}
          /\ j \in forms => pending' = [pending EXCEPT ![j] = "none"]
      BY <2>5 DEF End, Outcome, CleanDirectory
    <3>2. j \in Job /\ ~ InQueue(j) /\ request[j] # "published"
      BY <1>0, <3>1 DEF Placed, Early
    <3>3. j \in forms => pending'[j] = "none"
      BY <3>1, <3>2
    <3> HIDE DEF j
    <3>4. \A k \in Job : AtWork(k)' /\ pending'[k] = "queued" => k \in forms' \/ canceller'[k] = "finished"
      BY <2>1, <3>1, <3>3
    <3>5. \A v \in Worker : worker'[v].step \in {"ended", "leaving"} => worker'[v].job \notin forms'
      BY <2>1, <3>1 DEF j
    <3> QED
      BY <2>1, <2>3, <3>1, <3>2, <3>4, <3>5
  <2> QED
    BY <2>4, <2>5
<1>6. ASSUME NEW w \in Worker, Take(w)
      PROVE  Resumable'
  <2> DEFINE j == Head(waiting)
  <2>1. /\ UNCHANGED <<request, pending, status, forms, canceller, up, toRestore>>
        /\ worker' = [worker EXCEPT ![w] = [step |-> "taken", job |-> j]]
    BY <1>6, WorkerFrame DEF Take, Workers, WorkerStepOf
  <2>2. /\ j \in Job /\ InQueue(j)
        /\ \A k \in Job : /\ InQueue(k)' <=> InQueue(k) /\ k # j
                          /\ AtWork(k)' <=> AtWork(k) \/ k = j
    BY <1>6, Taken
  <2>3. \A v \in Worker : worker'[v].step \in {"ended", "leaving"} => worker'[v].job \notin forms'
    BY <2>1 DEF WorkerTypes
  <2> HIDE DEF j
  <2> QED
    BY <2>1, <2>2, <2>3
<1>7. ASSUME NEW w \in Worker, Leave(w)
      PROVE  Resumable'
  <2> DEFINE j == worker[w].job
  <2>1. /\ UNCHANGED <<request, pending, status, forms, canceller, up, toRestore>>
        /\ worker' = [worker EXCEPT ![w] = Idle] /\ worker[w].step = "leaving"
    BY <1>7, WorkerFrame DEF Leave, Workers, WorkerStepOf
  <2>2. /\ j \in Job /\ AtWork(j)
        /\ \A k \in Job : (InQueue(k)' <=> InQueue(k)) /\ (AtWork(k)' <=> AtWork(k) /\ k # j)
    BY <1>7, Left
  <2>3. pending[j] = "queued" => canceller[j] = "finished"
    BY <2>1, <2>2
  <2>4. \A v \in Worker : worker'[v].step \in {"ended", "leaving"} => worker'[v].job \notin forms'
    BY <2>1 DEF WorkerTypes, Idle
  <2> HIDE DEF j
  <2> QED
    BY <2>1, <2>2, <2>3, <2>4
<1>8. CASE Stop
  <2>1. /\ up' = "down" /\ waiting' = <<>>
        /\ \A v \in Worker : worker'[v] = Idle
        /\ \A k \in Job : request'[k] # "published" /\ canceller'[k] # "removed"
    BY <1>8 DEF Stop
  <2>2. \A k \in Job : ~ InQueue(k)' /\ ~ AtWork(k)'
    BY <2>1 DEF InQueue, AtWork, Idle
  <2> QED
    BY <2>1, <2>2 DEF Idle
<1>9. CASE Boot
  <2>1. UNCHANGED <<waiting, worker, request, pending, status, forms, canceller>>
    BY <1>9 DEF Boot
  <2>2. \A k \in Job : (InQueue(k)' <=> InQueue(k)) /\ (AtWork(k)' <=> AtWork(k))
    BY <2>1, SameJobs
  <2>3. \A k \in Job : pending[k] = "queued" => Within(toRestore', k)
    <3>1. PICK s \in SetToSeqs(QueuedForms) : toRestore' = s
      BY <1>9 DEF Boot
    <3>2. \A k \in QueuedForms : Within(s, k)
      BY <3>1, AllAreRestored
    <3> QED
      BY <3>1, <3>2 DEF QueuedForms
  <2> QED
    BY <2>1, <2>2, <2>3 DEF Within
<1>10. CASE RestoreJob
  <2> DEFINE j == Head(toRestore)
  <2>1. /\ UNCHANGED <<request, pending, canceller, worker, up>>
        /\ up = "restoring" /\ toRestore # <<>> /\ j \in Job
    BY <1>10, StartupFrame DEF RestoreJob, Startup, QueueTypes
  <2>2. /\ toRestore' = Tail(toRestore) /\ waiting' = Append(waiting, j)
        /\ status' = [status EXCEPT ![j] = "queued"] /\ forms' = forms \union {j}
    BY <1>10 DEF RestoreJob, Fits
  <2>3. /\ Within(toRestore, j)
        /\ \A k \in Job : Within(toRestore', k) <=> Within(toRestore, k) /\ k # j
    BY <2>1, <2>2, OnceTail DEF Placed, QueueTypes
  <2>4. ~ InQueue(j) /\ ~ AtWork(j) /\ canceller[j] # "removed"
    BY <2>1, <2>3 DEF Placed, Phases
  <2> HIDE DEF j
  <2>5. \A k \in Job : (InQueue(k)' <=> InQueue(k) \/ k = j) /\ (AtWork(k)' <=> AtWork(k))
    BY <2>1, <2>2, <2>4, Joins
  <2>6. \A v \in Worker : worker'[v].step \in {"ended", "leaving"} => worker'[v].job \notin forms'
    BY <1>0, <2>1, <2>2, <2>4
  <2> QED
    BY <2>1, <2>2, <2>3, <2>4, <2>5, <2>6
<1>11. CASE Control \/ Serve \/ UNCHANGED vars
  <2>1. /\ UNCHANGED <<waiting, toRestore, request, pending, status, forms, canceller, worker>>
        /\ up' = up \/ up # "down"
    BY <1>11, ControlFrame DEF Serve, vars
  <2>2. \A k \in Job : (InQueue(k)' <=> InQueue(k)) /\ (AtWork(k)' <=> AtWork(k))
    BY <2>1, SameJobs
  <2> QED
    BY <2>1, <2>2 DEF Within
<1> QED
  BY <1>1, <1>2, <1>3, <1>4, <1>5, <1>6, <1>7, <1>8, <1>9, <1>10, <1>11, Steps
     DEF Clients, ClientStep, Cancellers, CancelStepOf, Workers, WorkerStepOf, WorkerStays, Startup

\* The form the startup is at has no slot.
LEMMA NextToRestore ==
    ASSUME Typed, Phases, Placed, Slots, RestoreJob
    PROVE  /\ Head(toRestore) \in Job /\ Within(toRestore, Head(toRestore))
           /\ Head(toRestore) \notin reservations
<1> DEFINE j == Head(toRestore)
<1>1. up = "restoring" /\ toRestore # <<>> /\ j \in Job /\ Within(toRestore, j)
  BY OnceTail DEF RestoreJob, Typed, QueueTypes, Placed
<1> HIDE DEF j
<1>2. ~ InQueue(j) /\ ~ AtWork(j) /\ request[j] \notin Staging
  BY <1>1 DEF Placed, Phases, Staging
<1>3. j \notin reservations
  BY <1>1, <1>2 DEF Slots
<1> QED
  BY <1>1, <1>3 DEF j

\* Where the queue has room for every job there is, a restored form finds its slot.
LEMMA RoomForAll ==
    ASSUME Typed, Phases, Placed, Slots, BadForms = {},
           Cardinality(Job) <= MaxPending, Cardinality(Job) <= MaxPerOwner
    PROVE  Fits
<1> USE DEF Typed, EntryTypes
<1> SUFFICES ASSUME RestoreJob
             PROVE  HasCapacity(Head(toRestore))
  BY DEF Fits
<1> DEFINE j == Head(toRestore)
           own == {k \in reservations : OwnerOf[k] = OwnerOf[j]}
<1>1. j \in Job /\ j \notin reservations
  BY NextToRestore
<1>2. /\ IsFiniteSet(Job \ {j}) /\ Cardinality(Job \ {j}) = Cardinality(Job) - 1
      /\ Cardinality(Job) \in Nat
  BY <1>1, FS_RemoveElement, FS_CardinalityType
<1>3. reservations \in SUBSET (Job \ {j}) /\ own \in SUBSET (Job \ {j})
  BY <1>1
<1>4. /\ Cardinality(reservations) \in Nat /\ Cardinality(reservations) <= Cardinality(Job) - 1
      /\ Cardinality(own) \in Nat /\ Cardinality(own) <= Cardinality(Job) - 1
  BY <1>2, <1>3, FS_Subset, FS_CardinalityType
<1> QED
  BY <1>2, <1>4 DEF HasCapacity

\* No DELETE marks a job that users see already and that is not submitted yet: otherwise submit
\* makes the marked form "queued" once more, while the queue gives the job's slot away.
Unraced == \A j \in Job : request[j] = "published" => canceller[j] # "marked"

\* Then a canceller's job is not queued on disk, unless a worker has it.
Marked ==
    \A j \in Job :
      /\ canceller[j] \in {"marked", "removed"} /\ status[j] = "queued" => pending[j] # "queued"
      /\ canceller[j] = "finished" => pending[j] # "queued"

LEMMA MarkedKept ==
    ASSUME Typed, Phases, Placed, Durable, Unraced, Marked, [Next]_vars
    PROVE  Marked'
<1> USE DEF Marked, Typed, EntryTypes, diskVars, entryVars, historyVars, queueVars, processVars
<1>1. ASSUME NEW j \in Job, Admit(j) \/ Reserve(j) \/ StageForm(j) \/ StageFails(j) \/ Publish(j)
                             \/ SubmitFails(j) \/ Respond(j)
      PROVE  Marked'
  BY <1>1, BeforeSubmission
<1>2. ASSUME NEW j \in Job, Submit(j)
      PROVE  Marked'
  <2>1. /\ request[j] = "published" /\ UNCHANGED <<status, canceller>>
        /\ \A k \in Job \ {j} : pending'[k] = pending[k]
    BY <1>2 DEF Submit, RequestGoes, MarkState
  <2>2. canceller[j] \notin {"marked", "removed", "finished"}
    BY <2>1 DEF Unraced, Durable, Early
  <2> QED
    BY <2>1, <2>2
<1>3. ASSUME NEW j \in Job, CancelMark(j)
      PROVE  Marked'
  <2>1. status' = status /\ \E to \in {"marked", "leaving"} : canceller' = [canceller EXCEPT ![j] = to]
    BY <1>3 DEF CancelMark, CancelGoes
  <2>2. \/ pending' = [pending EXCEPT ![j] = IF @ = "none" THEN @ ELSE "cancelled"]
        \/ pending' = pending /\ (status[j] # "queued" \/ canceller'[j] = "leaving")
    BY <1>3 DEF CancelMark, MarkState, CancelGoes
  <2> QED
    BY <2>1, <2>2
<1>4. ASSUME NEW j \in Job, CancelInQueue(j)
      PROVE  Marked'
  <2>1. /\ UNCHANGED <<status, pending>> /\ canceller[j] = "marked"
        /\ \E to \in {"removed", "leaving"} : canceller' = [canceller EXCEPT ![j] = to]
    BY <1>4 DEF CancelInQueue, CancelGoes
  <2> QED
    BY <2>1
<1>5. ASSUME NEW j \in Job, CancelEntry(j)
      PROVE  Marked'
  <2>1. /\ pending' = pending /\ canceller[j] = "removed"
        /\ \/ /\ status[j] = "queued" /\ status' = [status EXCEPT ![j] = "cancelled"]
              /\ canceller' = [canceller EXCEPT ![j] = "finished"]
           \/ status' = status /\ canceller' = [canceller EXCEPT ![j] = "leaving"]
    BY <1>5 DEF CancelEntry, CancelGoes
  <2> QED
    BY <2>1
<1>6. ASSUME NEW j \in Job, CancelAdmit(j) \/ CancelClean(j) \/ CancelAnswer(j) \/ ForcedCancel(j)
      PROVE  Marked'
  <2>1. /\ status' = status
        /\ canceller' = canceller
             \/ \E to \in {"admitted", "withdrawn", "done", "idle"} :
                  canceller' = [canceller EXCEPT ![j] = to]
    BY <1>6 DEF CancelAdmit, CancelClean, CancelAnswer, ForcedCancel, CancelGoes
  <2>2. \A k \in Job : pending'[k] = "queued" => pending[k] = "queued"
    BY <1>6 DEF CancelAdmit, CancelClean, CancelAnswer, ForcedCancel, CleanDirectory
  <2> QED
    BY <2>1, <2>2
<1>7. ASSUME NEW w \in Worker, WorkerStays(w)
      PROVE  Marked'
  BY <1>7, AtTheJob
<1>8. ASSUME NEW w \in Worker, Take(w) \/ Leave(w)
      PROVE  Marked'
  <2>1. UNCHANGED <<pending, status, canceller>>
    BY <1>8, WorkerFrame DEF Take, Leave, Workers, WorkerStepOf
  <2> QED
    BY <2>1
<1>9. CASE Stop
  BY <1>9 DEF Stop
<1>10. CASE RestoreJob
  <2>1. UNCHANGED <<pending, canceller>> /\ up = "restoring"
    BY <1>10, StartupFrame DEF RestoreJob, Startup
  <2> QED
    BY <2>1 DEF Phases
<1>11. CASE Control \/ Boot \/ Serve \/ UNCHANGED vars
  <2>1. UNCHANGED <<pending, status, canceller>>
    BY <1>11, ControlFrame DEF Boot, Serve, vars
  <2> QED
    BY <2>1
<1> QED
  BY <1>1, <1>2, <1>3, <1>4, <1>5, <1>6, <1>7, <1>8, <1>9, <1>10, <1>11, Steps
     DEF Clients, ClientStep, Cancellers, CancelStepOf, Workers, WorkerStepOf, WorkerStays, Startup

\* The slots that are taken, or will be when the startup has restored what there is: never more
\* than the queue allows, in all and for an owner.
Claimed ==
    IF up = "down" THEN QueuedForms
                   ELSE reservations \union {j \in Job : Within(toRestore, j)}
ClaimedBy(o) == {j \in Claimed : OwnerOf[j] = o}
Claims ==
    /\ Claimed \subseteq Job
    /\ Cardinality(Claimed) <= MaxPending
    /\ \A o \in Owner : Cardinality(ClaimedBy(o)) <= MaxPerOwner

\* Every form queued on disk has a claim.
LEMMA FormsAreClaimed ==
    ASSUME Phases, Slots, Resumable, Marked
    PROVE  QueuedForms \subseteq Claimed
BY DEF Phases, Slots, Resumable, Marked, Claimed, QueuedForms

LEMMA FewerClaims ==
    ASSUME Claims, Claimed' \subseteq Claimed
    PROVE  Claims'
<1>1. Claimed \in SUBSET Job /\ Claimed' \in SUBSET Claimed
  BY DEF Claims
<1>2. IsFiniteSet(Claimed) /\ Cardinality(Claimed) \in Nat
  BY <1>1, FS_Subset, FS_CardinalityType
<1>3. Cardinality(Claimed') \in Nat /\ Cardinality(Claimed') <= Cardinality(Claimed)
  BY <1>1, <1>2, FS_Subset, FS_CardinalityType
<1>4. ASSUME NEW o \in Owner
      PROVE  Cardinality(ClaimedBy(o)') <= MaxPerOwner
  <2>1. ClaimedBy(o) \in SUBSET Claimed /\ ClaimedBy(o)' \in SUBSET ClaimedBy(o)
    BY <1>1 DEF ClaimedBy
  <2>2. IsFiniteSet(ClaimedBy(o)) /\ Cardinality(ClaimedBy(o)) \in Nat
    BY <1>2, <2>1, FS_Subset, FS_CardinalityType
  <2>3. /\ Cardinality(ClaimedBy(o)') \in Nat
        /\ Cardinality(ClaimedBy(o)') <= Cardinality(ClaimedBy(o))
    BY <2>1, <2>2, FS_Subset, FS_CardinalityType
  <2>4. Cardinality(ClaimedBy(o)) <= MaxPerOwner
    BY DEF Claims
  <2> QED
    BY <2>2, <2>3, <2>4
<1>5. Cardinality(Claimed) <= MaxPending
  BY DEF Claims
<1>6. Cardinality(Claimed') <= MaxPending
  BY <1>2, <1>3, <1>5
<1>7. Claimed' \subseteq Job
  BY <1>1
<1> QED
  BY <1>4, <1>6, <1>7 DEF Claims

\* A reservation is made where there is room.
LEMMA OneMoreClaim ==
    ASSUME Typed, Phases, Claims, NEW j \in Job, HasCapacity(j), up = "serving", up' = up,
           toRestore' = toRestore, reservations' = reservations \union {j}
    PROVE  Claims'
<1> USE DEF Typed, EntryTypes
<1>1. Claimed = reservations /\ Claimed' = reservations \union {j}
  BY DEF Phases, Claimed, Within
<1>2. IsFiniteSet(reservations) /\ Cardinality(reservations) \in Nat
  BY FS_Subset, FS_CardinalityType
<1>3. Cardinality(Claimed') <= MaxPending
  <2>1. Cardinality(reservations) < MaxPending
    BY DEF HasCapacity
  <2>2. Cardinality(reservations \union {j}) \in {Cardinality(reservations), Cardinality(reservations) + 1}
    BY <1>2, FS_AddElement
  <2> QED
    BY <1>1, <1>2, <2>1, <2>2
<1>4. ASSUME NEW o \in Owner
      PROVE  Cardinality(ClaimedBy(o)') <= MaxPerOwner
  <2> DEFINE own == {k \in reservations : OwnerOf[k] = o}
  <2>1. ClaimedBy(o) = own /\ ClaimedBy(o)' = IF OwnerOf[j] = o THEN own \union {j} ELSE own
    BY <1>1 DEF ClaimedBy
  <2>2. IsFiniteSet(own) /\ Cardinality(own) \in Nat
    <3>1. own \in SUBSET reservations
      OBVIOUS
    <3> QED
      BY <1>2, <3>1, FS_Subset, FS_CardinalityType
  <2>3. Cardinality(own) <= MaxPerOwner
    BY <2>1 DEF Claims
  <2>4. CASE OwnerOf[j] = o
    <3>1. Cardinality(own) < MaxPerOwner
      BY <2>4 DEF HasCapacity
    <3> HIDE DEF own
    <3>2. Cardinality(own \union {j}) \in {Cardinality(own), Cardinality(own) + 1}
      BY <2>2, FS_AddElement
    <3> QED
      BY <2>1, <2>2, <2>4, <3>1, <3>2
  <2>5. CASE OwnerOf[j] # o
    BY <2>1, <2>3, <2>5
  <2> QED
    BY <2>4, <2>5
<1>5. Claimed' \subseteq Job
  BY <1>1
<1> QED
  BY <1>3, <1>4, <1>5 DEF Claims

LEMMA ClaimsKept ==
    ASSUME Typed, Phases, Placed, Slots, Resumable, Marked, Claims, [Next]_vars, Placed'
    PROVE  Claims'
<1> USE DEF queueVars, processVars, diskVars
<1>1. ASSUME NEW j \in Job, Reserve(j), reservations' # reservations
      PROVE  Claims'
  <2>1. /\ HasCapacity(j) /\ up = "serving" /\ UNCHANGED <<up, toRestore>>
        /\ reservations' = reservations \union {j}
    BY <1>1 DEF Reserve, RequestGoes
  <2> QED
    BY <2>1, OneMoreClaim
<1>2. ASSUME up # "down", UNCHANGED <<up, toRestore>>, reservations' \subseteq reservations
      PROVE  Claims'
  BY <1>2, FewerClaims DEF Claimed
<1>3. CASE Clients
  <2>1. up = "serving" /\ UNCHANGED <<up, toRestore>>
    BY <1>3, ClientFrame DEF Clients, ClientStep, Admit, Reserve, StageForm, StageFails, Publish,
       Submit, SubmitFails, Respond, RequestGoes
  <2>2. reservations' \subseteq reservations \/ \E j \in Job : Reserve(j) /\ reservations' # reservations
    BY <1>3 DEF Clients, ClientStep, Admit, Reserve, StageForm, StageFails, Publish, Submit,
       SubmitFails, Respond
  <2> QED
    BY <1>1, <1>2, <2>1, <2>2
<1>4. CASE Cancellers
  <2>1. up # "down" /\ UNCHANGED <<up, toRestore>>
    BY <1>4, CancelFrame DEF Cancellers, CancelStepOf, CancelAdmit, CancelMark, CancelInQueue,
       CancelEntry, CancelClean, CancelAnswer, ForcedCancel, CancelGoes
  <2>2. reservations' \subseteq reservations
    BY <1>4 DEF Cancellers, CancelStepOf, CancelAdmit, CancelMark, CancelInQueue, CancelEntry,
       CancelClean, CancelAnswer, ForcedCancel
  <2> QED
    BY <1>2, <2>1, <2>2
<1>5. CASE Workers
  <2>1. up # "down" /\ UNCHANGED <<up, toRestore>>
    BY <1>5, WorkerFrame DEF Workers, WorkerStepOf, WorkerAdmit, Take, Start, Execute, End,
       Complete, Leave, WorkerGoes
  <2>2. reservations' \subseteq reservations
    BY <1>5 DEF Workers, WorkerStepOf, WorkerAdmit, Take, Start, Execute, End, Complete, Leave
  <2> QED
    BY <1>2, <2>1, <2>2
<1>6. CASE Control \/ UNCHANGED vars
  <2>1. UNCHANGED <<up, toRestore, reservations, pending>>
    BY <1>6, ControlFrame DEF vars
  <2> QED
    BY <2>1, FewerClaims DEF Claimed, QueuedForms
<1>7. CASE Stop
  <2>1. Claimed' = QueuedForms
    BY <1>7 DEF Stop, Claimed, QueuedForms
  <2> QED
    BY <2>1, FormsAreClaimed, FewerClaims
<1>8. CASE Boot
  <2>1. up = "down" /\ up' = "restoring" /\ UNCHANGED <<reservations, pending>>
    BY <1>8 DEF Boot
  <2>2. reservations = {}
    <3>1. \A k \in Job : ~ InQueue(k) /\ ~ AtWork(k) /\ request[k] \notin Staging
      BY <2>1 DEF Phases, Staging, InQueue, AtWork, Idle
    <3> QED
      BY <3>1 DEF Slots, Typed, EntryTypes
  <2>3. \A j \in Job : Within(toRestore', j) => pending[j] = "queued"
    BY <2>1 DEF Placed
  <2> QED
    BY <2>1, <2>2, <2>3, FewerClaims DEF Claimed, QueuedForms
<1>9. CASE RestoreJob
  <2> DEFINE j == Head(toRestore)
  <2>1. j \in Job /\ Within(toRestore, j)
    BY <1>9, NextToRestore
  <2>2. /\ up = "restoring" /\ up' = up /\ reservations' \subseteq reservations \union {j}
        /\ \A k \in Job : Within(toRestore', k) => Within(toRestore, k)
    <3>1. /\ up = "restoring" /\ up' = up /\ reservations' \subseteq reservations \union {j}
          /\ toRestore' \in {Tail(toRestore), <<>>} /\ toRestore # <<>>
      BY <1>9 DEF RestoreJob
    <3>2. \A k \in Job : Within(Tail(toRestore), k) => Within(toRestore, k)
      BY <3>1, OnceTail DEF Placed, Typed, QueueTypes
    <3> QED
      BY <3>1, <3>2 DEF Within
  <2> HIDE DEF j
  <2>3. Claimed' \subseteq Claimed
    BY <2>1, <2>2 DEF Claimed
  <2> QED
    BY <2>3, FewerClaims
<1>10. CASE Serve
  <2>1. Claimed' = Claimed
    BY <1>10 DEF Serve, Claimed
  <2> QED
    BY <2>1, FewerClaims
<1> QED
  BY <1>3, <1>4, <1>5, <1>6, <1>7, <1>8, <1>9, <1>10, Steps DEF Startup

\* The form at the head of what is to be restored has a claim and no slot yet.
LEMMA ClaimsFit ==
    ASSUME Typed, Phases, Placed, Slots, Claims, BadForms = {}
    PROVE  Fits
<1> SUFFICES ASSUME RestoreJob
             PROVE  HasCapacity(Head(toRestore))
  BY DEF Fits
<1> DEFINE j == Head(toRestore)
           own == {k \in reservations : OwnerOf[k] = OwnerOf[j]}
<1>1. j \in Job /\ j \notin reservations /\ Within(toRestore, j) /\ up = "restoring"
  BY NextToRestore DEF RestoreJob
<1>2. Claimed \in SUBSET Job /\ j \in Claimed /\ reservations \in SUBSET (Claimed \ {j})
  BY <1>1 DEF Claims, Claimed
<1>3. IsFiniteSet(Claimed) /\ Cardinality(Claimed) \in Nat
  BY <1>2, FS_Subset, FS_CardinalityType
<1>4. Cardinality(reservations) \in Nat /\ Cardinality(reservations) < Cardinality(Claimed)
  <2>1. IsFiniteSet(Claimed \ {j}) /\ Cardinality(Claimed \ {j}) = Cardinality(Claimed) - 1
    BY <1>2, <1>3, FS_RemoveElement
  <2>2. Cardinality(reservations) \in Nat /\ Cardinality(reservations) <= Cardinality(Claimed \ {j})
    BY <1>2, <2>1, FS_Subset, FS_CardinalityType
  <2> QED
    BY <1>3, <2>1, <2>2
<1> DEFINE all == ClaimedBy(OwnerOf[j])
<1>5. all \in SUBSET Claimed /\ j \in all /\ own \in SUBSET (all \ {j})
  BY <1>2 DEF ClaimedBy
<1>6. OwnerOf[j] \in Owner
  BY <1>1
<1>7. Cardinality(all) <= MaxPerOwner /\ Cardinality(Claimed) <= MaxPending
  BY <1>6 DEF Claims
<1>8. HasCapacity(j) <=> Cardinality(own) < MaxPerOwner /\ Cardinality(reservations) < MaxPending
  BY DEF HasCapacity
<1> HIDE DEF j, own, all
<1>9. IsFiniteSet(all) /\ Cardinality(all) \in Nat
  BY <1>3, <1>5, FS_Subset, FS_CardinalityType
<1>10. Cardinality(own) \in Nat /\ Cardinality(own) < Cardinality(all)
  <2>1. IsFiniteSet(all \ {j}) /\ Cardinality(all \ {j}) = Cardinality(all) - 1
    BY <1>5, <1>9, FS_RemoveElement
  <2>2. Cardinality(own) \in Nat /\ Cardinality(own) <= Cardinality(all \ {j})
    BY <1>5, <2>1, FS_Subset, FS_CardinalityType
  <2> QED
    BY <1>9, <2>1, <2>2
<1>11. Cardinality(own) < MaxPerOwner /\ Cardinality(reservations) < MaxPending
  BY <1>3, <1>4, <1>7, <1>9, <1>10
<1> QED
  BY <1>8, <1>11 DEF j

LEMMA ResumableAtFirst == Init => Resumable
BY DEF Init, Idle, Resumable, InQueue, AtWork

LEMMA ResumableIsInQueue == Phases /\ Resumable => QueuedFormsAreInQueue
BY DEF Phases, Resumable, QueuedFormsAreInQueue, Within

\* load_pending and _restore_pending_process_jobs bring every queued form back, and no path of a
\* worker or of a canceller forgets one, where the limits of the queue never bind.  The other two
\* assumptions are needed: one bad form ends the restoration of the rest, and a directory that
\* cannot be removed keeps a form that says "queued" for ever.
THEOREM QueuedFormsAreResumed ==
    ASSUME ~ CleanupMayFail, BadForms = {},
           Cardinality(Job) <= MaxPending, Cardinality(Job) <= MaxPerOwner
    PROVE  Spec => []QueuedFormsAreInQueue
<1>1. Typed /\ Phases /\ Placed /\ Slots /\ Durable /\ Resumable /\ [Next]_vars => Resumable'
  BY RoomForAll, ResumableKept
<1> QED
  BY <1>1, ResumableAtFirst, ResumableIsInQueue, TypedInvariant, PhasesInvariant, PlacedInvariant,
     SlotsInvariant, DurableInvariant, PTL DEF Spec

\* At any limits, full queues included, the forms still find their slots again after every
\* restart, as long as no DELETE comes between the publication of a job and its submission.
THEOREM QueuedFormsFitAgain ==
    ASSUME ~ CleanupMayFail, BadForms = {}
    PROVE  Spec /\ []Unraced => []QueuedFormsAreInQueue
<1>1. Init => Marked /\ Claims
  <2>1. Init => Marked
    BY DEF Init, Marked
  <2>2. Init => Claimed = {}
    BY DEF Init, Claimed, Within
  <2>3. ASSUME Init
        PROVE  Claims
    <3>1. Claimed = {} /\ \A o \in Owner : ClaimedBy(o) = {}
      BY <2>2, <2>3 DEF ClaimedBy
    <3>2. 0 <= MaxPending /\ 0 <= MaxPerOwner
      OBVIOUS
    <3> QED
      BY <3>1, <3>2, FS_EmptySet DEF Claims
  <2> QED
    BY <2>1, <2>3
<1>2. Typed /\ Phases /\ Placed /\ Slots /\ Durable /\ Claims /\ Resumable /\ [Next]_vars
        => Resumable'
  BY ClaimsFit, ResumableKept
<1>3. Typed /\ Phases /\ Placed /\ Durable /\ Unraced /\ Marked /\ [Next]_vars => Marked'
  BY MarkedKept
<1>4. Typed /\ Phases /\ Placed /\ Slots /\ Resumable /\ Marked /\ Claims /\ [Next]_vars => Claims'
  BY PlacedKept, ClaimsKept
<1> QED
  BY <1>1, <1>2, <1>3, <1>4, ResumableAtFirst, ResumableIsInQueue, TypedInvariant, PhasesInvariant,
     PlacedInvariant, SlotsInvariant, DurableInvariant, PTL DEF Spec
=============================================================================
