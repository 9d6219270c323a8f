--------------------------- MODULE ReleaseOperation ---------------------------
(***************************************************************************)
(* An operation of whole releases: an update, or a restart.  The backend   *)
(* journals it, closes its own gate, installs the release and asks the     *)
(* controller, which outlives it, to restart it; a handoff file tells the  *)
(* controller which operation to confirm or undo.  Two processes therefore *)
(* write operations.json, each of them whole and from its own memory.      *)
(*                                                                         *)
(* The controller of an installation always defers (restart_is_deferred).  *)
(* The drain is one step: MaintenanceCoordinator models it.                *)
(***************************************************************************)
EXTENDS Naturals, FiniteSets

CONSTANTS
    Updates, Restarts,  \* requests, each of which is one operation
    Setup,              \* the release installed first
    None, Down,
    BundlesOcr,         \* releases bring an OCR component
    FaultInUndo,        \* the controller's undo may be cut short
    MaxFaults           \* model bound: losses of power, exceptions

Operation == Updates \union Restarts
Release == Updates \union {Setup}    \* named by the update that installs it
Handoff == [op : Operation, previous : Release, ocr : Release]

ASSUME ReleaseAssumption ==
    /\ Updates \intersect Restarts = {} /\ IsFiniteSet(Operation)
    /\ None \notin Operation \union Handoff /\ Down \notin Release
    /\ Setup \notin Operation
    /\ {BundlesOcr, FaultInUndo} \subseteq BOOLEAN /\ MaxFaults \in Nat

VARIABLES
    disk, handoff,    \* operations.json, restart-handoff.json
    active, ocr,      \* active.json, components/ocr/active.json
    epoch,            \* session-epoch.json
    backend, loaded,  \* the release that runs; whether it has built its service
    memory, blocked,  \* its journal, and whether it found an operation to recover
    gate,             \* the operation that closes its gate
    work,             \* its maintenance thread: what runs next, and the release it found
    runtime,          \* a force that has read the journal and will write it
    task, pending,    \* the controller's restart thread, and _restart_pending
    copy, held,       \* the journal and the handoff that thread has read
    found,            \* history: the release and OCR each operation found
    faults

journalVars == <<disk, handoff>>
releaseVars == <<active, ocr>>
backendVars == <<backend, loaded, memory, blocked, gate, work, runtime>>
controllerVars == <<task, pending, copy, held>>
vars == <<journalVars, releaseVars, epoch, backendVars, controllerVars, found, faults>>

Ended == {"committed", "rolled_back", "recovery_required", "failed"}
Applying == {"backing_up", "installing", "validating", "rolling_back"}
State == {"none", "downloading", "draining", "stopping"} \union Applying \union Ended

\* Of _TRANSITIONS, the part these operations use.
Transitions ==
    [none |-> {"downloading"},
     downloading |-> {"draining", "failed"},
     draining |-> {"stopping", "backing_up", "failed"},
     stopping |-> {"backing_up", "installing", "failed"},
     backing_up |-> {"installing", "validating", "rolling_back", "failed"},
     installing |-> {"validating", "rolling_back", "failed"},
     validating |-> {"committed", "rolling_back", "recovery_required", "failed"},
     rolling_back |-> {"rolled_back", "recovery_required"}]

Idle == [op |-> None, step |-> "idle", previous |-> Setup, ocr |-> Setup]
\* What the maintenance thread journals next, and does then.
Journaling ==
    [drain    |-> <<"draining", "wait">>,      begin   |-> <<"draining", "save">>,
     save     |-> <<"backing_up", "backup">>,  install |-> <<"installing", "apply">>,
     stop     |-> <<"stopping", "replace">>,   replace |-> <<"installing", "hand_over">>,
     validate |-> <<"validating", "check">>,   confirm |-> <<"validating", "end">>,
     undo     |-> <<"rolling_back", "undo_active">>,
     undone   |-> <<"rolled_back", "complete">>,
     give_up  |-> <<"recovery_required", "complete">>,
     fail     |-> <<"failed", "complete">>,    refuse  |-> <<"failed", "end">>]
WorkStep == DOMAIN Journaling \union
    {"idle", "wait", "backup", "apply", "apply_ocr", "check", "hand_over", "ask",
     "look", "undo_active", "undo_ocr", "undo_ask", "complete", "drop_handoff", "end"}
\* Mutant: a state _TRANSITIONS does not know.
DecidingUnlisted ==
    [commit |-> <<"committed", "clear">>, undo |-> <<"rolled_back", "clear">>,
     give_up |-> <<"unhealthy", "idle">>]

\* What the controller journals, and does then ("rolled_back" right after "rolling_back").
Deciding ==
    [commit |-> <<"committed", "clear">>, undo |-> <<"rolled_back", "clear">>,
     give_up |-> <<"recovery_required", "idle">>]
TaskStep == DOMAIN Deciding \union
    {"idle", "boot", "scheduled", "check", "epoch", "clear",
     "undo_stop", "restore", "restore_ocr", "restart", "recheck"}

TypeOK ==
    /\ {disk, memory, copy} \subseteq [Operation -> State]
    /\ {handoff, held} \subseteq Handoff \union {None}
    /\ {active, ocr} \subseteq Release /\ epoch \in Nat
    /\ backend \in Release \union {Down} /\ {loaded, blocked, pending} \subseteq BOOLEAN
    /\ {gate, runtime} \subseteq Operation \union {None}
    /\ work \in [op : Operation \union {None}, step : WorkStep,
                 previous : Release, ocr : Release]
    /\ task \in TaskStep
    /\ found \in [Operation -> Release \X Release]
    /\ faults \in 0 .. MaxFaults

\* A process that has just started, or none.
NewBackend(release) ==
    /\ backend' = release /\ loaded' = FALSE /\ blocked' = FALSE
    /\ memory' = [o \in Operation |-> "none"]
    /\ gate' = None /\ work' = Idle /\ runtime' = None

Init ==
    /\ disk = [o \in Operation |-> "none"] /\ memory = disk /\ copy = disk
    /\ handoff = None /\ held = None
    /\ active = Setup /\ ocr = Setup /\ epoch = 0
    /\ backend = Setup /\ loaded = TRUE /\ blocked = FALSE
    /\ gate = None /\ work = Idle /\ runtime = None
    /\ task = "idle" /\ pending = FALSE
    /\ found = [o \in Operation |-> <<Setup, Setup>>]
    /\ faults = 0

(* ------------------------- the backend's thread ------------------------- *)

\* OperationJournal.transition and _persist: the whole file, from memory.
Log(o, state) ==
    /\ memory' = [memory EXCEPT ![o] = state]
    /\ disk' = memory'

Goes(step) == work' = [work EXCEPT !.step = step]

Unfinished(journal) == {o \in Operation : journal[o] \notin Ended \union {"none"}}

\* Mutant: a request is taken while another operation is unfinished.
SubmitRegardless(o) ==
    /\ loaded /\ ~ blocked /\ memory[o] = "none"
    /\ o \in Updates => o # active
    /\ Log(o, "downloading")
    /\ found' = [found EXCEPT ![o] = <<active, ocr>>]
    /\ UNCHANGED <<handoff, releaseVars, epoch, backend, loaded, blocked, gate, work,
                   runtime, controllerVars, faults>>

\* submit: a gate another operation still closes refuses begin(), and leaves the
\* operation in the journal with nobody to carry it out.
Submit(o) ==
    /\ loaded /\ ~ blocked /\ memory[o] = "none" /\ Unfinished(memory) = {}
    /\ o \in Updates => o # active
    /\ Log(o, "downloading")
    /\ found' = [found EXCEPT ![o] = <<active, ocr>>]
    /\ gate' = IF gate = None THEN o ELSE gate
    /\ work' = IF gate # None THEN work ELSE
               [op |-> o, step |-> IF o \in Restarts THEN "drain" ELSE "wait",
                previous |-> active, ocr |-> ocr]
    /\ UNCHANGED <<handoff, releaseVars, epoch, backend, loaded, blocked, runtime,
                   controllerVars, faults>>

\* A journal entry of UpdateTransaction or _execute_restart.
Enter ==
    /\ work.step \in DOMAIN Journaling
    /\ Log(work.op, Journaling[work.step][1])
    /\ Goes(Journaling[work.step][2])
    /\ UNCHANGED <<handoff, releaseVars, epoch, backend, loaded, blocked, gate, runtime,
                   controllerVars, found, faults>>

\* What a step of the thread leaves alone unless it says otherwise.
WorkOnly == UNCHANGED <<disk, epoch, backend, loaded, memory, blocked, runtime, copy,
                        held, found, faults>>

\* The gate is drained and the countdown over.
Drained ==
    /\ work.step = "wait"
    /\ Goes(IF work.op \in Restarts THEN "stop" ELSE "begin")
    /\ WorkOnly /\ UNCHANGED <<handoff, releaseVars, gate, task, pending>>

\* create_backup; the OCR marker is captured with it, when the release brings one.
Backup ==
    /\ work.step = "backup"
    /\ \/ work' = [work EXCEPT !.step = "install", !.previous = active, !.ocr = ocr]
       \/ Goes("fail")
    /\ WorkOnly /\ UNCHANGED <<handoff, releaseVars, gate, task, pending>>

Apply ==
    /\ work.step = "apply"
    /\ \/ active' = work.op /\ Goes("apply_ocr")
       \/ active' = active /\ Goes("undo")
    /\ WorkOnly /\ UNCHANGED <<handoff, ocr, gate, task, pending>>

ApplyOcr ==
    /\ work.step = "apply_ocr"
    /\ \/ ocr' = (IF BundlesOcr THEN work.op ELSE ocr) /\ Goes("validate")
       \/ ocr' = ocr /\ BundlesOcr /\ Goes("undo")
    /\ WorkOnly /\ UNCHANGED <<handoff, active, gate, task, pending>>

\* executor.validate, after "validating" has been journaled.
CheckFiles ==
    /\ work.step = "check"
    /\ Goes(IF active = work.op THEN "hand_over" ELSE "undo")
    /\ WorkOnly /\ UNCHANGED <<handoff, releaseVars, gate, task, pending>>

\* _create_restart_handoff reads the marker of OCR now.
HandOver ==
    /\ work.step = "hand_over"
    /\ \/ /\ handoff' = [op |-> work.op, ocr |-> ocr,
                         previous |-> IF work.op \in Restarts THEN active ELSE work.previous]
          /\ Goes("ask")
       \/ /\ handoff' = handoff
          /\ Goes(IF work.op \in Restarts THEN "drop_handoff" ELSE "undo")
    /\ WorkOnly /\ UNCHANGED <<releaseVars, gate, task, pending>>

\* restart_backend over the pipe: refused while one is pending, and at boot.
Schedule == task = "idle" /\ task' = "scheduled" /\ pending' = TRUE
Refused == task # "idle" /\ UNCHANGED <<task, pending>>

Ask ==
    /\ work.step = "ask"
    /\ \/ /\ Schedule /\ handoff' = handoff
          /\ Goes(IF work.op \in Restarts THEN "confirm" ELSE "look")
       \/ /\ Refused /\ handoff' = None
          /\ Goes(IF work.op \in Restarts THEN "refuse" ELSE "undo")
    /\ WorkOnly /\ UNCHANGED <<releaseVars, gate>>

\* _execute_restart's except: the handoff goes, the gate stays closed.
DropHandoff ==
    /\ work.step = "drop_handoff"
    /\ handoff' = IF handoff # None /\ handoff.op = work.op THEN None ELSE handoff
    /\ Goes("refuse")
    /\ WorkOnly /\ UNCHANGED <<releaseVars, gate, task, pending>>

\* controller.snapshot(), which may raise.
Look ==
    /\ work.step = "look"
    /\ Goes("end") \/ Goes("undo")
    /\ WorkOnly /\ UNCHANGED <<handoff, releaseVars, gate, task, pending>>

\* executor.rollback: the release, then the OCR it captured; then a restart.
UndoActive ==
    /\ work.step = "undo_active"
    /\ \/ active' = work.previous /\ Goes("undo_ocr")
       \/ active' = active /\ Goes("give_up")
    /\ WorkOnly /\ UNCHANGED <<handoff, ocr, gate, task, pending>>

UndoOcr ==
    /\ work.step = "undo_ocr"
    /\ \/ ocr' = work.ocr /\ Goes("undo_ask")
       \/ BundlesOcr /\ ocr' = ocr /\ Goes("give_up")
    /\ WorkOnly /\ UNCHANGED <<handoff, active, gate, task, pending>>

UndoAsk ==
    /\ work.step = "undo_ask"
    /\ (Schedule /\ Goes("undone")) \/ (Refused /\ Goes("give_up"))
    /\ WorkOnly /\ UNCHANGED <<handoff, releaseVars, gate>>

Complete ==
    /\ work.step \in {"complete", "end"}
    /\ gate' = IF work.step = "complete" THEN None ELSE gate
    /\ work' = Idle
    /\ WorkOnly /\ UNCHANGED <<handoff, releaseVars, task, pending>>

\* force_operation: reads the state, and writes the journal some time later.
ForceOperation(o) ==
    /\ loaded /\ runtime = None /\ o \in Unfinished(memory) /\ gate = o
    /\ runtime' = o
    /\ UNCHANGED <<journalVars, releaseVars, epoch, backend, loaded, memory, blocked,
                   gate, work, controllerVars, found, faults>>

UpdateRuntime ==
    /\ runtime # None /\ runtime' = None
    /\ disk' = memory
    /\ UNCHANGED <<handoff, releaseVars, epoch, backend, loaded, memory, blocked, gate,
                   work, controllerVars, found, faults>>

(* ------------------------ the backend's process ------------------------- *)

\* Mutant: the operation handed to the controller is recovered like any other.
LoadRecoveringAll ==
    /\ backend # Down /\ ~ loaded
    /\ loaded' = TRUE /\ memory' = disk
    /\ blocked' = (Unfinished(disk) # {})
    /\ disk' = [o \in Operation |->
                   IF o \notin Unfinished(disk) THEN disk[o]
                   ELSE IF disk[o] \in Applying THEN "recovery_required" ELSE "failed"]
    /\ UNCHANGED <<handoff, releaseVars, epoch, backend, gate, work, runtime,
                   controllerVars, found, faults>>

\* HandedTo(o): the controller has been told to confirm or undo o.
HandedTo(o) == handoff # None /\ handoff.op = o

\* What the next backend recovers when it starts.
Recovering == {o \in Unfinished(disk) : ~ (disk[o] = "validating" /\ HandedTo(o))}

\* InstalledOperationService.__init__: its journal is read before
\* recover_pending_operation, which writes with a journal of its own.
Load ==
    /\ backend # Down /\ ~ loaded
    /\ loaded' = TRUE /\ memory' = disk
    /\ blocked' = (Recovering # {})
    /\ disk' = [o \in Operation |->
                   IF o \notin Recovering THEN disk[o]
                   ELSE IF disk[o] \in Applying THEN "recovery_required" ELSE "failed"]
    /\ UNCHANGED <<handoff, releaseVars, epoch, backend, gate, work, runtime,
                   controllerVars, found, faults>>

\* It ends, or an administrator stops or starts it over the pipe.
BackendEnds ==
    /\ backend # Down
    /\ NewBackend(Down)
    /\ UNCHANGED <<journalVars, releaseVars, epoch, controllerVars, found, faults>>

UserStart ==
    /\ backend = Down /\ (task = "idle" \/ pending)
    /\ NewBackend(active)
    /\ UNCHANGED <<journalVars, releaseVars, epoch, controllerVars, found, faults>>

UserRestart ==
    /\ Schedule
    /\ UNCHANGED <<journalVars, releaseVars, epoch, backendVars, copy, held, found, faults>>

(* ------------------------ the controller's thread ----------------------- *)

\* A thread that ends, whichever way, clears _restart_pending.
Proceed(step) == task' = step /\ pending' = (pending /\ step # "idle")

TaskOnly == UNCHANGED <<copy, held, found, faults>>

\* _complete_restart_handoff begins, in the thread that has just started the
\* backend: what it reads now is what it decides upon.
ReadHandoff(restarted) ==
    IF handoff # None /\ disk[handoff.op] = "validating"
    THEN copy' = disk /\ held' = handoff /\ Proceed(IF restarted THEN "check" ELSE "undo_stop")
    ELSE UNCHANGED <<copy, held>> /\ Proceed("idle")

\* controller.restart_backend, a second after the answer and again in the undo: the
\* old process stops, then the active release starts, unless its port is taken.  A
\* process that cannot be terminated is left out.
Restart ==
    /\ task \in {"scheduled", "restart"}
    /\ \E restarted \in BOOLEAN :
          /\ IF restarted THEN NewBackend(active) ELSE NewBackend(Down)
          /\ IF task = "scheduled" THEN ReadHandoff(restarted)
             ELSE /\ Proceed(IF restarted THEN "recheck" ELSE "give_up")
                  /\ UNCHANGED <<copy, held>>
    /\ UNCHANGED <<journalVars, releaseVars, epoch, found, faults>>

\* Mutant: a restarted backend is confirmed with the sessions of the old one.
CheckKeepingSessions ==
    /\ task \in {"check", "recheck"}
    /\ \/ loaded /\ Proceed(IF task = "check" THEN "commit" ELSE "undo")
       \/ Proceed(IF task = "check" THEN "undo_stop" ELSE "give_up")
    /\ TaskOnly /\ UNCHANGED <<journalVars, releaseVars, epoch, backendVars>>

\* _backend_ready: within its deadline the backend answers that all is well, or not.
Check ==
    /\ task \in {"check", "recheck"}
    /\ \/ loaded /\ Proceed(IF task = "check" THEN "epoch" ELSE "undo")
       \/ Proceed(IF task = "check" THEN "undo_stop" ELSE "give_up")
    /\ TaskOnly /\ UNCHANGED <<journalVars, releaseVars, epoch, backendVars>>

\* advance_session_epoch: every session begun before is void.
AdvanceEpoch ==
    /\ task = "epoch"
    /\ epoch' = epoch + 1 /\ Proceed("commit")
    /\ TaskOnly /\ UNCHANGED <<journalVars, releaseVars, backendVars>>

Decide ==
    /\ task \in DOMAIN Deciding
    /\ copy' = [copy EXCEPT ![held.op] = Deciding[task][1]]
    /\ disk' = copy'
    /\ Proceed(Deciding[task][2])
    /\ UNCHANGED <<handoff, held, releaseVars, epoch, backendVars, found, faults>>

ClearHandoff ==
    /\ task = "clear"
    /\ handoff' = IF handoff # None /\ handoff.op = held.op THEN None ELSE handoff
    /\ Proceed("idle")
    /\ TaskOnly /\ UNCHANGED <<disk, releaseVars, epoch, backendVars>>

UndoStops ==
    /\ task = "undo_stop"
    /\ NewBackend(Down) /\ Proceed("restore")
    /\ TaskOnly /\ UNCHANGED <<journalVars, releaseVars, epoch>>

\* Mutant: only the OCR marker is restored.
RestoreOcrAlone ==
    /\ task = "restore"
    /\ ocr' = held.ocr /\ active' = active
    /\ Proceed("restart")
    /\ TaskOnly /\ UNCHANGED <<journalVars, epoch, backendVars>>

\* restore_restart_handoff: the release, then the marker of OCR.
Restore ==
    /\ \/ task = "restore" /\ active' = held.previous /\ ocr' = ocr
          /\ Proceed("restore_ocr")
       \/ task = "restore_ocr" /\ ocr' = held.ocr /\ active' = active
          /\ Proceed("restart")
    /\ TaskOnly /\ UNCHANGED <<journalVars, epoch, backendVars>>

\* The release is restored, and the journal does not say so yet.
InUndo == task \in {"restore_ocr", "restart", "recheck", "undo", "give_up"}

Fault == /\ faults < MaxFaults /\ faults' = faults + 1
         /\ InUndo => FaultInUndo

PowerLoss ==
    /\ Fault
    /\ NewBackend(Down)
    /\ task' = "boot" /\ pending' = FALSE
    /\ copy' = [o \in Operation |-> "none"] /\ held' = None
    /\ \/ disk' = disk
       \/ task = "undo" /\ disk' = [copy EXCEPT ![held.op] = "rolling_back"]
    /\ UNCHANGED <<handoff, releaseVars, epoch, found>>

\* A bundle cannot be started, a file cannot be written: the controller's thread
\* ends, or it starts without a backend, and nobody completes the handoff.  At its
\* start, some of these end the process itself, which is PowerLoss.
ControllerRaises ==
    /\ task \in {"scheduled", "epoch", "clear", "restore", "restore_ocr", "restart", "boot"}
    /\ task \in {"epoch", "restart"} => pending
    /\ Fault
    /\ Proceed("idle")
    /\ IF task \in {"scheduled", "restart"} THEN NewBackend(Down) ELSE UNCHANGED backendVars
    /\ UNCHANGED <<journalVars, releaseVars, epoch, copy, held, found>>

\* Mutant: a controller that starts does not look for a handoff.
BootWithoutHandoff ==
    /\ task = "boot"
    /\ NewBackend(active) /\ Proceed("idle")
    /\ TaskOnly /\ UNCHANGED <<journalVars, releaseVars, epoch>>

\* run_controller starts the backend and completes the handoff.
Boot ==
    /\ task = "boot"
    /\ NewBackend(active) /\ ReadHandoff(TRUE)
    /\ UNCHANGED <<journalVars, releaseVars, epoch, found, faults>>

Work == \/ Enter \/ Drained \/ Backup \/ Apply \/ ApplyOcr \/ CheckFiles \/ HandOver
        \/ Ask \/ DropHandoff \/ Look \/ UndoActive \/ UndoOcr \/ UndoAsk \/ Complete

Controller == \/ Restart \/ Check \/ AdvanceEpoch \/ Decide \/ ClearHandoff
              \/ UndoStops \/ Restore \/ Boot

Next ==
    \/ \E o \in Operation : Submit(o) \/ ForceOperation(o)
    \/ Work \/ UpdateRuntime
    \/ Load \/ BackendEnds \/ UserStart \/ UserRestart
    \/ Controller
    \/ PowerLoss \/ ControllerRaises

Spec == Init /\ [][Next]_vars
\* Threads go on; a process that has started builds its application.
FairSpec == Spec /\ WF_vars(Work) /\ WF_vars(UpdateRuntime) /\ WF_vars(Load)
                 /\ WF_vars(Controller)

(* ------------------------------ properties ------------------------------ *)

\* An operation only moves along _TRANSITIONS in operations.json, and what has ended
\* or was accepted stays so.  Two processes replace the file whole, from memories
\* that grow old (journal.py _persist, update_runtime); recovery makes two moves.
JournalAdvances ==
    [][\A o \in Operation : disk'[o] # disk[o] =>
          /\ disk[o] \notin Ended
          /\ \/ disk'[o] \in Transitions[disk[o]]
             \/ /\ disk[o] \in Applying
                /\ disk'[o] \in {"recovery_required", "rolled_back"}]_vars

\* What the journal says an operation has come to is what is installed: its release
\* once it is committed, and what it found once it has failed or was rolled back
\* (update_transaction.py, controller_host.py _complete_restart_handoff; of the
\* component of OCR this is so where it is not the controller that undoes).
OutcomeIsInstalled ==
    [][\A o \in Operation : disk'[o] # disk[o] =>
          /\ disk'[o] \in {"failed", "rolled_back"} =>
                 active = found[o][1] /\ (task # "undo" => ocr = found[o][2])
          /\ disk'[o] = "committed" =>
                 active = IF o \in Updates THEN o ELSE found[o][1]]_vars

\* One operation at a time is unfinished, or journal.unfinished() raises and the
\* backend does not start.
OneUnfinished == Cardinality(Unfinished(disk)) <= 1

\* Every operation that was committed has voided the sessions begun before it.
SessionsEnd ==
    epoch >= Cardinality({o \in Operation : disk[o] = "committed"})

\* Once faults are over, an operation handed to a controller that restarts or starts
\* is decided, whatever the new release does and whoever stops it; one withdrawn because the
\* controller was busy is undone, or recovered by the next backend to load
\* (_restart_after_response, run_controller).
HandedOverEnds ==
    \A o \in Operation :
        (/\ disk[o] = "validating" /\ HandedTo(o)
         /\ task \in {"scheduled", "boot"} /\ faults = MaxFaults)
            ~> (disk[o] \in Ended \/ (backend = Down /\ o \in Recovering))

\* A backend answers for a committed operation with its outcome: the journal it
\* reads from says so too (operation_service.py read_operation, and submit, which
\* looks there for unfinished operations).
OutcomeIsSeen ==
    \A o \in Operation :
        (disk[o] = "committed" /\ loaded) ~> (~ loaded \/ memory[o] = "committed")
=============================================================================
