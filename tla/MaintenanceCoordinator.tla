----------------------- MODULE MaintenanceCoordinator -----------------------
(***************************************************************************)
(* MaintenanceCoordinator (installation/maintenance.py) over the gate, and *)
(* the two ways InstalledOperationService drives it:                       *)
(*                                                                         *)
(*   - ReuseCoordinator = TRUE: submit() of a restart or release.  One     *)
(*     coordinator object serves every operation of the process.           *)
(*   - ReuseCoordinator = FALSE: start_module_maintenance_watch().  Each   *)
(*     request of the controller gets a new coordinator object.            *)
(*                                                                         *)
(* The gate has a lock; the coordinator has none, and its advance() is     *)
(* called by the maintenance worker (or the watch thread) and by every     *)
(* heartbeat request.  advance() reads the state, the gate and the         *)
(* presence registry, and writes the new state later: the read is          *)
(* AdvanceRead, the write AdvanceWrite, and other threads run in between.  *)
(***************************************************************************)
EXTENDS MaintenanceGate

CONSTANTS
    Thread,             \* threads that call advance()
    ReuseCoordinator    \* see above

ASSUME ReuseAssumption == ReuseCoordinator \in BOOLEAN

VARIABLES
    phase,         \* _state
    owner,         \* _operation_id of the coordinator
    deadlinePassed,\* clock() >= _deadline
    others,        \* presence.other_user_count(initiator) > 0
    decided,       \* per thread: what its advance() read and will write
    begun,         \* operations that were submitted
    executing      \* the operation whose restart/update (or acknowledgement
                   \* to the controller) is under way

coordVars == <<phase, owner, deadlinePassed, others, decided, begun, executing>>
vars == <<gateVars, coordVars>>

Phase == {"idle", "draining", "countdown", "ready"}
Decision == {"none", "warn", "go"}

TypeOK ==
    /\ GateTypeOK
    /\ phase \in Phase
    /\ owner \in Operation \union {NoOperation}
    /\ deadlinePassed \in BOOLEAN
    /\ others \in BOOLEAN
    /\ decided \in [Thread -> Decision]
    /\ begun \subseteq Operation
    /\ executing \in Operation \union {NoOperation}

NothingDecided == [t \in Thread |-> "none"]

Init ==
    /\ GateInit
    /\ phase = "idle"
    /\ owner = NoOperation
    /\ deadlinePassed = FALSE
    /\ others \in BOOLEAN
    /\ decided = NothingDecided
    /\ begun = {}
    /\ executing = NoOperation

(* ------------------------- writers and the gate ------------------------ *)

Admit(t) ==
    /\ \E withCallback \in BOOLEAN : TryAdmit(t, withCallback)
    /\ UNCHANGED coordVars

Attach(t) == SetCancelCallback(t) /\ UNCHANGED coordVars

Leave(t) == Finish(t) /\ UNCHANGED coordVars

Cancel(t) == RunCallback(t) /\ UNCHANGED coordVars

\* force_operation: only for the operation the coordinator shows.
ForceCancel == RequestForceCancel /\ UNCHANGED coordVars

(* ----------------------------- coordinator ----------------------------- *)

\* begin: refused while another operation drains or counts down.  A new
\* coordinator object takes with it the writes its threads still intend.
Begin(o) ==
    /\ o \notin begun
    /\ phase \in {"idle", "ready"} \/ owner = o
    /\ BeginMaintenance(o)
    /\ begun' = begun \union {o}
    /\ owner' = o
    /\ deadlinePassed' = FALSE
    /\ phase' = "draining"
    /\ decided' = IF ReuseCoordinator THEN decided ELSE NothingDecided
    /\ UNCHANGED <<others, executing>>

\* Mutant: the drain is believed over without counting the tasks.
AdvanceUncounted(t) ==
    /\ decided[t] = "none"
    /\ \/ phase = "draining"
       \/ phase = "countdown" /\ deadlinePassed
    /\ decided' = [decided EXCEPT ![t] = "go"]
    /\ UNCHANGED <<gateVars, phase, owner, deadlinePassed, others, begun, executing>>

\* Mutant: the countdown's deadline is never looked at.
AdvanceWithoutDeadline(t) ==
    /\ decided[t] = "none"
    /\ phase = "draining"
    /\ leases = {}
    /\ decided' = [decided EXCEPT ![t] = IF others THEN "warn" ELSE "go"]
    /\ UNCHANGED <<gateVars, phase, owner, deadlinePassed, others, begun, executing>>

\* The reads of advance(): state, active tasks, other users or the deadline.
AdvanceRead(t) ==
    /\ decided[t] = "none"
    /\ \/ /\ phase = "draining"
          /\ leases = {}
          /\ decided' = [decided EXCEPT ![t] = IF others THEN "warn" ELSE "go"]
       \/ /\ phase = "countdown"
          /\ deadlinePassed
          /\ decided' = [decided EXCEPT ![t] = "go"]
    /\ UNCHANGED <<gateVars, phase, owner, deadlinePassed, others, begun, executing>>

\* The write of advance().
AdvanceWrite(t) ==
    /\ decided[t] # "none"
    /\ IF decided[t] = "warn"
       THEN phase' = "countdown" /\ deadlinePassed' = FALSE
       ELSE phase' = "ready" /\ UNCHANGED deadlinePassed
    /\ decided' = [decided EXCEPT ![t] = "none"]
    /\ UNCHANGED <<gateVars, owner, others, begun, executing>>

\* countdown_seconds elapse.
DeadlinePasses ==
    /\ phase = "countdown"
    /\ ~ deadlinePassed
    /\ deadlinePassed' = TRUE
    /\ UNCHANGED <<gateVars, phase, owner, others, decided, begun, executing>>

\* A heartbeat of another user arrives, or the last one expires.
PresenceChanges ==
    /\ others' = ~ others
    /\ UNCHANGED <<gateVars, phase, owner, deadlinePassed, decided, begun, executing>>

\* The operation's thread sees "ready": _execute_restart/_execute_release, or
\* the acknowledgement ready=true that lets the controller stop the backend.
Execute(o) ==
    /\ executing = NoOperation
    /\ phase = "ready"
    /\ owner = o
    /\ operation = o
    /\ executing' = o
    /\ UNCHANGED <<gateVars, phase, owner, deadlinePassed, others, decided, begun>>

\* The operation ends in this process (it failed, or the controller withdrew
\* its request): gate.complete after wait_for_drain(0).  submit() keeps its
\* coordinator, in phase "ready"; the watch builds a new one.
Complete(o) ==
    /\ executing = o \/ (~ ReuseCoordinator /\ executing = NoOperation /\ owner = o)
    /\ CompleteMaintenance(o)
    /\ executing' = NoOperation
    /\ IF ReuseCoordinator
       THEN UNCHANGED <<phase, owner, deadlinePassed, decided>>
       ELSE /\ phase' = "idle"
            /\ owner' = NoOperation
            /\ deadlinePassed' = FALSE
            /\ decided' = NothingDecided
    /\ UNCHANGED <<others, begun>>

Next ==
    \/ \E t \in Token : Admit(t) \/ Attach(t) \/ Leave(t) \/ Cancel(t)
    \/ ForceCancel
    \/ \E o \in Operation : Begin(o) \/ Execute(o) \/ Complete(o)
    \/ \E t \in Thread : AdvanceRead(t) \/ AdvanceWrite(t)
    \/ DeadlinePasses
    \/ PresenceChanges

Spec == Init /\ [][Next]_vars

\* Fairness: admitted work ends (the gate's own assumption: each lease is
\* "released exactly once by its owner"); the maintenance worker and the watch
\* poll advance() every 0.2 s and act on "ready"; time passes; a callback taken
\* out of the lock is called by the very next statement.  Writers need not come,
\* users need not, and no operation need ever be submitted, forced or ended.
Fairness ==
    /\ \A t \in Token : WF_vars(Leave(t)) /\ WF_vars(Cancel(t))
    /\ \A t \in Thread : WF_vars(AdvanceRead(t) \/ AdvanceWrite(t))
    /\ WF_vars(DeadlinePasses)
    /\ \A o \in Operation : WF_vars(Execute(o))

FairSpec == Spec /\ Fairness

(* ------------------------------ properties ----------------------------- *)

\* While a restart or update is being executed no admitted writer is at work
\* and none can enter: "A drain cannot miss a job admitted immediately before
\* it begins" (tests/test_process_queue.py).
ExecutesAlone ==
    executing # NoOperation => leases = {} /\ operation = executing

\* A force request reaches every task that has, or later gets, a callback:
\* the call was made or is about to be, whichever of the two came first.
ForceReachesEveryTask ==
    forceRequested => callbacks \subseteq called \union dueCalls

\* Nobody is told to stop unless an administrator forced the drain; a call
\* that is still due when the operation ends belongs to a finished task.
OnlyForcedTasksAreCancelled ==
    (leases \intersect (called \union dueCalls)) # {} => forceRequested

\* An operation that was accepted is executed once the admitted writers end,
\* unless it is withdrawn first: the drain cannot wait for itself.
DrainTerminates ==
    \A o \in Operation : (operation = o) ~> (executing = o \/ operation # o)

\* "Rozpoczetego odliczania nie skracamy": a warning that was started runs to
\* its deadline (docs/superpowers/specs/2026-09-15-installed-updates-design.md).
CountdownNotCutShort ==
    [][phase = "countdown" /\ phase' = "ready" => deadlinePassed]_vars

\* The coordinator and the gate implement exclusive maintenance.
Exclusive == INSTANCE ExclusiveMaintenance WITH
    Writer <- Token, holder <- operation, writers <- leases,
    working <- executing # NoOperation

ImplementsExclusiveMaintenance == Exclusive!Spec
=============================================================================
