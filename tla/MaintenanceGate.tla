--------------------------- MODULE MaintenanceGate ---------------------------
(***************************************************************************)
(* MaintenanceGate of installation/maintenance.py: the one admission gate  *)
(* that every writer of the WEB process (process jobs, OCR, mutating HTTP  *)
(* requests) asks for a lease, and that an installed operation closes and  *)
(* drains before it restarts or replaces the program.                      *)
(*                                                                         *)
(* Every operator below is one critical section of the gate's condition.   *)
(* The two places where the code leaves the lock with work still to do     *)
(* (the callbacks that request_force_cancel copied, and the callback that  *)
(* _set_cancel_callback finds already due) put that work in dueCalls;      *)
(* RunCallback is the call itself.                                         *)
(*                                                                         *)
(* The module declares the gate's state and operations only.  The modules  *)
(* that EXTEND it (MaintenanceCoordinator, ProcessJobs) supply the threads *)
(* that call them, and so the next-state relation.                         *)
(***************************************************************************)

CONSTANTS
    Token,        \* lease tokens; the code numbers them, so they are never
                  \* reused: a model reuses one only after all trace of it ends
    Operation,    \* operation identifiers
    NoOperation   \* Python's None for _operation_id

ASSUME OperationAssumption == NoOperation \notin Operation

VARIABLES
    operation,       \* _operation_id
    forceRequested,  \* _force_requested
    leases,          \* the keys of _leases
    callbacks,       \* those leases whose entry holds a cancel callback
    dueCalls,        \* callbacks taken out of the lock and not called yet
    called           \* callbacks that were called: the task's cancel event

gateVars == <<operation, forceRequested, leases, callbacks, dueCalls, called>>

GateTypeOK ==
    /\ operation \in Operation \union {NoOperation}
    /\ forceRequested \in BOOLEAN
    /\ leases \subseteq Token
    /\ callbacks \subseteq leases
    /\ dueCalls \subseteq Token
    /\ called \subseteq Token

GateInit ==
    /\ operation = NoOperation
    /\ forceRequested = FALSE
    /\ leases = {}
    /\ callbacks = {}
    /\ dueCalls = {}
    /\ called = {}

GateOpen == operation = NoOperation

\* try_admit: refused (None) as soon as an operation owns the gate.  The
\* optional on_cancel callback is stored in the same critical section.
TryAdmit(t, withCallback) ==
    /\ GateOpen
    /\ t \notin leases \union dueCalls
    /\ leases' = leases \union {t}
    /\ callbacks' = IF withCallback THEN callbacks \union {t} ELSE callbacks
    /\ called' = called \ {t}
    /\ UNCHANGED <<operation, forceRequested, dueCalls>>

\* Mutant: the lease goes, its callback stays registered.
FinishKeepingCallback(t) ==
    /\ t \in leases
    /\ leases' = leases \ {t}
    /\ UNCHANGED <<operation, forceRequested, callbacks, dueCalls, called>>

\* _finish: removes the lease and, with it, its callback; exactly once.
Finish(t) ==
    /\ t \in leases
    /\ leases' = leases \ {t}
    /\ callbacks' = callbacks \ {t}
    /\ UNCHANGED <<operation, forceRequested, dueCalls, called>>

\* Mutant: a callback registered after the force request is never called.
SetCancelCallbackTooLate(t) ==
    /\ t \in leases \ callbacks
    /\ callbacks' = callbacks \union {t}
    /\ UNCHANGED <<operation, forceRequested, leases, dueCalls, called>>

\* _set_cancel_callback: a second registration raises, so t \notin callbacks.
\* When force was requested before the job was known, the call is due at once.
SetCancelCallback(t) ==
    /\ t \in leases \ callbacks
    /\ callbacks' = callbacks \union {t}
    /\ dueCalls' = IF forceRequested THEN dueCalls \union {t} ELSE dueCalls
    /\ UNCHANGED <<operation, forceRequested, leases, called>>

\* The call of one callback, outside the lock.
RunCallback(t) ==
    /\ t \in dueCalls
    /\ dueCalls' = dueCalls \ {t}
    /\ called' = called \union {t}
    /\ UNCHANGED <<operation, forceRequested, leases, callbacks>>

\* begin: idempotent for the owner, RuntimeError for any other operation.
BeginMaintenance(o) ==
    /\ operation \in {NoOperation, o}
    /\ operation' = o
    /\ UNCHANGED <<forceRequested, leases, callbacks, dueCalls, called>>

\* Mutant: the callbacks are taken, the request is not recorded.
ForceCancelUnrecorded ==
    /\ ~ GateOpen
    /\ ~ forceRequested
    /\ dueCalls' = dueCalls \union callbacks
    /\ UNCHANGED <<operation, forceRequested, leases, callbacks, called>>

\* request_force_cancel: once per operation.
RequestForceCancel ==
    /\ ~ GateOpen
    /\ ~ forceRequested
    /\ forceRequested' = TRUE
    /\ dueCalls' = dueCalls \union callbacks
    /\ UNCHANGED <<operation, leases, callbacks, called>>

\* Mutant: the gate reopens over writers that were never drained.
CompleteUndrained(o) ==
    /\ operation = o
    /\ operation' = NoOperation
    /\ forceRequested' = FALSE
    /\ UNCHANGED <<leases, callbacks, dueCalls, called>>

\* complete: only for the owner and only when no lease is left.
CompleteMaintenance(o) ==
    /\ operation = o
    /\ leases = {}
    /\ operation' = NoOperation
    /\ forceRequested' = FALSE
    /\ UNCHANGED <<leases, callbacks, dueCalls, called>>

\* A new process: the gate is a fresh object.
GateRestart(o) ==
    /\ operation' = o
    /\ forceRequested' = FALSE
    /\ leases' = {}
    /\ callbacks' = {}
    /\ dueCalls' = {}
    /\ called' = {}
=============================================================================
