-------------------- MODULE MaintenanceCoordinatorProofs --------------------
(***************************************************************************)
(* Proofs about MaintenanceCoordinator, for every set of writers, threads  *)
(* and operations.                                                         *)
(*                                                                         *)
(*   TypeCorrect         the type invariant, in both modes                 *)
(*   ForceReaches        no task escapes a force request, in both modes    *)
(*   CancelsOnlyForced   no task is told to stop without one, both modes   *)
(*   ExclusiveExecution  ExecutesAlone, when each operation has its own    *)
(*                       coordinator (the reused one violates it)          *)
(*   Refinement          ... and then the implementation of                *)
(*                       ExclusiveMaintenance                              *)
(***************************************************************************)
EXTENDS MaintenanceCoordinator, TLAPS

USE OperationAssumption, ReuseAssumption

(* --------------------------- type correctness -------------------------- *)

\* Every operation leaves every variable in its type, in both modes.
THEOREM TypeCorrect == Spec => []TypeOK
<1>1. Init => TypeOK
  BY DEF Init, GateInit, TypeOK, GateTypeOK, NothingDecided, Phase, Decision
<1>2. TypeOK /\ [Next]_vars => TypeOK'
  <2> SUFFICES ASSUME TypeOK, [Next]_vars
               PROVE  TypeOK'
    OBVIOUS
  <2> USE DEF TypeOK, GateTypeOK, Phase, Decision
  <2>1. ASSUME NEW t \in Token, Admit(t) \/ Attach(t) \/ Leave(t) \/ Cancel(t)
        PROVE  TypeOK'
    BY <2>1 DEF Admit, Attach, Leave, Cancel, TryAdmit, SetCancelCallback,
                Finish, RunCallback, coordVars
  <2>2. CASE ForceCancel
    BY <2>2 DEF ForceCancel, RequestForceCancel, coordVars
  <2>3. ASSUME NEW o \in Operation, Begin(o)
        PROVE  TypeOK'
    BY <2>3 DEF Begin, BeginMaintenance, NothingDecided
  <2>4. ASSUME NEW o \in Operation, Execute(o)
        PROVE  TypeOK'
    BY <2>4 DEF Execute, gateVars
  <2>5. ASSUME NEW o \in Operation, Complete(o)
        PROVE  TypeOK'
    BY <2>5 DEF Complete, CompleteMaintenance, NothingDecided
  <2>6. ASSUME NEW t \in Thread, AdvanceRead(t) \/ AdvanceWrite(t)
        PROVE  TypeOK'
    BY <2>6 DEF AdvanceRead, AdvanceWrite, gateVars
  <2>7. CASE DeadlinePasses \/ PresenceChanges
    BY <2>7 DEF DeadlinePasses, PresenceChanges, gateVars
  <2>8. CASE UNCHANGED vars
    BY <2>8 DEF vars, gateVars, coordVars
  <2> QED
    BY <2>1, <2>2, <2>3, <2>4, <2>5, <2>6, <2>7, <2>8 DEF Next
<1> QED
  BY <1>1, <1>2, PTL DEF Spec

(* -------------------- how the steps touch the gate --------------------- *)

\* What a step of the coordinator does to the gate: one of its critical
\* sections, or nothing.
LEMMA GateSteps ==
    ASSUME [Next]_vars
    PROVE  \/ \E t \in Token, c \in BOOLEAN : TryAdmit(t, c)
           \/ \E t \in Token : SetCancelCallback(t) \/ Finish(t) \/ RunCallback(t)
           \/ RequestForceCancel
           \/ \E o \in Operation : BeginMaintenance(o) \/ CompleteMaintenance(o)
           \/ UNCHANGED gateVars
<1>1. CASE UNCHANGED vars
  BY <1>1 DEF vars
<1>2. CASE Next
  <2>1. ASSUME NEW t \in Token, Admit(t)
        PROVE  \E c \in BOOLEAN : TryAdmit(t, c)
    BY <2>1 DEF Admit
  <2>2. ASSUME NEW t \in Token, Attach(t) \/ Leave(t) \/ Cancel(t)
        PROVE  SetCancelCallback(t) \/ Finish(t) \/ RunCallback(t)
    BY <2>2 DEF Attach, Leave, Cancel
  <2>3. ForceCancel => RequestForceCancel
    BY DEF ForceCancel
  <2>4. ASSUME NEW o \in Operation, Begin(o) \/ Complete(o)
        PROVE  BeginMaintenance(o) \/ CompleteMaintenance(o)
    BY <2>4 DEF Begin, Complete
  <2>5. ASSUME NEW o \in Operation, Execute(o)
        PROVE  UNCHANGED gateVars
    BY <2>5 DEF Execute
  <2>6. ASSUME NEW t \in Thread, AdvanceRead(t) \/ AdvanceWrite(t)
        PROVE  UNCHANGED gateVars
    BY <2>6 DEF AdvanceRead, AdvanceWrite
  <2>7. DeadlinePasses \/ PresenceChanges => UNCHANGED gateVars
    BY DEF DeadlinePasses, PresenceChanges
  <2> QED
    BY <1>2, <2>1, <2>2, <2>3, <2>4, <2>5, <2>6, <2>7 DEF Next
<1> QED
  BY <1>1, <1>2

(* -------------------------- force cancellation ------------------------- *)

\* A force request can only be standing while the gate is closed, which is why
\* no task can be admitted behind its back.
ForceInv == (forceRequested => operation # NoOperation) /\ ForceReachesEveryTask

\* Whichever comes first, the force request or the registration of the
\* callback, the callback is called or due: _set_cancel_callback and
\* request_force_cancel leave no window.
THEOREM ForceReaches == Spec => []ForceReachesEveryTask
<1> USE DEF ForceInv, ForceReachesEveryTask
<1>1. Init => ForceInv
  BY DEF Init, GateInit
<1>2. TypeOK /\ ForceInv /\ [Next]_vars => ForceInv'
  <2> SUFFICES ASSUME TypeOK, ForceInv, [Next]_vars
               PROVE  ForceInv'
    OBVIOUS
  <2>1. ASSUME NEW t \in Token, NEW c \in BOOLEAN, TryAdmit(t, c)
        PROVE  ForceInv'
    BY <2>1 DEF TryAdmit, GateOpen
  <2>2. ASSUME NEW t \in Token, SetCancelCallback(t) \/ Finish(t) \/ RunCallback(t)
        PROVE  ForceInv'
    BY <2>2 DEF SetCancelCallback, Finish, RunCallback
  <2>3. CASE RequestForceCancel
    BY <2>3 DEF RequestForceCancel, GateOpen
  <2>4. ASSUME NEW o \in Operation, BeginMaintenance(o) \/ CompleteMaintenance(o)
        PROVE  ForceInv'
    BY <2>4 DEF BeginMaintenance, CompleteMaintenance
  <2>5. CASE UNCHANGED gateVars
    BY <2>5 DEF gateVars
  <2> QED
    BY <2>1, <2>2, <2>3, <2>4, <2>5, GateSteps
<1> QED
  BY <1>1, <1>2, TypeCorrect, PTL DEF Spec

\* A task is told to stop only under a force request: a call left over from an
\* earlier operation can only reach a task that has ended.
THEOREM CancelsOnlyForced == Spec => []OnlyForcedTasksAreCancelled
<1> USE DEF OnlyForcedTasksAreCancelled
<1>1. Init => OnlyForcedTasksAreCancelled
  BY DEF Init, GateInit
<1>2. TypeOK /\ OnlyForcedTasksAreCancelled /\ [Next]_vars
        => OnlyForcedTasksAreCancelled'
  <2> SUFFICES ASSUME TypeOK, OnlyForcedTasksAreCancelled, [Next]_vars
               PROVE  OnlyForcedTasksAreCancelled'
    OBVIOUS
  <2>1. ASSUME NEW t \in Token, NEW c \in BOOLEAN, TryAdmit(t, c)
        PROVE  OnlyForcedTasksAreCancelled'
    BY <2>1 DEF TryAdmit
  <2>2. ASSUME NEW t \in Token, SetCancelCallback(t) \/ Finish(t) \/ RunCallback(t)
        PROVE  OnlyForcedTasksAreCancelled'
    BY <2>2 DEF SetCancelCallback, Finish, RunCallback
  <2>3. CASE RequestForceCancel
    BY <2>3 DEF RequestForceCancel
  <2>4. ASSUME NEW o \in Operation, BeginMaintenance(o) \/ CompleteMaintenance(o)
        PROVE  OnlyForcedTasksAreCancelled'
    BY <2>4 DEF BeginMaintenance, CompleteMaintenance
  <2>5. CASE UNCHANGED gateVars
    BY <2>5 DEF gateVars
  <2> QED
    BY <2>1, <2>2, <2>3, <2>4, <2>5, GateSteps
<1> QED
  BY <1>1, <1>2, TypeCorrect, PTL DEF Spec

(* -------------------------- exclusive execution ------------------------ *)

\* Why ExecutesAlone holds: from the first read that found the gate drained to
\* the end of the operation, the gate is closed by the coordinator's owner and
\* empty.  ExecutesAlone alone is not inductive: it says nothing of the reads
\* and writes that lead to "ready".
Coordinated ==
    /\ phase = "idle" =>
        operation = NoOperation /\ executing = NoOperation /\ decided = NothingDecided
    /\ phase # "idle" => operation = owner /\ owner \in begun
    /\ executing # NoOperation => executing = owner
    /\ (phase \in {"countdown", "ready"} \/ executing # NoOperation
          \/ \E t \in Thread : decided[t] # "none")
         => leases = {}

LEMMA CoordinatedInvariant ==
    ASSUME ~ ReuseCoordinator
    PROVE  Spec => []Coordinated
<1>1. Init => Coordinated
  BY DEF Init, GateInit, Coordinated, NothingDecided
<1>2. TypeOK /\ Coordinated /\ [Next]_vars => Coordinated'
  <2> SUFFICES ASSUME TypeOK, Coordinated, [Next]_vars
               PROVE  Coordinated'
    OBVIOUS
  <2> USE DEF Coordinated, TypeOK, GateTypeOK, NothingDecided
  <2>1. ASSUME NEW t \in Token, Admit(t)
        PROVE  Coordinated'
    <3>1. operation = NoOperation /\ phase = "idle"
      BY <2>1 DEF Admit, TryAdmit, GateOpen
    <3> QED
      BY <2>1, <3>1 DEF Admit, TryAdmit, coordVars
  <2>2. ASSUME NEW t \in Token, Attach(t) \/ Leave(t) \/ Cancel(t)
        PROVE  Coordinated'
    BY <2>2 DEF Attach, Leave, Cancel, SetCancelCallback, Finish, RunCallback, coordVars
  <2>3. CASE ForceCancel
    BY <2>3 DEF ForceCancel, RequestForceCancel, coordVars
  <2>4. ASSUME NEW o \in Operation, Begin(o)
        PROVE  Coordinated'
    <3>1. phase = "idle" /\ executing = NoOperation
      BY <2>4 DEF Begin, BeginMaintenance
    <3> QED
      BY <2>4, <3>1 DEF Begin, BeginMaintenance
  <2>5. ASSUME NEW o \in Operation, Execute(o)
        PROVE  Coordinated'
    BY <2>5 DEF Execute, gateVars
  <2>6. ASSUME NEW o \in Operation, Complete(o)
        PROVE  Coordinated'
    BY <2>6 DEF Complete, CompleteMaintenance
  <2>7. ASSUME NEW t \in Thread, AdvanceRead(t)
        PROVE  Coordinated'
    BY <2>7 DEF AdvanceRead, gateVars
  <2>8. ASSUME NEW t \in Thread, AdvanceWrite(t)
        PROVE  Coordinated'
    <3>1. leases = {} /\ phase # "idle"
      BY <2>8 DEF AdvanceWrite
    <3> QED
      BY <2>8, <3>1 DEF AdvanceWrite, gateVars
  <2>9. CASE DeadlinePasses \/ PresenceChanges
    BY <2>9 DEF DeadlinePasses, PresenceChanges, gateVars
  <2>10. CASE UNCHANGED vars
    BY <2>10 DEF vars, gateVars, coordVars
  <2> QED
    BY <2>1, <2>2, <2>3, <2>4, <2>5, <2>6, <2>7, <2>8, <2>9, <2>10 DEF Next
<1> QED
  BY <1>1, <1>2, TypeCorrect, PTL DEF Spec

LEMMA CoordinatedExecutesAlone == TypeOK /\ Coordinated => ExecutesAlone
  BY DEF TypeOK, Coordinated, ExecutesAlone

\* With a coordinator of its own per operation (the module-maintenance watch),
\* no writer is at work while the operation executes, however the threads that
\* call advance() interleave.
THEOREM ExclusiveExecution ==
    ASSUME ~ ReuseCoordinator
    PROVE  Spec => []ExecutesAlone
BY CoordinatedInvariant, CoordinatedExecutesAlone, TypeCorrect, PTL

(* ------------------------------ refinement ----------------------------- *)

\* ... and the whole protocol implements ExclusiveMaintenance.
THEOREM Refinement ==
    ASSUME ~ ReuseCoordinator
    PROVE  Spec => ImplementsExclusiveMaintenance
<1>1. Init => Exclusive!Init
  BY DEF Init, GateInit, Exclusive!Init
<1>2. TypeOK /\ Coordinated /\ [Next]_vars => [Exclusive!Next]_(Exclusive!vars)
  <2> SUFFICES ASSUME TypeOK, Coordinated, [Next]_vars
               PROVE  Exclusive!Next \/ UNCHANGED Exclusive!vars
    OBVIOUS
  <2> USE DEF TypeOK, GateTypeOK, Exclusive!vars
  <2>1. ASSUME NEW t \in Token, Admit(t)
        PROVE  Exclusive!Enter(t)
    BY <2>1 DEF Admit, TryAdmit, GateOpen, coordVars, Exclusive!Enter
  <2>2. ASSUME NEW t \in Token, Leave(t)
        PROVE  Exclusive!Leave(t)
    BY <2>2 DEF Leave, Finish, coordVars, Exclusive!Leave
  <2>3. ASSUME NEW t \in Token, Attach(t) \/ Cancel(t)
        PROVE  UNCHANGED Exclusive!vars
    BY <2>3 DEF Attach, Cancel, SetCancelCallback, RunCallback, coordVars
  <2>4. CASE ForceCancel
    BY <2>4 DEF ForceCancel, RequestForceCancel, coordVars
  <2>5. ASSUME NEW o \in Operation, Begin(o)
        PROVE  Exclusive!Close(o)
    BY <2>5 DEF Begin, BeginMaintenance, Coordinated, Exclusive!Close
  <2>6. ASSUME NEW o \in Operation, Execute(o)
        PROVE  Exclusive!Work
    BY <2>6 DEF Execute, gateVars, Coordinated, Exclusive!Work
  <2>7. ASSUME NEW o \in Operation, Complete(o)
        PROVE  Exclusive!Open
    BY <2>7 DEF Complete, CompleteMaintenance, Exclusive!Open
  <2>8. ASSUME NEW t \in Thread, AdvanceRead(t) \/ AdvanceWrite(t)
        PROVE  UNCHANGED Exclusive!vars
    BY <2>8 DEF AdvanceRead, AdvanceWrite, gateVars
  <2>9. CASE DeadlinePasses \/ PresenceChanges
    BY <2>9 DEF DeadlinePasses, PresenceChanges, gateVars
  <2>10. CASE UNCHANGED vars
    BY <2>10 DEF vars, gateVars, coordVars
  <2> QED
    BY <2>1, <2>2, <2>3, <2>4, <2>5, <2>6, <2>7, <2>8, <2>9, <2>10
       DEF Next, Exclusive!Next
<1> QED
  BY <1>1, <1>2, TypeCorrect, CoordinatedInvariant, PTL
     DEF Spec, ImplementsExclusiveMaintenance, Exclusive!Spec
=============================================================================
