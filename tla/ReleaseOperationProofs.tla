------------------------ MODULE ReleaseOperationProofs ------------------------
(***************************************************************************)
(* Theorems about ReleaseOperation, for any number of requests and faults. *)
(*                                                                         *)
(*   TypeCorrect        the type invariant                                 *)
(*   SessionsAreVoided  SessionsEnd: commits are counted wherever a copy   *)
(*                      of the journal is held                             *)
(*   JournalOnlyMovesOn JournalAdvances: whoever replaces the journal      *)
(*                      holds what is in it                                *)
(*   OutcomesHold       OutcomeIsInstalled, as long as no fault falls      *)
(*                      between the steps of the controller's undo         *)
(***************************************************************************)
EXTENDS ReleaseOperation, FiniteSetTheorems, TLAPS

(* ------------------------------- the tables ----------------------------- *)

\* A journal entry of the maintenance thread, spelled out.
Entry(step, state, next) == work.step = step /\ Log(work.op, state) /\ Goes(next)

LEMMA Entries ==
    ASSUME Enter
    PROVE  \/ Entry("drain", "draining", "wait") \/ Entry("begin", "draining", "save")
           \/ Entry("save", "backing_up", "backup") \/ Entry("install", "installing", "apply")
           \/ Entry("stop", "stopping", "replace")
           \/ Entry("replace", "installing", "hand_over")
           \/ Entry("validate", "validating", "check") \/ Entry("confirm", "validating", "end")
           \/ Entry("undo", "rolling_back", "undo_active")
           \/ Entry("undone", "rolled_back", "complete")
           \/ Entry("give_up", "recovery_required", "complete")
           \/ Entry("fail", "failed", "complete") \/ Entry("refuse", "failed", "end")
<1>1. work.step \in {"drain", "begin", "save", "install", "stop", "replace", "validate",
                     "confirm", "undo", "undone", "give_up", "fail", "refuse"}
  BY DEF Enter, Journaling
<1>2. Log(work.op, Journaling[work.step][1]) /\ Goes(Journaling[work.step][2])
  BY DEF Enter
<1> HIDE DEF Log, Goes
<1>3. /\ Journaling["drain"] = <<"draining", "wait">>
      /\ Journaling["begin"] = <<"draining", "save">>
      /\ Journaling["save"] = <<"backing_up", "backup">>
      /\ Journaling["install"] = <<"installing", "apply">>
      /\ Journaling["stop"] = <<"stopping", "replace">>
      /\ Journaling["replace"] = <<"installing", "hand_over">>
      /\ Journaling["validate"] = <<"validating", "check">>
      /\ Journaling["confirm"] = <<"validating", "end">>
      /\ Journaling["undo"] = <<"rolling_back", "undo_active">>
      /\ Journaling["undone"] = <<"rolled_back", "complete">>
      /\ Journaling["give_up"] = <<"recovery_required", "complete">>
      /\ Journaling["fail"] = <<"failed", "complete">>
      /\ Journaling["refuse"] = <<"failed", "end">>
  BY DEF Journaling
<1> QED
  BY <1>1, <1>2, <1>3 DEF Entry

\* A decision of the controller.
Decision(step, state, next) ==
    /\ task = step
    /\ copy' = [copy EXCEPT ![held.op] = state] /\ disk' = copy'
    /\ Proceed(next)

LEMMA Decisions ==
    ASSUME Decide
    PROVE  \/ Decision("commit", "committed", "clear") \/ Decision("undo", "rolled_back", "clear")
           \/ Decision("give_up", "recovery_required", "idle")
<1>1. task \in {"commit", "undo", "give_up"}
  BY DEF Decide, Deciding
<1>2. /\ Deciding["commit"] = <<"committed", "clear">>
      /\ Deciding["undo"] = <<"rolled_back", "clear">>
      /\ Deciding["give_up"] = <<"recovery_required", "idle">>
  BY DEF Deciding
<1>3. /\ copy' = [copy EXCEPT ![held.op] = Deciding[task][1]] /\ disk' = copy'
      /\ Proceed(Deciding[task][2])
  BY DEF Decide
<1>4. ASSUME NEW step, NEW state, NEW next, task = step, Deciding[step] = <<state, next>>
      PROVE  Decision(step, state, next)
  <2>1. Deciding[task][1] = state /\ Deciding[task][2] = next
    BY <1>4
  <2> QED
    BY <1>3, <1>4, <2>1, Zenon DEF Decision
<1> QED
  BY <1>1, <1>2, <1>4

(* ----------------------------- type correctness ------------------------- *)

UpdateSteps == {"begin", "save", "backup", "install", "apply", "apply_ocr", "validate", "check",
                "look", "undo", "undo_active", "undo_ocr", "undo_ask", "undone", "give_up",
                "fail"}
RestartSteps == {"drain", "stop", "replace", "drop_handoff", "confirm", "refuse"}
SharedSteps == {"wait", "hand_over", "ask", "complete", "end"}

\* The controller has read a handoff, and has yet to decide upon it.
Deliberating == {"check", "epoch", "commit", "undo_stop", "restore", "restore_ocr", "restart",
                 "recheck", "undo", "give_up"}

LEMMA Steps ==
    /\ WorkStep = UpdateSteps \union RestartSteps \union SharedSteps \union {"idle"}
    /\ TaskStep = Deliberating \union {"idle", "boot", "scheduled", "clear"}
<1>1. DOMAIN Journaling = {"drain", "begin", "save", "install", "stop", "replace", "validate",
                           "confirm", "undo", "undone", "give_up", "fail", "refuse"}
  BY DEF Journaling
<1>2. DOMAIN Deciding = {"commit", "undo", "give_up"}
  BY DEF Deciding
<1> QED
  BY <1>1, <1>2 DEF WorkStep, TaskStep, UpdateSteps, RestartSteps, SharedSteps, Deliberating

JournalTypes ==
    /\ disk \in [Operation -> State] /\ memory \in [Operation -> State]
    /\ copy \in [Operation -> State]
WorkTypes ==
    /\ work \in [op : Operation \union {None}, step : WorkStep,
                 previous : Release, ocr : Release]
    /\ work.step # "idle" => work.op \in Operation
    /\ work.step \in UpdateSteps => work.op \in Updates
    /\ work.step \in RestartSteps => work.op \in Restarts
TaskTypes ==
    /\ task \in TaskStep /\ pending \in BOOLEAN
    /\ handoff \in Handoff \union {None} /\ held \in Handoff \union {None}
    /\ task \in Deliberating \union {"clear"} => held \in Handoff
OtherTypes ==
    /\ active \in Release /\ ocr \in Release /\ epoch \in Nat
    /\ backend \in Release \union {Down} /\ loaded \in BOOLEAN /\ blocked \in BOOLEAN
    /\ gate \in Operation \union {None} /\ runtime \in Operation \union {None}
    /\ found \in [Operation -> Release \X Release] /\ faults \in 0 .. MaxFaults

Typed == JournalTypes /\ WorkTypes /\ TaskTypes /\ OtherTypes

LEMMA TypedIsTypeOK == Typed => TypeOK
  BY DEF Typed, TypeOK, JournalTypes, WorkTypes, TaskTypes, OtherTypes

LEMMA TypedInit == Init => Typed
<1> SUFFICES ASSUME Init
             PROVE  Typed
  OBVIOUS
<1>1. Setup \in Release /\ MaxFaults \in Nat
  BY ReleaseAssumption DEF Release
<1>2. JournalTypes
  BY DEF Init, JournalTypes, State
<1>3. WorkTypes
  BY <1>1, Steps DEF Init, WorkTypes, Idle, UpdateSteps, RestartSteps
<1>4. TaskTypes
  BY Steps DEF Init, TaskTypes, Deliberating
<1>5. OtherTypes
  <2>1. loaded \in BOOLEAN /\ blocked \in BOOLEAN
    BY Zenon DEF Init
  <2>2. found \in [Operation -> Release \X Release]
    BY <1>1 DEF Init
  <2> QED
    BY <1>1, <2>1, <2>2 DEF Init, OtherTypes
<1> QED
  BY <1>2, <1>3, <1>4, <1>5 DEF Typed

\* A process that starts has nothing in hand.
LEMMA NewTypes ==
    ASSUME NEW release \in Release \union {Down}, NewBackend(release)
    PROVE  /\ memory' \in [Operation -> State]
           /\ WorkTypes'
           /\ backend' \in Release \union {Down} /\ loaded' = FALSE /\ blocked' = FALSE
           /\ gate' = None /\ runtime' = None
<1>1. Setup \in Release
  BY DEF Release
<1>2. work' = [op |-> None, step |-> "idle", previous |-> Setup, ocr |-> Setup]
  BY DEF NewBackend, Idle
<1>3. WorkTypes'
  BY <1>1, <1>2, Steps DEF WorkTypes, UpdateSteps, RestartSteps
<1>4. memory' \in [Operation -> State]
  BY DEF NewBackend, State
<1> QED
  BY <1>3, <1>4 DEF NewBackend

LEMMA LogTypes ==
    ASSUME Typed, NEW o \in Operation, NEW state \in State, Log(o, state)
    PROVE  disk' \in [Operation -> State] /\ memory' \in [Operation -> State]
  BY DEF Typed, JournalTypes, Log

LEMMA ProceedTypes ==
    ASSUME Typed, NEW step, Proceed(step)
    PROVE  task' = step /\ pending' \in BOOLEAN
<1>1. pending' \in BOOLEAN
  BY Zenon DEF Proceed
<1> QED
  BY <1>1 DEF Proceed

\* A request over the pipe is taken or refused.
LEMMA PipeTypes ==
    ASSUME Typed, Schedule \/ Refused, held' = held, handoff' \in Handoff \union {None}
    PROVE  TaskTypes'
<1>1. CASE Schedule
  BY <1>1, Steps DEF Schedule, Typed, TaskTypes, Deliberating
<1>2. CASE Refused
  BY <1>2 DEF Refused, Typed, TaskTypes
<1> QED
  BY <1>1, <1>2

\* A step of the maintenance thread goes on to another step for its operation.
LEMMA GoesTypes ==
    ASSUME Typed, work.step # "idle", NEW step \in WorkStep, Goes(step),
           step \in UpdateSteps => work.op \in Updates,
           step \in RestartSteps => work.op \in Restarts
    PROVE  WorkTypes'
<1>1. work' = [work EXCEPT !.step = step]
  BY DEF Goes
<1> QED
  BY <1>1 DEF Typed, WorkTypes

LEMMA SubmitTyped ==
    ASSUME Typed, NEW o \in Operation, Submit(o)
    PROVE  Typed'
<1>1. JournalTypes'
  BY LogTypes DEF Submit, Typed, JournalTypes, State, controllerVars
<1>2. WorkTypes'
  <2>1. CASE gate # None
    BY <2>1 DEF Submit, Typed, WorkTypes
  <2>2. CASE gate = None
    <3>1. work' = [op |-> o, step |-> IF o \in Restarts THEN "drain" ELSE "wait",
                   previous |-> active, ocr |-> ocr]
      BY <2>2 DEF Submit
    <3> QED
      BY <3>1, Steps DEF Typed, OtherTypes, WorkTypes, UpdateSteps, RestartSteps, SharedSteps
  <2> QED
    BY <2>1, <2>2
<1>3. TaskTypes'
  BY DEF Submit, Typed, TaskTypes, controllerVars
<1>4. OtherTypes'
  <2>1. found' \in [Operation -> Release \X Release]
    BY DEF Submit, Typed, OtherTypes
  <2>2. gate' \in Operation \union {None}
    BY DEF Submit, Typed, OtherTypes
  <2> QED
    BY <2>1, <2>2 DEF Submit, Typed, OtherTypes, releaseVars
<1> QED
  BY <1>1, <1>2, <1>3, <1>4 DEF Typed

LEMMA EnterTyped ==
    ASSUME Typed, Enter
    PROVE  Typed'
<1>1. PICK state \in State, next \in WorkStep :
         /\ Log(work.op, state) /\ Goes(next)
         /\ work.step # "idle"
         /\ next \in UpdateSteps => work.op \in Updates
         /\ next \in RestartSteps => work.op \in Restarts
  BY Entries, Steps DEF Entry, State, Ended, Applying, Typed, WorkTypes, UpdateSteps,
     RestartSteps, SharedSteps
<1>2. work.op \in Operation
  BY <1>1 DEF Typed, WorkTypes
<1>3. JournalTypes'
  BY <1>1, <1>2, LogTypes DEF Enter, controllerVars, Typed, JournalTypes
<1>4. WorkTypes'
  BY <1>1, GoesTypes
<1>5. TaskTypes' /\ OtherTypes'
  BY DEF Enter, Typed, TaskTypes, OtherTypes, controllerVars, releaseVars
<1> QED
  BY <1>3, <1>4, <1>5 DEF Typed

LEMMA WorkTyped ==
    ASSUME Typed, Work
    PROVE  Typed'
<1>a. ASSUME WorkOnly, WorkTypes', TaskTypes', active' \in Release, ocr' \in Release,
             gate' \in Operation \union {None}
      PROVE  Typed'
  <2>1. JournalTypes'
    BY <1>a DEF WorkOnly, Typed, JournalTypes
  <2>2. OtherTypes'
    BY <1>a DEF WorkOnly, Typed, OtherTypes
  <2> QED
    BY <1>a, <2>1, <2>2 DEF Typed
<1>b. ASSUME WorkOnly, UNCHANGED <<handoff, task, pending>>
      PROVE  TaskTypes'
  BY <1>b DEF WorkOnly, Typed, TaskTypes
<1> USE DEF Typed, OtherTypes, releaseVars
<1>c. ASSUME NEW step \in WorkStep, Goes(step), work.step # "idle",
             step \in UpdateSteps => work.op \in Updates,
             step \in RestartSteps => work.op \in Restarts
      PROVE  WorkTypes'
  BY <1>c, GoesTypes
<1>d. /\ work.step # "idle" => work.op \in Operation
      /\ work.step \in UpdateSteps => work.op \in Updates
      /\ work.step \in RestartSteps => work.op \in Restarts
      /\ work.op \in Updates => work.op \in Release
      /\ work.previous \in Release /\ work.ocr \in Release
  BY DEF WorkTypes, Release
<1> USE DEF UpdateSteps, RestartSteps, SharedSteps
<1>1. CASE Enter
  BY <1>1, EnterTyped
<1>2. CASE Drained
  <2>1. WorkTypes'
    BY <1>2, <1>c, <1>d, Steps DEF Drained, Operation
  <2> QED
    BY <1>2, <1>a, <1>b, <2>1 DEF Drained
<1>3. CASE Backup
  <2>1. WorkTypes'
    <3>1. CASE Goes("fail")
      BY <1>3, <1>c, <1>d, <3>1, Steps DEF Backup
    <3>2. CASE work' = [work EXCEPT !.step = "install", !.previous = active, !.ocr = ocr]
      BY <1>3, <3>2, Steps DEF Backup, WorkTypes
    <3> QED
      BY <1>3, <3>1, <3>2 DEF Backup
  <2> QED
    BY <1>3, <1>a, <1>b, <2>1 DEF Backup
<1>4. CASE Apply
  <2>1. WorkTypes'
    BY <1>4, <1>c, <1>d, Steps DEF Apply
  <2>2. active' \in Release /\ ocr' \in Release
    BY <1>4, <1>d DEF Apply
  <2> QED
    BY <1>4, <1>a, <1>b, <2>1, <2>2 DEF Apply
<1>5. CASE ApplyOcr
  <2>1. WorkTypes'
    BY <1>5, <1>c, <1>d, Steps DEF ApplyOcr
  <2>2. active' \in Release /\ ocr' \in Release
    BY <1>5, <1>d DEF ApplyOcr
  <2> QED
    BY <1>5, <1>a, <1>b, <2>1, <2>2 DEF ApplyOcr
<1>6. CASE CheckFiles
  <2>1. WorkTypes'
    BY <1>6, <1>c, <1>d, Steps DEF CheckFiles
  <2> QED
    BY <1>6, <1>a, <1>b, <2>1 DEF CheckFiles
<1>7. CASE HandOver
  <2>0. work.step = "hand_over" /\ WorkOnly /\ UNCHANGED <<releaseVars, gate, task, pending>>
    BY <1>7 DEF HandOver
  <2>1. WorkTypes'
    BY <1>7, <1>c, <1>d, <2>0, Steps DEF HandOver, Operation
  <2>2. handoff' \in Handoff \union {None}
    BY <1>7, <1>d, <2>0 DEF HandOver, Handoff, TaskTypes
  <2>3. TaskTypes'
    BY <2>0, <2>2 DEF WorkOnly, TaskTypes
  <2> QED
    BY <1>a, <2>0, <2>1, <2>3
<1>8. CASE Ask
  <2>0. work.step = "ask" /\ WorkOnly /\ UNCHANGED <<releaseVars, gate>>
    BY <1>8 DEF Ask
  <2>1. WorkTypes'
    BY <1>8, <1>c, <1>d, <2>0, Steps DEF Ask, Operation
  <2>2. TaskTypes'
    BY <1>8, <2>0, PipeTypes DEF Ask, WorkOnly, TaskTypes
  <2> QED
    BY <1>a, <2>0, <2>1, <2>2
<1>9. CASE DropHandoff
  <2>1. WorkTypes'
    BY <1>9, <1>c, <1>d, Steps DEF DropHandoff
  <2>2. TaskTypes'
    BY <1>9 DEF DropHandoff, WorkOnly, TaskTypes
  <2> QED
    BY <1>9, <1>a, <2>1, <2>2 DEF DropHandoff
<1>10. CASE Look
  <2>1. WorkTypes'
    BY <1>10, <1>c, <1>d, Steps DEF Look
  <2> QED
    BY <1>10, <1>a, <1>b, <2>1 DEF Look
<1>11. CASE UndoActive
  <2>1. WorkTypes'
    BY <1>11, <1>c, <1>d, Steps DEF UndoActive
  <2>2. active' \in Release /\ ocr' \in Release
    BY <1>11, <1>d DEF UndoActive
  <2> QED
    BY <1>11, <1>a, <1>b, <2>1, <2>2 DEF UndoActive
<1>12. CASE UndoOcr
  <2>1. WorkTypes'
    BY <1>12, <1>c, <1>d, Steps DEF UndoOcr
  <2>2. active' \in Release /\ ocr' \in Release
    BY <1>12, <1>d DEF UndoOcr
  <2> QED
    BY <1>12, <1>a, <1>b, <2>1, <2>2 DEF UndoOcr
<1>13. CASE UndoAsk
  <2>1. WorkTypes'
    BY <1>13, <1>c, <1>d, Steps DEF UndoAsk
  <2>2. TaskTypes'
    BY <1>13, PipeTypes DEF UndoAsk, WorkOnly, TaskTypes
  <2> QED
    BY <1>13, <1>a, <2>1, <2>2 DEF UndoAsk
<1>14. CASE Complete
  <2>1. Setup \in Release
    BY DEF Release
  <2>2. WorkTypes'
    BY <1>14, <2>1, Steps DEF Complete, WorkTypes, Idle
  <2> QED
    BY <1>14, <1>a, <1>b, <2>2 DEF Complete
<1> QED
  BY <1>1, <1>2, <1>3, <1>4, <1>5, <1>6, <1>7, <1>8, <1>9, <1>10, <1>11, <1>12, <1>13, <1>14
     DEF Work

\* What a step that starts or stops the backend, or leaves it alone, has to keep.
LEMMA BackendTyped ==
    ASSUME Typed, TaskTypes',
           (\E release \in Release \union {Down} : NewBackend(release)) \/ UNCHANGED backendVars,
           disk' \in [Operation -> State], copy' \in [Operation -> State],
           active' \in Release, ocr' \in Release, epoch' \in Nat,
           found' = found, faults' \in 0 .. MaxFaults
    PROVE  Typed'
<1>1. CASE \E release \in Release \union {Down} : NewBackend(release)
  <2>1. JournalTypes' /\ WorkTypes'
    BY <1>1, NewTypes DEF JournalTypes
  <2>2. loaded' \in BOOLEAN /\ blocked' \in BOOLEAN
    <3>1. loaded' = FALSE /\ blocked' = FALSE
      BY <1>1, NewTypes
    <3> QED
      BY <3>1
  <2>3. OtherTypes'
    BY <1>1, <2>2, NewTypes DEF Typed, OtherTypes
  <2> QED
    BY <2>1, <2>3 DEF Typed
<1>2. CASE UNCHANGED backendVars
  BY <1>2 DEF backendVars, Typed, JournalTypes, WorkTypes, OtherTypes
<1> QED
  BY <1>1, <1>2

LEMMA FaultTypes ==
    ASSUME Typed, Fault \/ faults' = faults
    PROVE  faults' \in 0 .. MaxFaults
<1>1. MaxFaults \in Nat
  BY ReleaseAssumption
<1> QED
  BY <1>1 DEF Typed, OtherTypes, Fault

\* The controller's thread goes on to another step with what it holds.
LEMMA TaskTyped ==
    ASSUME Typed, NEW step \in TaskStep, Proceed(step), held' = held,
           handoff' \in {handoff, None},
           step \in Deliberating \union {"clear"} => task \in Deliberating \union {"clear"}
    PROVE  TaskTypes'
  BY ProceedTypes DEF Typed, TaskTypes

LEMMA ReadHandoffTyped ==
    ASSUME Typed, NEW restarted \in BOOLEAN, ReadHandoff(restarted), handoff' = handoff
    PROVE  TaskTypes' /\ copy' \in [Operation -> State]
<1>1. CASE copy' = disk /\ held' = handoff /\ handoff # None
           /\ Proceed(IF restarted THEN "check" ELSE "undo_stop")
  BY <1>1, ProceedTypes, Steps DEF Typed, TaskTypes, JournalTypes, Deliberating
<1>2. CASE UNCHANGED <<copy, held>> /\ Proceed("idle")
  BY <1>2, TaskTyped, Steps DEF Typed, JournalTypes, Deliberating
<1> QED
  BY <1>1, <1>2 DEF ReadHandoff

LEMMA ControllerTyped ==
    ASSUME Typed, Controller
    PROVE  Typed'
<1>0. /\ disk \in [Operation -> State] /\ copy \in [Operation -> State]
      /\ active \in Release /\ ocr \in Release /\ epoch \in Nat /\ faults \in 0 .. MaxFaults
      /\ active \in Release \union {Down} /\ Down \in Release \union {Down}
      /\ task \in Deliberating => held \in Handoff
  BY DEF Typed, JournalTypes, OtherTypes, TaskTypes
<1> USE DEF journalVars, releaseVars
<1>1. CASE Restart
  <2> PICK restarted \in BOOLEAN :
          /\ IF restarted THEN NewBackend(active) ELSE NewBackend(Down)
          /\ IF task = "scheduled" THEN ReadHandoff(restarted)
             ELSE /\ Proceed(IF restarted THEN "recheck" ELSE "give_up")
                  /\ UNCHANGED <<copy, held>>
    BY <1>1 DEF Restart
  <2>1. TaskTypes' /\ copy' \in [Operation -> State]
    <3>1. CASE task = "scheduled"
      BY <1>1, <3>1, ReadHandoffTyped DEF Restart
    <3>2. CASE task # "scheduled"
      BY <1>0, <1>1, <3>2, TaskTyped, Steps DEF Restart, Deliberating
    <3> QED
      BY <3>1, <3>2
  <2>2. \E release \in Release \union {Down} : NewBackend(release)
    BY <1>0
  <2> QED
    BY <1>0, <1>1, <2>1, <2>2, BackendTyped DEF Restart
<1>2. CASE Check
  BY <1>0, <1>2, BackendTyped, TaskTyped, Steps DEF Check, TaskOnly, Deliberating
<1>3. CASE AdvanceEpoch
  BY <1>0, <1>3, BackendTyped, TaskTyped, Steps DEF AdvanceEpoch, TaskOnly, Deliberating
<1>4. CASE Decide
  <2>1. PICK step \in Deliberating, state \in State, next \in {"clear", "idle"} :
          Decision(step, state, next)
    <3>1. "committed" \in State /\ "rolled_back" \in State /\ "recovery_required" \in State
      BY DEF State, Ended
    <3>2. "commit" \in Deliberating /\ "undo" \in Deliberating /\ "give_up" \in Deliberating
      BY DEF Deliberating
    <3>3. "clear" \in {"clear", "idle"} /\ "idle" \in {"clear", "idle"}
      OBVIOUS
    <3> QED
      BY <1>4, <3>1, <3>2, <3>3, Decisions, Zenon
  <2>2. copy' \in [Operation -> State] /\ disk' \in [Operation -> State]
    BY <1>0, <2>1 DEF Decision, Handoff
  <2>3. TaskTypes'
    BY <1>4, <2>1, TaskTyped, Steps DEF Decide, Decision, Deliberating
  <2> QED
    BY <1>0, <1>4, <2>2, <2>3, BackendTyped DEF Decide
<1>5. CASE ClearHandoff
  BY <1>0, <1>5, BackendTyped, TaskTyped, Steps DEF ClearHandoff, TaskOnly, Deliberating
<1>6. CASE UndoStops
  BY <1>0, <1>6, BackendTyped, TaskTyped, Steps DEF UndoStops, TaskOnly, Deliberating
<1>7. CASE Restore
  <2>1. held.previous \in Release /\ held.ocr \in Release
    BY <1>0, <1>7 DEF Restore, Handoff, Deliberating
  <2>2. active' \in Release /\ ocr' \in Release
    BY <1>0, <1>7, <2>1 DEF Restore
  <2>3. TaskTypes'
    BY <1>7, TaskTyped, Steps DEF Restore, TaskOnly, Deliberating
  <2> QED
    BY <1>0, <1>7, <2>2, <2>3, BackendTyped DEF Restore, TaskOnly
<1>8. CASE Boot
  BY <1>0, <1>8, BackendTyped, ReadHandoffTyped DEF Boot
<1> QED
  BY <1>1, <1>2, <1>3, <1>4, <1>5, <1>6, <1>7, <1>8 DEF Controller

LEMMA ProcessTyped ==
    ASSUME Typed, Load \/ BackendEnds \/ UserStart \/ UserRestart \/ UpdateRuntime
                  \/ PowerLoss \/ ControllerRaises
    PROVE  Typed'
<1>0. /\ disk \in [Operation -> State] /\ copy \in [Operation -> State]
      /\ active \in Release /\ ocr \in Release /\ epoch \in Nat /\ faults \in 0 .. MaxFaults
      /\ active \in Release \union {Down} /\ Down \in Release \union {Down}
  BY DEF Typed, JournalTypes, OtherTypes
<1> USE DEF journalVars, releaseVars, controllerVars
<1>1. CASE Load
  <2>1. disk' \in [Operation -> State] /\ memory' \in [Operation -> State]
    BY <1>0, <1>1 DEF Load, State, Ended
  <2>2. JournalTypes' /\ WorkTypes' /\ TaskTypes'
    BY <1>1, <2>1 DEF Load, Typed, JournalTypes, WorkTypes, TaskTypes
  <2>3. loaded' \in BOOLEAN /\ blocked' \in BOOLEAN
    <3>1. loaded' = TRUE /\ blocked' = (Recovering # {})
      BY <1>1 DEF Load
    <3> QED
      BY <3>1, Zenon
  <2>4. OtherTypes'
    BY <1>1, <2>3 DEF Load, Typed, OtherTypes
  <2> QED
    BY <2>2, <2>4 DEF Typed
<1>2. CASE BackendEnds \/ UserStart
  <2>1. TaskTypes'
    BY <1>2 DEF BackendEnds, UserStart, Typed, TaskTypes
  <2> QED
    BY <1>0, <1>2, <2>1, BackendTyped DEF BackendEnds, UserStart
<1>3. CASE UserRestart
  <2>1. TaskTypes'
    BY <1>3, PipeTypes DEF UserRestart, Typed, TaskTypes
  <2> QED
    BY <1>0, <1>3, <2>1, BackendTyped DEF UserRestart
<1>4. CASE UpdateRuntime
  BY <1>4 DEF UpdateRuntime, Typed, JournalTypes, WorkTypes, TaskTypes, OtherTypes
<1>5. CASE PowerLoss
  <2>1. disk' \in [Operation -> State] /\ copy' \in [Operation -> State]
    <3>1. CASE disk' = disk
      BY <1>0, <1>5, <3>1 DEF PowerLoss, State
    <3>2. CASE disk' = [copy EXCEPT ![held.op] = "rolling_back"]
      BY <1>0, <1>5, <3>2 DEF PowerLoss, State, Applying
    <3> QED
      BY <1>5, <3>1, <3>2 DEF PowerLoss
  <2>2. TaskTypes'
    <3>1. task' = "boot" /\ pending' = FALSE /\ held' = None /\ handoff' = handoff
      BY <1>5 DEF PowerLoss
    <3> QED
      BY <3>1, Steps DEF Typed, TaskTypes, Deliberating
  <2>3. faults' \in 0 .. MaxFaults
    BY <1>5, FaultTypes DEF PowerLoss
  <2> QED
    BY <1>0, <1>5, <2>1, <2>2, <2>3, BackendTyped DEF PowerLoss
<1>6. CASE ControllerRaises
  <2>1. TaskTypes'
    BY <1>6, TaskTyped, Steps DEF ControllerRaises, Deliberating
  <2>2. faults' \in 0 .. MaxFaults
    BY <1>6, FaultTypes DEF ControllerRaises
  <2>3. NewBackend(Down) \/ UNCHANGED backendVars
    BY <1>6 DEF ControllerRaises
  <2> QED
    BY <1>0, <1>6, <2>1, <2>2, <2>3, BackendTyped DEF ControllerRaises
<1> QED
  BY <1>1, <1>2, <1>3, <1>4, <1>5, <1>6

LEMMA TypedStep == Typed /\ [Next]_vars => Typed'
<1> SUFFICES ASSUME Typed, [Next]_vars
             PROVE  Typed'
  OBVIOUS
<1>1. ASSUME NEW o \in Operation, ForceOperation(o)
      PROVE  Typed'
  BY <1>1 DEF ForceOperation, journalVars, releaseVars, controllerVars, Typed, JournalTypes,
              WorkTypes, TaskTypes, OtherTypes
<1>2. CASE UNCHANGED vars
  BY <1>2 DEF vars, journalVars, releaseVars, backendVars, controllerVars, Typed,
              JournalTypes, WorkTypes, TaskTypes, OtherTypes
<1> QED
  BY <1>1, <1>2, SubmitTyped, WorkTyped, ControllerTyped, ProcessTyped DEF Next

\* Every step of backend and controller leaves every variable in its type, and an
\* operation in the hands of each is one of the kind its step is for.
THEOREM TypeCorrect == Spec => []TypeOK
  BY TypedInit, TypedStep, TypedIsTypeOK, PTL DEF Spec

(* ------------------------------- sessions ------------------------------- *)

\* Committed by some copy of the journal, which may yet replace the file.
Committed == {o \in Operation : disk[o] = "committed" \/ memory[o] = "committed"
                                \/ copy[o] = "committed"}
\* ... or about to be.
Accepted == Committed \union (IF task = "commit" THEN {held.op} ELSE {})
Voided == Cardinality(Accepted) <= epoch

LEMMA AcceptedIsFinite ==
    ASSUME Typed
    PROVE  Accepted \in SUBSET Operation /\ IsFiniteSet(Accepted) /\ Cardinality(Accepted) \in Nat
<1>1. task = "commit" => held.op \in Operation
  BY DEF Typed, TaskTypes, Deliberating, Handoff
<1>2. Accepted \in SUBSET Operation
  BY <1>1 DEF Accepted, Committed
<1>3. IsFiniteSet(Operation)
  BY ReleaseAssumption
<1> QED
  BY <1>2, <1>3, FS_Subset, FS_CardinalityType

\* A step that accepts nothing new.
LEMMA VoidedKept ==
    ASSUME Typed, Typed', Voided, epoch' = epoch, Accepted' \subseteq Accepted
    PROVE  Voided'
<1>1. Cardinality(Accepted') <= Cardinality(Accepted)
  BY AcceptedIsFinite, FS_Subset
<1>2. Cardinality(Accepted') \in Nat
  <2>1. IsFiniteSet(Accepted')
    BY AcceptedIsFinite, FS_Subset
  <2> QED
    BY <2>1, FS_CardinalityType
<1> QED
  BY <1>1, <1>2, AcceptedIsFinite DEF Voided, Typed, OtherTypes

\* A journal that is written comes from those there are.
LEMMA AcceptedKept ==
    ASSUME Typed, Typed',
           \A o \in Operation :
              /\ disk'[o] = "committed" => o \in Accepted
              /\ memory'[o] = "committed" => o \in Accepted
              /\ copy'[o] = "committed" => o \in Accepted,
           task' = "commit" => task = "commit" /\ held' = held
    PROVE  Accepted' \subseteq Accepted
  BY DEF Accepted, Committed

LEMMA LogAccepts ==
    ASSUME Typed, NEW o, NEW state \in State, state # "committed", Log(o, state), copy' = copy,
           NEW p \in Operation
    PROVE  /\ disk'[p] = "committed" => p \in Accepted
           /\ memory'[p] = "committed" => p \in Accepted
           /\ copy'[p] = "committed" => p \in Accepted
  BY DEF Log, Accepted, Committed, Typed, JournalTypes

LEMMA VoidedStep == Typed /\ Typed' /\ Voided /\ [Next]_vars => Voided'
<1> SUFFICES ASSUME Typed, Typed', Voided, [Next]_vars
             PROVE  Voided'
  OBVIOUS
<1> USE DEF journalVars, releaseVars, backendVars, controllerVars
<1>0. \A o \in Operation :
          /\ disk[o] = "committed" => o \in Accepted
          /\ memory[o] = "committed" => o \in Accepted
          /\ copy[o] = "committed" => o \in Accepted
  BY DEF Accepted, Committed
<1>n. ASSUME NEW release, NewBackend(release), NEW o \in Operation
      PROVE  memory'[o] # "committed"
  BY <1>n DEF NewBackend
<1>r. ASSUME NEW restarted, ReadHandoff(restarted)
      PROVE  task' # "commit" /\ copy' \in {copy, disk}
  BY <1>r DEF ReadHandoff, Proceed
<1> USE DEF Proceed
<1>1. ASSUME NEW o \in Operation, Submit(o)
      PROVE  Voided'
  <2>1. "downloading" \in State
    BY DEF State
  <2>2. Accepted' \subseteq Accepted
    BY <1>1, <2>1, AcceptedKept, LogAccepts DEF Submit
  <2> QED
    BY <1>1, <2>2, VoidedKept DEF Submit
<1>2. CASE Enter
  <2>1. PICK state \in State : state # "committed" /\ Log(work.op, state)
    BY <1>2, Entries DEF Entry, State, Ended, Applying
  <2>2. Accepted' \subseteq Accepted
    BY <1>2, <2>1, AcceptedKept, LogAccepts DEF Enter
  <2> QED
    BY <1>2, <2>2, VoidedKept DEF Enter
<1>3. CASE Work /\ ~ Enter
  <2>1. WorkOnly
    BY <1>3 DEF Work, Drained, Backup, Apply, ApplyOcr, CheckFiles, HandOver, Ask, DropHandoff,
                Look, UndoActive, UndoOcr, UndoAsk, Complete
  <2>2. task' \in {task, "scheduled"}
    BY <1>3 DEF Work, Drained, Backup, Apply, ApplyOcr, CheckFiles, HandOver, Ask, DropHandoff,
                Look, UndoActive, UndoOcr, UndoAsk, Complete, Schedule, Refused
  <2>3. Accepted' \subseteq Accepted
    BY <1>0, <2>1, <2>2, AcceptedKept DEF WorkOnly
  <2> QED
    BY <2>1, <2>3, VoidedKept DEF WorkOnly
<1>4. ASSUME NEW o \in Operation, ForceOperation(o)
      PROVE  Voided'
  BY <1>0, <1>4, AcceptedKept, VoidedKept DEF ForceOperation
<1>5. CASE UpdateRuntime
  BY <1>0, <1>5, AcceptedKept, VoidedKept DEF UpdateRuntime
<1>6. CASE Load
  <2>1. ASSUME NEW o \in Operation
        PROVE  disk'[o] = "committed" => disk[o] = "committed"
    BY <1>6 DEF Load
  <2>2. Accepted' \subseteq Accepted
    BY <1>0, <1>6, <2>1, AcceptedKept DEF Load
  <2> QED
    BY <1>6, <2>2, VoidedKept DEF Load
<1>7. CASE BackendEnds \/ UserStart
  <2>1. Accepted' \subseteq Accepted
    BY <1>0, <1>7, <1>n, AcceptedKept DEF BackendEnds, UserStart
  <2> QED
    BY <1>7, <2>1, VoidedKept DEF BackendEnds, UserStart
<1>8. CASE UserRestart
  BY <1>0, <1>8, AcceptedKept, VoidedKept DEF UserRestart, Schedule
<1>9. CASE Restart
  <2>1. \A o \in Operation : memory'[o] # "committed"
    BY <1>9, <1>n DEF Restart
  <2>2. task' # "commit" /\ copy' \in {copy, disk}
    BY <1>9, <1>r DEF Restart
  <2>3. Accepted' \subseteq Accepted
    BY <1>0, <1>9, <2>1, <2>2, AcceptedKept DEF Restart
  <2> QED
    BY <1>9, <2>3, VoidedKept DEF Restart
<1>10. CASE Check
  BY <1>0, <1>10, AcceptedKept, VoidedKept DEF Check, TaskOnly
<1>11. CASE AdvanceEpoch
  <2>1. Accepted' \subseteq Accepted \union {held.op}
    BY <1>11 DEF AdvanceEpoch, TaskOnly, Accepted, Committed
  <2>2. /\ IsFiniteSet(Accepted \union {held.op})
        /\ Cardinality(Accepted \union {held.op}) <= Cardinality(Accepted) + 1
    BY AcceptedIsFinite, FS_AddElement
  <2>3. Cardinality(Accepted') <= Cardinality(Accepted \union {held.op})
    BY <2>1, <2>2, FS_Subset
  <2>4. Cardinality(Accepted') \in Nat /\ Cardinality(Accepted \union {held.op}) \in Nat
    BY <2>1, <2>2, FS_Subset, FS_CardinalityType
  <2> QED
    BY <1>11, <2>2, <2>3, <2>4, AcceptedIsFinite DEF AdvanceEpoch, Voided, Typed, OtherTypes
<1>12. CASE Decide
  <2>1. PICK step, state, next :
          /\ Decision(step, state, next) /\ next # "commit"
          /\ state = "committed" => step = "commit"
    BY <1>12, Decisions
  <2>2. ASSUME NEW o \in Operation, copy'[o] = "committed"
        PROVE  o \in Accepted
    <3>1. CASE copy[o] = "committed"
      BY <1>0, <3>1
    <3>2. CASE copy[o] # "committed"
      BY <2>1, <2>2, <3>2 DEF Decision, Accepted, Typed, JournalTypes
    <3> QED
      BY <3>1, <3>2
  <2>3. Accepted' \subseteq Accepted
    BY <1>0, <1>12, <2>1, <2>2, AcceptedKept DEF Decide, Decision
  <2> QED
    BY <1>12, <2>3, VoidedKept DEF Decide
<1>13. CASE ClearHandoff \/ Restore
  BY <1>0, <1>13, AcceptedKept, VoidedKept DEF ClearHandoff, Restore, TaskOnly
<1>14. CASE UndoStops
  BY <1>0, <1>14, <1>n, AcceptedKept, VoidedKept DEF UndoStops, TaskOnly
<1>15. CASE Boot
  <2>1. Accepted' \subseteq Accepted
    BY <1>0, <1>15, <1>n, <1>r, AcceptedKept DEF Boot
  <2> QED
    BY <1>15, <2>1, VoidedKept DEF Boot
<1>16. CASE PowerLoss
  <2>1. ASSUME NEW o \in Operation, disk'[o] = "committed"
        PROVE  disk[o] = "committed" \/ copy[o] = "committed"
    BY <1>16, <2>1 DEF PowerLoss, Typed, JournalTypes
  <2>2. \A o \in Operation : copy'[o] # "committed"
    BY <1>16 DEF PowerLoss
  <2>3. Accepted' \subseteq Accepted
    BY <1>0, <1>16, <1>n, <2>1, <2>2, AcceptedKept DEF PowerLoss
  <2> QED
    BY <1>16, <2>3, VoidedKept DEF PowerLoss
<1>17. CASE ControllerRaises
  <2>1. \A o \in Operation : memory'[o] \in {memory[o], "none"}
    BY <1>17 DEF ControllerRaises, NewBackend
  <2>2. Accepted' \subseteq Accepted
    BY <1>0, <1>17, <2>1, AcceptedKept DEF ControllerRaises
  <2> QED
    BY <1>17, <2>2, VoidedKept DEF ControllerRaises
<1>18. CASE UNCHANGED vars
  BY <1>0, <1>18, AcceptedKept, VoidedKept DEF vars
<1> QED
  BY <1>1, <1>2, <1>3, <1>4, <1>5, <1>6, <1>7, <1>8, <1>9, <1>10, <1>11, <1>12, <1>13, <1>14,
     <1>15, <1>16, <1>17, <1>18 DEF Next, Controller

\* Every operation that was committed has voided the sessions begun before it.
THEOREM SessionsAreVoided == Spec => []SessionsEnd
<1>1. Init => Voided
  <2> SUFFICES ASSUME Init
               PROVE  Voided
    OBVIOUS
  <2>1. Accepted = {}
    BY DEF Init, Accepted, Committed
  <2> QED
    BY <2>1, FS_EmptySet DEF Init, Voided
<1>2. Typed /\ Voided => SessionsEnd
  <2> SUFFICES ASSUME Typed, Voided
               PROVE  SessionsEnd
    OBVIOUS
  <2> DEFINE Recorded == {o \in Operation : disk[o] = "committed"}
  <2>1. Recorded \subseteq Accepted
    BY DEF Accepted, Committed
  <2>2. /\ Cardinality(Recorded) <= Cardinality(Accepted)
        /\ Cardinality(Recorded) \in Nat
    BY <2>1, AcceptedIsFinite, FS_Subset, FS_CardinalityType
  <2> QED
    BY <2>2, AcceptedIsFinite DEF Voided, SessionsEnd, Typed, OtherTypes
<1> QED
  BY <1>1, <1>2, TypedInit, TypedStep, VoidedStep, PTL DEF Spec

(* ------------------------------ the journal ----------------------------- *)

\* What the journal says of the operation of a maintenance thread, by its step.
At(step, o, state) ==
    /\ step \in {"drain", "begin"} => state = "downloading"
    /\ step = "wait" => state = IF o \in Restarts THEN "draining" ELSE "downloading"
    /\ step \in {"save", "stop"} => state = "draining"
    /\ step \in {"backup", "install", "fail"} => state = "backing_up"
    /\ step = "replace" => state = "stopping"
    /\ step \in {"apply", "apply_ocr", "validate", "confirm", "refuse", "drop_handoff"} =>
           state = "installing"
    /\ step \in {"check", "look"} => state = "validating"
    /\ step \in {"hand_over", "ask"} =>
           state = IF o \in Restarts THEN "installing" ELSE "validating"
    /\ step = "undo" => state \in {"installing", "validating"}
    /\ step \in {"undo_active", "undo_ocr", "undo_ask", "undone", "give_up"} =>
           state = "rolling_back"
Working == At(work.step, work.op, disk[work.op])

\* A backend that is about to write the journal holds what is in it; a memory that
\* has grown old shows an unfinished operation, so that nothing begins upon it.
Owned ==
    /\ gate # None \/ work.step # "idle" \/ runtime # None =>
           loaded /\ memory = disk /\ task \notin Deliberating
    /\ loaded /\ memory # disk => Unfinished(memory) # {}
    /\ \A o, p \in Unfinished(disk) : o = p

\* So does the controller, from the handoff it has read to its decision.
HeldByController ==
    task \in Deliberating =>
        /\ copy = disk /\ handoff = held /\ disk[held.op] = "validating"
        /\ loaded => memory = disk

Steady == Working /\ Owned /\ HeldByController

\* One step of an operation in the journal.
Advances(from, to) ==
    /\ from \notin Ended
    /\ \/ to \in Transitions[from]
       \/ from \in Applying /\ to \in {"recovery_required", "rolled_back"}

LEMMA TransitionTable ==
    /\ Advances("none", "downloading") /\ Advances("downloading", "draining")
    /\ Advances("downloading", "failed") /\ Advances("draining", "failed")
    /\ Advances("stopping", "failed") /\ Advances("draining", "backing_up")
    /\ Advances("draining", "stopping") /\ Advances("stopping", "installing")
    /\ Advances("backing_up", "installing") /\ Advances("backing_up", "failed")
    /\ Advances("installing", "validating") /\ Advances("installing", "failed")
    /\ Advances("installing", "rolling_back") /\ Advances("validating", "rolling_back")
    /\ Advances("validating", "committed") /\ Advances("validating", "rolled_back")
    /\ Advances("rolling_back", "rolled_back")
    /\ \A from \in Applying : Advances(from, "recovery_required")
<1>1. /\ Transitions["none"] = {"downloading"}
      /\ Transitions["downloading"] = {"draining", "failed"}
      /\ Transitions["draining"] = {"stopping", "backing_up", "failed"}
      /\ Transitions["stopping"] = {"backing_up", "installing", "failed"}
      /\ Transitions["backing_up"] = {"installing", "validating", "rolling_back", "failed"}
      /\ Transitions["installing"] = {"validating", "rolling_back", "failed"}
      /\ Transitions["validating"] = {"committed", "rolling_back", "recovery_required",
                                      "failed"}
      /\ Transitions["rolling_back"] = {"rolled_back", "recovery_required"}
  BY DEF Transitions
<1> QED
  BY <1>1 DEF Advances, Ended, Applying

\* What one step does to the journal.
Advance == \A o \in Operation : disk'[o] # disk[o] => Advances(disk[o], disk'[o])

LEMMA UnfinishedStates ==
    ASSUME Typed, NEW o \in Operation
    PROVE  o \in Unfinished(disk) <=>
             disk[o] \in {"downloading", "draining", "stopping"} \union Applying
  BY DEF Unfinished, Typed, JournalTypes, State, Ended, Applying

\* Only one operation is unfinished after a step that writes of it alone.
LEMMA OneMoves ==
    ASSUME Typed, Owned, NEW o \in Operation, NEW state \in State,
           disk' = [disk EXCEPT ![o] = state],
           o \in Unfinished(disk) \/ Unfinished(disk) = {}
    PROVE  \A p, q \in Unfinished(disk') : p = q
<1>1. ASSUME NEW p \in Unfinished(disk'), p # o
      PROVE  p \in Unfinished(disk)
  BY <1>1 DEF Unfinished, Typed, JournalTypes
<1>2. \A p \in Unfinished(disk') : p = o
  BY <1>1 DEF Owned
<1> QED
  BY <1>2

LEMMA SteadySubmit ==
    ASSUME Typed, Steady, NEW o \in Operation, Submit(o)
    PROVE  Steady' /\ Advance
<1>1. /\ loaded /\ Unfinished(memory) = {} /\ memory[o] = "none"
      /\ memory' = [memory EXCEPT ![o] = "downloading"] /\ disk' = memory'
      /\ loaded' = loaded /\ task' = task
  BY DEF Submit, Log, controllerVars
<1>2. memory = disk
  BY <1>1 DEF Steady, Owned
<1>3. task \notin Deliberating
  <2> SUFFICES ASSUME task \in Deliberating
               PROVE  FALSE
    OBVIOUS
  <2>1. held.op \in Operation /\ disk[held.op] = "validating"
    BY DEF Typed, TaskTypes, Handoff, Steady, HeldByController
  <2> QED
    BY <1>1, <1>2, <2>1 DEF Unfinished, Ended
<1>4. disk' = [disk EXCEPT ![o] = "downloading"] /\ "downloading" \in State
  BY <1>1, <1>2 DEF State
<1>5. Advance
  BY <1>1, <1>2, <1>4, TransitionTable DEF Advance, Typed, JournalTypes
<1>6. Working'
  <2>1. CASE gate = None
    <3>1. work' = [op |-> o, step |-> IF o \in Restarts THEN "drain" ELSE "wait",
                   previous |-> active, ocr |-> ocr]
      BY <2>1 DEF Submit
    <3>2. disk'[o] = "downloading"
      BY <1>4 DEF Typed, JournalTypes
    <3> QED
      BY <3>1, <3>2 DEF Working, At
  <2>2. CASE gate # None
    <3>1. work' = work
      BY <2>2 DEF Submit
    <3>2. work.step # "idle" => work.op \notin Unfinished(disk) /\ work.op \in Operation
      BY <1>1, <1>2 DEF Typed, WorkTypes
    <3>3. work.step \in {"idle", "complete", "end"}
      BY <3>2, Steps, UnfinishedStates DEF Steady, Working, At, Typed, WorkTypes, Applying,
         UpdateSteps, RestartSteps, SharedSteps
    <3> QED
      BY <3>1, <3>3 DEF Working, At
  <2> QED
    BY <2>1, <2>2
<1>7. Owned'
  <2>1. \A p, q \in Unfinished(disk') : p = q
    BY <1>1, <1>2, <1>4, OneMoves DEF Steady
  <2> QED
    BY <1>1, <1>3, <2>1 DEF Owned
<1>8. HeldByController'
  BY <1>1, <1>3 DEF HeldByController
<1> QED
  BY <1>5, <1>6, <1>7, <1>8 DEF Steady

\* An entry moves the journal on, to where the next step expects it.
LEMMA EntriesAdvance ==
    ASSUME Typed, Working, Enter
    PROVE  \E state \in State : \E next :
               /\ Log(work.op, state) /\ Goes(next)
               /\ At(next, work.op, state)
               /\ disk[work.op] # state => Advances(disk[work.op], state)
               /\ disk[work.op] \in {"downloading", "draining", "stopping"} \union Applying
<1> DEFINE Goal(step, state, next) ==
        /\ At(next, work.op, state) /\ state \in State
        /\ Advances(disk[work.op], state)
        /\ disk[work.op] \in {"downloading", "draining", "stopping"} \union Applying
<1>a. ASSUME NEW step, NEW state, NEW next, Entry(step, state, next), Goal(step, state, next)
      PROVE  \E to \in State : \E then :
               /\ Log(work.op, to) /\ Goes(then)
               /\ At(then, work.op, to)
               /\ disk[work.op] # to => Advances(disk[work.op], to)
               /\ disk[work.op] \in {"downloading", "draining", "stopping"} \union Applying
  BY <1>a, Zenon DEF Entry
<1> USE TransitionTable, ReleaseAssumption
    DEF At, Working, State, Ended, Applying, Typed, WorkTypes, UpdateSteps, RestartSteps
<1>1. Entry("drain", "draining", "wait") => Goal("drain", "draining", "wait")
  BY DEF Entry
<1>2. Entry("begin", "draining", "save") => Goal("begin", "draining", "save")
  BY DEF Entry
<1>3. Entry("save", "backing_up", "backup") => Goal("save", "backing_up", "backup")
  BY DEF Entry
<1>4. Entry("install", "installing", "apply") => Goal("install", "installing", "apply")
  BY DEF Entry
<1>5. Entry("stop", "stopping", "replace") => Goal("stop", "stopping", "replace")
  BY DEF Entry
<1>6. Entry("replace", "installing", "hand_over") => Goal("replace", "installing", "hand_over")
  BY DEF Entry
<1>7. Entry("validate", "validating", "check") => Goal("validate", "validating", "check")
  BY DEF Entry
<1>8. Entry("confirm", "validating", "end") => Goal("confirm", "validating", "end")
  BY DEF Entry
<1>9. Entry("undo", "rolling_back", "undo_active") => Goal("undo", "rolling_back", "undo_active")
  BY DEF Entry
<1>10. Entry("undone", "rolled_back", "complete") => Goal("undone", "rolled_back", "complete")
  BY DEF Entry
<1>11. Entry("give_up", "recovery_required", "complete")
           => Goal("give_up", "recovery_required", "complete")
  BY DEF Entry
<1>12. Entry("fail", "failed", "complete") => Goal("fail", "failed", "complete")
  BY DEF Entry
<1>13. Entry("refuse", "failed", "end") => Goal("refuse", "failed", "end")
  BY DEF Entry
<1> HIDE DEF Goal
<1> QED
  BY ONLY Entries, Enter, <1>a, <1>1, <1>2, <1>3, <1>4, <1>5, <1>6, <1>7, <1>8, <1>9,
          <1>10, <1>11, <1>12, <1>13, Zenon

LEMMA SteadyEnter ==
    ASSUME Typed, Steady, Enter
    PROVE  Steady' /\ Advance
<1>1. /\ work.step # "idle" /\ work.op \in Operation /\ UNCHANGED <<loaded, task>>
  BY DEF Enter, Journaling, Typed, WorkTypes, controllerVars
<1>2. loaded /\ memory = disk /\ task \notin Deliberating
  BY <1>1 DEF Steady, Owned
<1>3. PICK state, next :
         /\ state \in State
         /\ Log(work.op, state) /\ Goes(next)
         /\ At(next, work.op, state)
         /\ disk[work.op] # state => Advances(disk[work.op], state)
         /\ disk[work.op] \in {"downloading", "draining", "stopping"} \union Applying
  BY EntriesAdvance DEF Steady
<1>4. /\ memory' = [disk EXCEPT ![work.op] = state] /\ disk' = memory'
      /\ work' = [work EXCEPT !.step = next]
  BY <1>2, <1>3 DEF Log, Goes
<1>5. work'.op = work.op /\ disk'[work.op] = state /\ work'.step = next
  BY <1>1, <1>4 DEF Typed, JournalTypes, WorkTypes
<1>6. Working'
  BY <1>3, <1>5 DEF Working
<1>7. \A p, q \in Unfinished(disk') : p = q
  BY <1>1, <1>3, <1>4, OneMoves, UnfinishedStates DEF Steady
<1>8. Advance
  BY <1>1, <1>3, <1>4 DEF Advance, Typed, JournalTypes
<1>9. Owned' /\ HeldByController'
  BY <1>1, <1>2, <1>4, <1>7 DEF Owned, HeldByController
<1> QED
  BY <1>6, <1>8, <1>9 DEF Steady

\* A step of the thread that writes no journal leads to where the next one expects it.
LEMMA SteadyWork ==
    ASSUME Typed, Steady, Work, ~ Enter
    PROVE  Steady' /\ Advance
<1>1. WorkOnly /\ work.step # "idle"
  BY DEF Work, Drained, Backup, Apply, ApplyOcr, CheckFiles, HandOver, Ask, DropHandoff,
         Look, UndoActive, UndoOcr, UndoAsk, Complete
<1>2. task' \in {task, "scheduled"}
  BY DEF Work, Drained, Backup, Apply, ApplyOcr, CheckFiles, HandOver, Ask, DropHandoff,
         Look, UndoActive, UndoOcr, UndoAsk, Complete, Schedule, Refused
<1>3. loaded /\ memory = disk /\ task' \notin Deliberating
  BY <1>1, <1>2 DEF Steady, Owned, Deliberating
<1>4. Owned' /\ HeldByController' /\ Advance
  BY <1>1, <1>3 DEF WorkOnly, Steady, Owned, HeldByController, Unfinished, Advance
<1>5. Working'
  <2>1. Complete => work'.step = "idle"
    BY DEF Complete, Idle
  <2>2. ~ Complete => work'.op = work.op /\ At(work'.step, work.op, disk[work.op])
    <3> USE DEF Goes, At, Typed, WorkTypes, Operation, UpdateSteps, RestartSteps, Steady, Working
    <3>1. CASE Drained
      BY <3>1, ReleaseAssumption DEF Drained
    <3>2. CASE Backup
      BY <3>2 DEF Backup
    <3>3. CASE Apply \/ ApplyOcr
      BY <3>3 DEF Apply, ApplyOcr
    <3>4. CASE CheckFiles
      BY <3>4, ReleaseAssumption DEF CheckFiles
    <3>5. CASE HandOver
      <4>1. work'.op = work.op /\ work.op \in Operation
            /\ work'.step \in {"ask", IF work.op \in Restarts THEN "drop_handoff" ELSE "undo"}
        BY <3>5 DEF HandOver
      <4>2. disk[work.op] = IF work.op \in Restarts THEN "installing" ELSE "validating"
        BY <3>5 DEF HandOver
      <4> QED
        BY <4>1, <4>2
    <3>6. CASE Ask
      <4>1. work'.op = work.op /\ work.op \in Operation
            /\ work'.step \in IF work.op \in Restarts THEN {"confirm", "refuse"}
                              ELSE {"look", "undo"}
        BY <3>6 DEF Ask
      <4>2. disk[work.op] = IF work.op \in Restarts THEN "installing" ELSE "validating"
        BY <3>6 DEF Ask
      <4> QED
        BY <4>1, <4>2
    <3>7. CASE DropHandoff
      BY <3>7 DEF DropHandoff
    <3>8. CASE Look
      BY <3>8 DEF Look
    <3>9. CASE UndoActive \/ UndoOcr
      BY <3>9 DEF UndoActive, UndoOcr
    <3>10. CASE UndoAsk
      BY <3>10 DEF UndoAsk
    <3> QED
      BY <3>1, <3>2, <3>3, <3>4, <3>5, <3>6, <3>7, <3>8, <3>9, <3>10 DEF Work
  <2> QED
    BY <1>1, <2>1, <2>2 DEF Working, At, WorkOnly
<1> QED
  BY <1>4, <1>5 DEF Steady

\* A backend that starts or stops owns nothing, and forgets nothing that is needed.
LEMMA SteadyNew ==
    ASSUME Typed, Steady, NEW release, NewBackend(release), UNCHANGED disk,
           task' \in Deliberating =>
              \/ task \in Deliberating /\ UNCHANGED <<copy, held, handoff>>
              \/ /\ handoff # None /\ disk[handoff.op] = "validating"
                 /\ copy' = disk /\ held' = handoff /\ UNCHANGED handoff
    PROVE  Steady' /\ Advance
<1>1. /\ loaded' = FALSE /\ gate' = None /\ work'.step = "idle" /\ runtime' = None
  BY DEF NewBackend, Idle
<1>2. Working' /\ Advance
  BY <1>1 DEF Working, At, Advance
<1>3. Owned'
  BY <1>1 DEF Owned, Steady, Unfinished
<1>4. HeldByController'
  BY <1>1 DEF HeldByController, Steady
<1> QED
  BY <1>2, <1>3, <1>4 DEF Steady

\* A step that leaves the journal and the backend's part in it alone.
LEMMA SteadyKept ==
    ASSUME Typed, Steady, UNCHANGED <<disk, loaded, memory, work>>,
           gate' = gate, runtime' = runtime \/ (loaded /\ memory = disk /\ task \notin Deliberating),
           task' \in Deliberating => task \in Deliberating /\ UNCHANGED <<copy, held, handoff>>
    PROVE  Steady' /\ Advance
<1>1. Working' /\ Advance
  BY DEF Steady, Working, Advance
<1>2. Owned'
  BY DEF Steady, Owned, Unfinished
<1>3. HeldByController'
  BY DEF Steady, HeldByController
<1> QED
  BY <1>1, <1>2, <1>3 DEF Steady

LEMMA ReadHandoffReads ==
    ASSUME NEW restarted, ReadHandoff(restarted), task' \in Deliberating
    PROVE  /\ handoff # None /\ disk[handoff.op] = "validating"
           /\ copy' = disk /\ held' = handoff
  BY DEF ReadHandoff, Proceed, Deliberating

\* The decision of the controller.
LEMMA SteadyDecide ==
    ASSUME Typed, Steady, Decide
    PROVE  Steady' /\ Advance
<1>1. PICK step, state, next :
          /\ Decision(step, state, next) /\ step \in Deliberating /\ next \in {"clear", "idle"}
          /\ state \in Ended \ {"failed"}
  <2>1. "commit" \in Deliberating /\ "undo" \in Deliberating /\ "give_up" \in Deliberating
    BY DEF Deliberating
  <2>2. /\ "committed" \in Ended \ {"failed"} /\ "rolled_back" \in Ended \ {"failed"}
        /\ "recovery_required" \in Ended \ {"failed"}
    BY DEF Ended
  <2>3. "clear" \in {"clear", "idle"} /\ "idle" \in {"clear", "idle"}
    OBVIOUS
  <2> QED
    BY <2>1, <2>2, <2>3, Decisions, Zenon
<1>2. task \in Deliberating /\ task' \in {"clear", "idle"}
  BY <1>1 DEF Decision, Proceed
<1>3. /\ held.op \in Operation /\ disk[held.op] = "validating"
      /\ disk' = [disk EXCEPT ![held.op] = state] /\ "validating" \in Applying
      /\ loaded => memory = disk
  BY <1>1, <1>2 DEF Typed, TaskTypes, Handoff, Steady, HeldByController, Decision, Applying
<1>4. Advance
  BY <1>1, <1>3, TransitionTable DEF Advance, Typed, JournalTypes, Ended
<1>5. gate = None /\ work.step = "idle" /\ runtime = None
  BY <1>2 DEF Steady, Owned
<1>6. Unfinished(disk') \subseteq Unfinished(disk)
  BY <1>1, <1>3 DEF Unfinished, Typed, JournalTypes
<1>7. loaded => Unfinished(memory) # {}
  BY <1>3 DEF Unfinished, Ended
<1>8. Owned'
  BY <1>5, <1>6, <1>7 DEF Owned, Decide, backendVars, Steady, Unfinished
<1>9. Working' /\ HeldByController'
  BY <1>2, <1>5 DEF Working, At, HeldByController, Deliberating, Decide, backendVars
<1> QED
  BY <1>4, <1>8, <1>9 DEF Steady

LEMMA SteadyLoad ==
    ASSUME Typed, Steady, Load
    PROVE  Steady' /\ Advance
<1>1. /\ ~ loaded /\ memory' = disk /\ loaded' = TRUE
      /\ UNCHANGED <<handoff, gate, work, runtime, task, copy, held>>
      /\ gate = None /\ work.step = "idle" /\ runtime = None
  BY DEF Load, controllerVars, Steady, Owned
<1>2. disk' = [o \in Operation |->
                  IF o \notin Recovering THEN disk[o]
                  ELSE IF disk[o] \in Applying THEN "recovery_required" ELSE "failed"]
  BY DEF Load
<1>3. Recovering \subseteq Unfinished(disk)
  BY DEF Recovering
<1>4. Unfinished(disk') \subseteq Unfinished(disk)
  BY <1>2 DEF Unfinished, Ended
<1>5. Recovering = {} => disk' = disk
  BY <1>2 DEF Typed, JournalTypes
<1>6. Advance
  <2> SUFFICES ASSUME NEW o \in Operation, disk'[o] # disk[o]
               PROVE  Advances(disk[o], disk'[o])
    BY DEF Advance
  <2>1. o \in Recovering /\ o \in Unfinished(disk)
    BY <1>2, <1>3
  <2>2. CASE disk[o] \in Applying
    BY <1>2, <2>1, <2>2, TransitionTable
  <2>3. CASE disk[o] \notin Applying
    <3>1. disk'[o] = "failed"
      BY <1>2, <2>1, <2>3
    <3>2. disk[o] \in {"downloading", "draining", "stopping"}
      BY <2>1, <2>3, UnfinishedStates
    <3> QED
      BY <3>1, <3>2, TransitionTable
  <2> QED
    BY <2>2, <2>3
<1>7. task \in Deliberating => Recovering = {}
  <2> SUFFICES ASSUME task \in Deliberating, NEW o \in Recovering
               PROVE  FALSE
    OBVIOUS
  <2>1. held \in Handoff /\ held.op \in Operation /\ disk[held.op] = "validating"
        /\ handoff = held /\ held # None
    BY ReleaseAssumption DEF Typed, TaskTypes, Handoff, Steady, HeldByController
  <2>2. held.op \in Unfinished(disk)
    BY <2>1 DEF Unfinished, Ended
  <2>3. o = held.op
    BY <1>3, <2>2 DEF Steady, Owned
  <2> QED
    BY <2>1, <2>3 DEF Recovering, HandedTo
<1>8. HeldByController'
  BY <1>1, <1>5, <1>7 DEF Steady, HeldByController
<1>9. Owned' /\ Working'
  BY <1>1, <1>3, <1>4, <1>5 DEF Steady, Owned, Unfinished, Working, At
<1> QED
  BY <1>6, <1>8, <1>9 DEF Steady

LEMMA SteadyStep == Typed /\ Typed' /\ Steady /\ [Next]_vars => Steady' /\ Advance
<1> SUFFICES ASSUME Typed, Typed', Steady, [Next]_vars
             PROVE  Steady' /\ Advance
  OBVIOUS
<1> USE DEF journalVars, releaseVars, backendVars, controllerVars
<1>1. ASSUME NEW o \in Operation, Submit(o)
      PROVE  Steady' /\ Advance
  BY <1>1, SteadySubmit
<1>2. CASE Work
  BY <1>2, SteadyEnter, SteadyWork
<1>3. ASSUME NEW o \in Operation, ForceOperation(o)
      PROVE  Steady' /\ Advance
  <2>1. gate # None
    BY <1>3, ReleaseAssumption DEF ForceOperation
  <2>2. loaded /\ memory = disk /\ task \notin Deliberating
    BY <2>1 DEF Steady, Owned
  <2> QED
    BY <1>3, <2>2, SteadyKept DEF ForceOperation
<1>4. CASE UpdateRuntime
  <2>1. loaded /\ memory = disk /\ task \notin Deliberating /\ disk' = disk
    BY <1>4 DEF UpdateRuntime, Steady, Owned
  <2> QED
    BY <1>4, <2>1, SteadyKept DEF UpdateRuntime
<1>5. CASE Load
  BY <1>5, SteadyLoad
<1>6. CASE BackendEnds \/ UserStart
  BY <1>6, SteadyNew DEF BackendEnds, UserStart
<1>7. CASE UserRestart
  BY <1>7, SteadyKept DEF UserRestart, Schedule, Deliberating
<1>8. CASE Restart
  <2> PICK restarted \in BOOLEAN :
          /\ IF restarted THEN NewBackend(active) ELSE NewBackend(Down)
          /\ IF task = "scheduled" THEN ReadHandoff(restarted)
             ELSE /\ Proceed(IF restarted THEN "recheck" ELSE "give_up")
                  /\ UNCHANGED <<copy, held>>
    BY <1>8 DEF Restart
  <2>1. disk' = disk /\ handoff' = handoff /\ task \in {"scheduled", "restart"}
    BY <1>8 DEF Restart
  <2>2. PICK release : NewBackend(release)
    OBVIOUS
  <2>3. CASE task = "scheduled"
    BY <2>1, <2>2, <2>3, ReadHandoffReads, SteadyNew
  <2>4. CASE task = "restart"
    BY <2>1, <2>2, <2>4, SteadyNew DEF Deliberating
  <2> QED
    BY <2>1, <2>3, <2>4
<1>9. CASE Check \/ AdvanceEpoch \/ Restore
  <2>1. task \in Deliberating
    BY <1>9 DEF Check, AdvanceEpoch, Restore, Deliberating
  <2>2. UNCHANGED <<disk, loaded, memory, work, gate, runtime, copy, held, handoff>>
    BY <1>9 DEF Check, AdvanceEpoch, Restore, TaskOnly
  <2> QED
    BY <2>1, <2>2, SteadyKept
<1>10. CASE Decide
  BY <1>10, SteadyDecide
<1>11. CASE ClearHandoff
  BY <1>11, SteadyKept DEF ClearHandoff, TaskOnly, Proceed, Deliberating
<1>12. CASE UndoStops
  BY <1>12, SteadyNew DEF UndoStops, TaskOnly, Deliberating
<1>13. CASE Boot
  <2>1. disk' = disk /\ handoff' = handoff /\ NewBackend(active) /\ ReadHandoff(TRUE)
    BY <1>13 DEF Boot
  <2> QED
    BY <2>1, ReadHandoffReads, SteadyNew
<1>14. CASE PowerLoss
  <2>1. /\ NewBackend(Down) /\ task' = "boot" /\ "boot" \notin Deliberating
    BY <1>14 DEF PowerLoss, Deliberating
  <2>2. CASE disk' = disk
    BY <2>1, <2>2, SteadyNew
  <2>3. CASE task = "undo" /\ disk' = [copy EXCEPT ![held.op] = "rolling_back"]
    <3>1. /\ task \in Deliberating /\ held.op \in Operation /\ copy = disk
          /\ disk[held.op] = "validating" /\ "rolling_back" \in State
      BY <2>3 DEF Deliberating, Typed, TaskTypes, Handoff, Steady, HeldByController, State,
                  Applying
    <3>2. disk' = [disk EXCEPT ![held.op] = "rolling_back"]
      BY <2>3, <3>1
    <3>3. Advance
      BY <3>1, <3>2, TransitionTable DEF Advance, Typed, JournalTypes
    <3>4. \A p, q \in Unfinished(disk') : p = q
      <4>1. held.op \in Unfinished(disk)
        BY <3>1 DEF Unfinished, Ended
      <4> QED
        BY <3>1, <3>2, <4>1, OneMoves DEF Steady
    <3>5. /\ loaded' = FALSE /\ gate' = None /\ work'.step = "idle" /\ runtime' = None
      BY <2>1 DEF NewBackend, Idle
    <3>6. Owned' /\ HeldByController' /\ Working'
      BY <2>1, <3>4, <3>5 DEF Owned, HeldByController, Working, At
    <3> QED
      BY <3>3, <3>6 DEF Steady
  <2> QED
    BY <1>14, <2>2, <2>3 DEF PowerLoss
<1>15. CASE ControllerRaises
  <2>1. /\ task' = "idle" /\ "idle" \notin Deliberating /\ disk' = disk
        /\ NewBackend(Down) \/ UNCHANGED backendVars
    BY <1>15 DEF ControllerRaises, Proceed, Deliberating
  <2> QED
    BY <2>1, SteadyNew, SteadyKept
<1>16. CASE UNCHANGED vars
  BY <1>16, SteadyKept DEF vars
<1> QED
  BY <1>1, <1>2, <1>3, <1>4, <1>5, <1>6, <1>7, <1>8, <1>9, <1>10, <1>11, <1>12, <1>13, <1>14,
     <1>15, <1>16 DEF Next, Controller

LEMMA SteadyInit == Init => Steady
<1> SUFFICES ASSUME Init
             PROVE  Steady
  OBVIOUS
<1>1. task \notin Deliberating /\ work.step = "idle"
  BY DEF Init, Deliberating, Idle
<1> QED
  BY <1>1 DEF Init, Steady, Working, At, Owned, HeldByController, Unfinished

\* Two processes replace the journal whole, each from its own memory, and an operation
\* in it still only moves along the transitions, or is recovered.
THEOREM JournalOnlyMovesOn == Spec => JournalAdvances
<1>1. Advance => [\A o \in Operation : disk'[o] # disk[o] =>
          /\ disk[o] \notin Ended
          /\ \/ disk'[o] \in Transitions[disk[o]]
             \/ /\ disk[o] \in Applying
                /\ disk'[o] \in {"recovery_required", "rolled_back"}]_vars
  BY DEF Advance, Advances
<1> QED
  BY <1>1, TypedInit, TypedStep, SteadyInit, SteadyStep, PTL DEF Spec, JournalAdvances

(* ------------------------- what is installed ---------------------------- *)

Result(o) == IF o \in Updates THEN o ELSE found[o][1]
Unchanged(o) == active = found[o][1] /\ ocr = found[o][2]

\* The journal says that nothing has been installed yet.
Early(o, state) ==
    \/ state \in {"downloading", "draining", "stopping", "backing_up"}
    \/ o \in Restarts /\ state = "installing"

Untouched == \A o \in Operation : Early(o, disk[o]) => Unchanged(o)

\* What a maintenance thread knows of what it found, and what it has done to it.
Noted(step, o) ==
    /\ step \notin {"idle", "complete", "end"} =>
           work.previous = found[o][1] /\ work.ocr = found[o][2]
    /\ step \in {"apply_ocr", "validate", "look"} => active = o
    /\ step \in {"hand_over", "ask"} => active = Result(o)
    /\ step \in {"undo_ocr", "undo_ask", "undone"} => active = work.previous
    /\ step \in {"undo_ask", "undone"} => ocr = work.ocr

\* A handoff tells the controller what to go back to, and until it does so what the
\* operation installed is there.
HandoffNoted ==
    handoff # None =>
        /\ disk[handoff.op] # "none" /\ handoff.previous = found[handoff.op][1]
        /\ disk[handoff.op] = "validating" /\ ~ InUndo => active = Result(handoff.op)

GoneBack == task \in {"restore_ocr", "restart", "recheck", "undo"} => active = held.previous

Installed == Untouched /\ Noted(work.step, work.op) /\ HandoffNoted /\ GoneBack

\* What one step may say of an outcome.
Outcome ==
    \A o \in Operation : disk'[o] # disk[o] =>
          /\ disk'[o] \in {"failed", "rolled_back"} =>
                 active = found[o][1] /\ (task # "undo" => ocr = found[o][2])
          /\ disk'[o] = "committed" => active = Result(o)

\* A step that touches neither the journal nor what is installed.
LEMMA InstalledKept ==
    ASSUME Typed, Installed, UNCHANGED <<disk, active, ocr, found>>,
           handoff' \in {handoff, None},
           work' = work \/ work'.step = "idle",
           InUndo => InUndo',
           task' \in {"restore_ocr", "restart", "recheck", "undo"} =>
              task \in {"restore_ocr", "restart", "recheck", "undo"} /\ held' = held
    PROVE  Installed' /\ Outcome
<1>1. Untouched' /\ Outcome
  BY DEF Installed, Untouched, Unchanged, Outcome
<1>2. Noted(work.step, work.op)'
  <2>1. CASE work' = work
    BY <2>1 DEF Installed, Noted, Result
  <2>2. CASE work'.step = "idle"
    BY <2>2 DEF Noted
  <2> QED
    BY <2>1, <2>2
<1>3. HandoffNoted' /\ GoneBack'
  BY DEF Installed, HandoffNoted, Result, GoneBack
<1> QED
  BY <1>1, <1>2, <1>3 DEF Installed

\* While an operation past its beginning is unfinished, no other is early.
LEMMA UntouchedByOne ==
    ASSUME Typed, Steady, NEW o \in Operation, ~ Early(o, disk[o]), disk[o] \in Applying,
           disk' = disk
    PROVE  Untouched'
<1>1. o \in Unfinished(disk)
  BY UnfinishedStates
<1>2. ASSUME NEW p \in Operation, Early(p, disk[p])
      PROVE  FALSE
  <2>1. p \in Unfinished(disk)
    BY <1>2, UnfinishedStates DEF Early, Applying
  <2> QED
    BY <1>1, <1>2, <2>1 DEF Steady, Owned
<1> QED
  BY <1>2 DEF Untouched

LEMMA InstalledSubmit ==
    ASSUME Typed, Steady, Installed, NEW o \in Operation, Submit(o)
    PROVE  Installed' /\ Outcome
<1>1. /\ loaded /\ Unfinished(memory) = {} /\ memory[o] = "none"
      /\ memory' = [memory EXCEPT ![o] = "downloading"] /\ disk' = memory'
      /\ found' = [found EXCEPT ![o] = <<active, ocr>>]
      /\ UNCHANGED <<active, ocr, task, handoff, held>>
  BY DEF Submit, Log, controllerVars, releaseVars
<1>2. memory = disk /\ Unfinished(disk) = {} /\ disk[o] = "none"
  BY <1>1 DEF Steady, Owned
<1>3. /\ disk'[o] = "downloading" /\ found'[o] = <<active, ocr>>
      /\ \A p \in Operation : p # o => disk'[p] = disk[p] /\ found'[p] = found[p]
  BY <1>1, <1>2 DEF Typed, JournalTypes, OtherTypes
<1>4. task \notin Deliberating
  <2> SUFFICES ASSUME task \in Deliberating
               PROVE  FALSE
    OBVIOUS
  <2>1. held.op \in Operation /\ disk[held.op] = "validating"
    BY DEF Typed, TaskTypes, Handoff, Steady, HeldByController
  <2> QED
    BY <1>2, <2>1 DEF Unfinished, Ended
<1>5. Untouched'
  BY <1>1, <1>3 DEF Installed, Untouched, Unchanged
<1>6. Noted(work.step, work.op)'
  <2>1. CASE gate = None
    <3>1. work' = [op |-> o, step |-> IF o \in Restarts THEN "drain" ELSE "wait",
                   previous |-> active, ocr |-> ocr]
      BY <2>1 DEF Submit
    <3> QED
      BY <1>3, <3>1 DEF Noted
  <2>2. CASE gate # None
    <3>1. work' = work
      BY <2>2 DEF Submit
    <3>2. work.step # "idle" => work.op \notin Unfinished(disk) /\ work.op \in Operation
      BY <1>2 DEF Typed, WorkTypes
    <3>3. work.step \in {"idle", "complete", "end"}
      BY <3>2, Steps, UnfinishedStates DEF Steady, Working, At, Typed, WorkTypes, Applying,
         UpdateSteps, RestartSteps, SharedSteps
    <3> QED
      BY <3>1, <3>3 DEF Noted
  <2> QED
    BY <2>1, <2>2
<1>7. HandoffNoted'
  <2> SUFFICES ASSUME handoff # None
               PROVE  HandoffNoted'
    BY <1>1 DEF HandoffNoted
  <2>1. handoff.op \in Operation /\ handoff.op # o
    BY <1>2 DEF Typed, TaskTypes, Handoff, Installed, HandoffNoted
  <2>2. Result(handoff.op)' = Result(handoff.op) /\ (InUndo' <=> InUndo)
    BY <1>1, <1>3, <2>1 DEF Result, InUndo
  <2> QED
    BY <1>1, <1>3, <2>1, <2>2 DEF Installed, HandoffNoted
<1>8. GoneBack'
  BY <1>1, <1>4 DEF GoneBack, Deliberating
<1>9. Outcome
  BY <1>3 DEF Outcome
<1> QED
  BY <1>5, <1>6, <1>7, <1>8, <1>9 DEF Installed

LEMMA InstalledEnter ==
    ASSUME Typed, Steady, Steady', Installed, Enter
    PROVE  Installed' /\ Outcome
<1> DEFINE o == work.op
<1>1. /\ work.step # "idle" /\ work.op \in Operation
      /\ UNCHANGED <<active, ocr, found, handoff, task, held>>
  BY DEF Enter, Journaling, Typed, WorkTypes, controllerVars, releaseVars
<1>2. loaded /\ memory = disk /\ task \notin Deliberating
  BY <1>1 DEF Steady, Owned
\* What an entry has to say of its state, and of the step it leads to.
<1> DEFINE Says(state, next) ==
        /\ Early(o, state) => Unchanged(o)
        /\ Noted(next, o)
        /\ state = "validating" => active = Result(o)
        /\ state # "none" /\ state # "committed"
        /\ state \in {"failed", "rolled_back"} => Unchanged(o)
<1>3. PICK state, next : state \in State /\ Log(o, state) /\ Goes(next) /\ Says(state, next)
  <2>a. ASSUME NEW step, NEW state \in State, NEW next, Entry(step, state, next),
               Says(state, next)
        PROVE  \E to \in State : \E then : Log(o, to) /\ Goes(then) /\ Says(to, then)
    BY <2>a, Zenon DEF Entry
  <2>b. /\ "draining" \in State /\ "backing_up" \in State /\ "installing" \in State
        /\ "stopping" \in State /\ "validating" \in State /\ "rolling_back" \in State
        /\ "rolled_back" \in State /\ "recovery_required" \in State /\ "failed" \in State
    BY DEF State, Applying, Ended
  <2>c. /\ Early(o, disk[o]) => Unchanged(o)
        /\ Noted(work.step, o) /\ At(work.step, o, disk[o])
        /\ work.step \in UpdateSteps => o \in Updates /\ o \notin Restarts
        /\ work.step \in RestartSteps => o \in Restarts /\ o \notin Updates
    BY <1>1, ReleaseAssumption DEF Installed, Untouched, Steady, Working, Typed, WorkTypes
  <2> HIDE DEF o
  <2> USE <2>c DEF Early, At, Noted, Result, Unchanged, UpdateSteps, RestartSteps
  <2>1. Entry("drain", "draining", "wait") => Says("draining", "wait")
    BY DEF Entry
  <2>2. Entry("begin", "draining", "save") => Says("draining", "save")
    BY DEF Entry
  <2>3. Entry("save", "backing_up", "backup") => Says("backing_up", "backup")
    BY DEF Entry
  <2>4. Entry("install", "installing", "apply") => Says("installing", "apply")
    BY DEF Entry
  <2>5. Entry("stop", "stopping", "replace") => Says("stopping", "replace")
    BY DEF Entry
  <2>6. Entry("replace", "installing", "hand_over") => Says("installing", "hand_over")
    BY DEF Entry
  <2>7. Entry("validate", "validating", "check") => Says("validating", "check")
    BY DEF Entry
  <2>8. Entry("confirm", "validating", "end") => Says("validating", "end")
    BY DEF Entry
  <2>9. Entry("undo", "rolling_back", "undo_active") => Says("rolling_back", "undo_active")
    BY DEF Entry
  <2>10. Entry("undone", "rolled_back", "complete") => Says("rolled_back", "complete")
    BY DEF Entry
  <2>11. Entry("give_up", "recovery_required", "complete")
             => Says("recovery_required", "complete")
    BY DEF Entry
  <2>12. Entry("fail", "failed", "complete") => Says("failed", "complete")
    BY DEF Entry
  <2>13. Entry("refuse", "failed", "end") => Says("failed", "end")
    BY DEF Entry
  <2> HIDE DEF Says
  <2> QED
    BY ONLY Entries, Enter, <2>a, <2>b, <2>1, <2>2, <2>3, <2>4, <2>5, <2>6, <2>7, <2>8, <2>9,
            <2>10, <2>11, <2>12, <2>13, Zenon
<1>4. /\ disk' = [disk EXCEPT ![o] = state] /\ work' = [work EXCEPT !.step = next]
  BY <1>2, <1>3 DEF Log, Goes
<1>5. /\ disk'[o] = state /\ \A p \in Operation : p # o => disk'[p] = disk[p]
      /\ work'.op = o /\ work'.step = next /\ work'.previous = work.previous
      /\ work'.ocr = work.ocr
  BY <1>1, <1>4 DEF Typed, JournalTypes, WorkTypes
<1>6. Untouched'
  BY <1>1, <1>3, <1>5 DEF Installed, Untouched, Unchanged
<1>7. Noted(work.step, work.op)'
  BY <1>1, <1>3, <1>5 DEF Noted, Result
<1>8. HandoffNoted'
  <2> SUFFICES ASSUME handoff # None
               PROVE  HandoffNoted'
    BY <1>1 DEF HandoffNoted
  <2>1. handoff.op \in Operation
    BY DEF Typed, TaskTypes, Handoff
  <2>2. \A p : Result(p)' = Result(p)
    BY <1>1 DEF Result
  <2>3. InUndo' <=> InUndo
    BY <1>1 DEF InUndo
  <2>4. CASE handoff.op = o
    BY <1>1, <1>3, <1>5, <2>1, <2>2, <2>4 DEF Installed, HandoffNoted
  <2>5. CASE handoff.op # o
    BY <1>1, <1>5, <2>1, <2>2, <2>3, <2>5 DEF Installed, HandoffNoted
  <2> QED
    BY <2>4, <2>5
<1>9. GoneBack'
  BY <1>1 DEF Installed, GoneBack
<1>10. Outcome
  BY <1>3, <1>5 DEF Outcome, Unchanged
<1> QED
  BY <1>6, <1>7, <1>8, <1>9, <1>10 DEF Installed

\* A step of the thread that writes no journal.
LEMMA InstalledWork ==
    ASSUME Typed, Steady, Steady', Installed, Work, ~ Enter
    PROVE  Installed' /\ Outcome
<1> DEFINE o == work.op
<1>1. WorkOnly /\ work.step # "idle" /\ o \in Operation
  BY DEF Work, Drained, Backup, Apply, ApplyOcr, CheckFiles, HandOver, Ask, DropHandoff,
         Look, UndoActive, UndoOcr, UndoAsk, Complete, Typed, WorkTypes
<1>2. task' \in {task, "scheduled"} /\ task \notin Deliberating /\ UNCHANGED <<disk, found, held>>
  <2>1. task' \in {task, "scheduled"}
    BY DEF Work, Drained, Backup, Apply, ApplyOcr, CheckFiles, HandOver, Ask, DropHandoff,
           Look, UndoActive, UndoOcr, UndoAsk, Complete, Schedule, Refused
  <2> QED
    BY <1>1, <2>1 DEF Steady, Owned, WorkOnly
<1>3. GoneBack' /\ Outcome /\ ~ InUndo /\ ~ InUndo'
  BY <1>2 DEF GoneBack, Outcome, Deliberating, InUndo
<1>4. /\ Early(o, disk[o]) => Unchanged(o)
      /\ Noted(work.step, o) /\ At(work.step, o, disk[o])
      /\ work.step \in UpdateSteps => o \in Updates /\ o \notin Restarts
      /\ work.step \in RestartSteps => o \in Restarts /\ o \notin Updates
      /\ \A p : Result(p)' = Result(p)
  BY <1>1, <1>2, ReleaseAssumption
     DEF Installed, Untouched, Steady, Working, Typed, WorkTypes, Result
\* What is left alone.
<1>a. ASSUME UNCHANGED <<active, ocr>>, handoff' \in {handoff, None}
      PROVE  Untouched' /\ HandoffNoted'
  BY <1>2, <1>3, <1>4, <1>a DEF Installed, Untouched, Unchanged, HandoffNoted
\* Only the operation at work has an outcome that is not in the journal yet.
<1>b. ASSUME ~ Early(o, disk[o]), disk[o] \in {"installing", "rolling_back"}, handoff' = handoff
      PROVE  Untouched' /\ HandoffNoted'
  <2>1. Untouched'
    BY <1>1, <1>2, <1>b, UntouchedByOne DEF Applying
  <2>2. handoff # None => disk[handoff.op] # "validating" /\ handoff.op \in Operation
    <3> SUFFICES ASSUME handoff # None
                 PROVE  disk[handoff.op] # "validating" /\ handoff.op \in Operation
      OBVIOUS
    <3>1. handoff.op \in Operation
      BY DEF Typed, TaskTypes, Handoff
    <3>2. disk[handoff.op] = "validating" => handoff.op \in Unfinished(disk)
      BY <3>1 DEF Unfinished, Ended
    <3>3. o \in Unfinished(disk)
      BY <1>1, <1>b DEF Unfinished, Ended
    <3> QED
      BY <1>b, <3>1, <3>2, <3>3 DEF Steady, Owned
  <2> QED
    BY <1>2, <1>b, <2>1, <2>2 DEF Installed, HandoffNoted
<1>c. work \in [op : Operation \union {None}, step : WorkStep, previous : Release, ocr : Release]
  BY DEF Typed, WorkTypes
<1> HIDE DEF o
<1> USE DEF Noted, Result, Unchanged, UpdateSteps, RestartSteps, At, Early, releaseVars
<1>5. CASE Drained
  <2>1. Noted(work.step, work.op)'
    BY <1>2, <1>4, <1>5, <1>c DEF Drained, Goes, o
  <2> QED
    BY <1>3, <1>5, <1>a, <2>1 DEF Drained, Installed
<1>6. CASE Backup
  <2>1. CASE work' = [work EXCEPT !.step = "install", !.previous = active, !.ocr = ocr]
    <3>1. Noted(work.step, work.op)'
      BY <1>2, <1>4, <1>6, <1>c, <2>1 DEF Backup, o
    <3> QED
      BY <1>3, <1>6, <1>a, <3>1 DEF Backup, Installed
  <2>2. CASE Goes("fail")
    <3>1. Noted(work.step, work.op)'
      BY <1>2, <1>4, <1>6, <1>c, <2>2 DEF Backup, Goes, o
    <3> QED
      BY <1>3, <1>6, <1>a, <3>1 DEF Backup, Installed
  <2> QED
    BY <1>6, <2>1, <2>2 DEF Backup
<1>7. CASE Apply
  <2>1. Noted(work.step, work.op)'
    BY <1>2, <1>4, <1>7, <1>c DEF Apply, Goes, o
  <2> QED
    BY <1>3, <1>4, <1>7, <1>b, <2>1 DEF Apply, Installed
<1>8. CASE ApplyOcr
  <2>1. Noted(work.step, work.op)'
    BY <1>2, <1>4, <1>8, <1>c DEF ApplyOcr, Goes, o
  <2> QED
    BY <1>3, <1>4, <1>8, <1>b, <2>1 DEF ApplyOcr, Installed
<1>9. CASE CheckFiles
  <2>1. Noted(work.step, work.op)'
    BY <1>2, <1>4, <1>9, <1>c DEF CheckFiles, Goes, o
  <2> QED
    BY <1>3, <1>9, <1>a, <2>1 DEF CheckFiles, Installed
<1>10. CASE HandOver
  <2>0. work.step = "hand_over" /\ UNCHANGED <<active, ocr>>
    BY <1>10 DEF HandOver
  <2>1. Noted(work.step, work.op)'
    <3>1. CASE Goes("ask")
      BY <1>2, <1>4, <1>c, <2>0, <3>1 DEF Goes, o
    <3>2. CASE Goes(IF work.op \in Restarts THEN "drop_handoff" ELSE "undo")
      BY <1>2, <1>4, <1>c, <2>0, <3>2 DEF Goes, o
    <3> QED
      BY <1>10, <3>1, <3>2 DEF HandOver
  <2>2. Untouched'
    BY <1>2, <2>0 DEF Installed, Untouched
  <2>3. CASE handoff' = handoff
    BY <1>3, <1>a, <2>0, <2>1, <2>3 DEF Installed
  <2>4. CASE handoff' = [op |-> work.op, ocr |-> ocr,
                         previous |-> IF work.op \in Restarts THEN active ELSE work.previous]
    <3>1. disk[o] \in {"installing", "validating"} /\ o \in Updates \union Restarts
      BY <1>1, <1>4, <2>0 DEF Operation, o
    <3>2. active = Result(o) /\ work.previous = found[o][1]
      BY <1>4, <2>0
    <3>3. o \in Restarts => o \notin Updates
      BY ReleaseAssumption
    <3>4. handoff'.op = o /\ handoff'.previous = found[o][1]
      BY <2>4, <3>2, <3>3 DEF o
    <3>5. HandoffNoted'
      BY <1>2, <2>0, <3>1, <3>2, <3>4 DEF HandoffNoted
    <3> QED
      BY <1>3, <2>1, <2>2, <3>5 DEF Installed
  <2> QED
    BY <1>10, <2>3, <2>4 DEF HandOver
<1>11. CASE Ask
  <2>0. work.step = "ask" /\ UNCHANGED <<active, ocr>>
    BY <1>11 DEF Ask
  <2>1. Noted(work.step, work.op)'
    <3>1. CASE Goes(IF work.op \in Restarts THEN "confirm" ELSE "look")
      <4>1. o \in Restarts \/ o \in Updates
        BY <1>1 DEF Operation, o
      <4> QED
        BY <1>2, <1>4, <1>c, <2>0, <3>1, <4>1 DEF Goes, o
    <3>2. CASE Goes(IF work.op \in Restarts THEN "refuse" ELSE "undo")
      BY <1>2, <1>4, <1>c, <2>0, <3>2 DEF Goes, o
    <3> QED
      BY <1>11, <3>1, <3>2 DEF Ask
  <2> QED
    BY <1>3, <1>11, <1>a, <2>0, <2>1 DEF Ask, Installed
<1>12. CASE DropHandoff
  <2>1. Noted(work.step, work.op)'
    BY <1>2, <1>4, <1>12, <1>c DEF DropHandoff, Goes, o
  <2> QED
    BY <1>3, <1>12, <1>a, <2>1 DEF DropHandoff, Installed
<1>13. CASE Look
  <2>1. Noted(work.step, work.op)'
    BY <1>2, <1>4, <1>13, <1>c DEF Look, Goes, o
  <2> QED
    BY <1>3, <1>13, <1>a, <2>1 DEF Look, Installed
<1>14. CASE UndoActive
  <2>1. Noted(work.step, work.op)'
    BY <1>2, <1>4, <1>14, <1>c DEF UndoActive, Goes, o
  <2> QED
    BY <1>3, <1>4, <1>14, <1>b, <2>1 DEF UndoActive, Installed
<1>15. CASE UndoOcr
  <2>1. Noted(work.step, work.op)'
    BY <1>2, <1>4, <1>15, <1>c DEF UndoOcr, Goes, o
  <2> QED
    BY <1>3, <1>4, <1>15, <1>b, <2>1 DEF UndoOcr, Installed
<1>16. CASE UndoAsk
  <2>1. Noted(work.step, work.op)'
    BY <1>2, <1>4, <1>16, <1>c DEF UndoAsk, Goes, o
  <2> QED
    BY <1>3, <1>16, <1>a, <2>1 DEF UndoAsk, Installed
<1>17. CASE Complete
  <2>1. Noted(work.step, work.op)'
    BY <1>17 DEF Complete, Idle
  <2> QED
    BY <1>3, <1>17, <1>a, <2>1 DEF Complete, Installed
<1> QED
  BY <1>5, <1>6, <1>7, <1>8, <1>9, <1>10, <1>11, <1>12, <1>13, <1>14, <1>15, <1>16, <1>17
     DEF Work

LEMMA InstalledDecide ==
    ASSUME Typed, Steady, Steady', Installed, Decide
    PROVE  Installed' /\ Outcome
<1>1. UNCHANGED <<active, ocr, found, handoff, held, work>>
  BY DEF Decide, releaseVars, backendVars
<1>2. PICK step, state, next :
          /\ Decision(step, state, next) /\ step \in Deliberating /\ next \in {"clear", "idle"}
          /\ state \in Ended \ {"failed"}
          /\ state = "committed" <=> step = "commit"
          /\ state = "rolled_back" => step = "undo"
  <2>1. "commit" \in Deliberating /\ "undo" \in Deliberating /\ "give_up" \in Deliberating
    BY DEF Deliberating
  <2>2. /\ "committed" \in Ended \ {"failed"} /\ "rolled_back" \in Ended \ {"failed"}
        /\ "recovery_required" \in Ended \ {"failed"}
    BY DEF Ended
  <2>3. CASE Decision("commit", "committed", "clear")
    BY <2>1, <2>2, <2>3
  <2>4. CASE Decision("undo", "rolled_back", "clear")
    BY <2>1, <2>2, <2>4
  <2>5. CASE Decision("give_up", "recovery_required", "idle")
    BY <2>1, <2>2, <2>5
  <2> QED
    BY <2>3, <2>4, <2>5, Decisions
<1>3. task = step /\ task \in Deliberating /\ task' \in {"clear", "idle"}
  BY <1>2 DEF Decision, Proceed
<1>4. /\ held.op \in Operation /\ disk[held.op] = "validating" /\ handoff = held
      /\ held # None /\ disk' = [disk EXCEPT ![held.op] = state]
  BY <1>2, <1>3, ReleaseAssumption
     DEF Typed, TaskTypes, Handoff, Steady, HeldByController, Decision
<1>5. /\ disk'[held.op] = state /\ \A p \in Operation : p # held.op => disk'[p] = disk[p]
  BY <1>4 DEF Typed, JournalTypes
<1>6. Untouched'
  BY <1>1, <1>2, <1>5 DEF Installed, Untouched, Unchanged, Early, Ended
<1>7. Noted(work.step, work.op)'
  BY <1>1 DEF Installed, Noted, Result
<1>8. HandoffNoted' /\ GoneBack'
  BY <1>1, <1>2, <1>3, <1>4, <1>5 DEF Installed, HandoffNoted, GoneBack, Ended
<1>9. Outcome
  <2> SUFFICES ASSUME NEW o \in Operation, disk'[o] # disk[o]
               PROVE  /\ disk'[o] \in {"failed", "rolled_back"} =>
                             active = found[o][1] /\ (task # "undo" => ocr = found[o][2])
                      /\ disk'[o] = "committed" => active = Result(o)
    BY DEF Outcome
  <2>1. o = held.op
    BY <1>5
  <2>2. state = "rolled_back" => active = found[o][1] /\ task = "undo"
    BY <1>2, <1>3, <1>4, <2>1 DEF Installed, HandoffNoted, GoneBack
  <2>3. state = "committed" => active = Result(o)
    BY <1>2, <1>3, <1>4, <2>1 DEF Installed, HandoffNoted, InUndo
  <2> QED
    BY <1>2, <1>5, <2>1, <2>2, <2>3
<1> QED
  BY <1>6, <1>7, <1>8, <1>9 DEF Installed

LEMMA InstalledLoad ==
    ASSUME Typed, Steady, Installed, Load
    PROVE  Installed' /\ Outcome
<1>1. UNCHANGED <<active, ocr, found, handoff, held, work, task>>
  BY DEF Load, releaseVars, controllerVars
<1>2. ASSUME NEW o \in Operation
      PROVE  \/ disk'[o] = disk[o]
             \/ o \in Unfinished(disk)
                /\ disk'[o] = IF disk[o] \in Applying THEN "recovery_required" ELSE "failed"
  BY DEF Load, Recovering
<1>3. Untouched'
  BY <1>1, <1>2 DEF Installed, Untouched, Unchanged, Early
<1>4. HandoffNoted'
  <2>1. handoff # None => handoff.op \in Operation
    BY DEF Typed, TaskTypes, Handoff
  <2> QED
    BY <1>1, <1>2, <2>1 DEF Installed, HandoffNoted, InUndo, Result
<1>5. Noted(work.step, work.op)' /\ GoneBack'
  BY <1>1 DEF Installed, Noted, Result, GoneBack
<1>6. Outcome
  <2> SUFFICES ASSUME NEW o \in Operation, disk'[o] # disk[o]
               PROVE  /\ disk'[o] \in {"failed", "recovery_required"}
                      /\ disk'[o] = "failed" => Unchanged(o)
    BY DEF Outcome, Unchanged
  <2>1. disk'[o] = "failed" => Early(o, disk[o])
    BY <1>2, UnfinishedStates DEF Early
  <2> QED
    BY <1>2, <2>1 DEF Installed, Untouched
<1> QED
  BY <1>3, <1>4, <1>5, <1>6 DEF Installed

LEMMA InstalledRestore ==
    ASSUME Typed, Steady, Installed, Restore
    PROVE  Installed' /\ Outcome
<1>1. /\ UNCHANGED <<disk, found, handoff, held, work>> /\ task \in Deliberating
      /\ task' \in {"restore_ocr", "restart"}
      /\ task = "restore" => active' = held.previous
      /\ task # "restore" => task = "restore_ocr" /\ active' = active
  BY DEF Restore, TaskOnly, journalVars, backendVars, Proceed, Deliberating
<1>2. held.op \in Operation /\ disk[held.op] = "validating" /\ handoff = held
  BY <1>1 DEF Typed, TaskTypes, Handoff, Steady, HeldByController
<1>3. Untouched'
  BY <1>1, <1>2, UntouchedByOne DEF Early, Applying
<1>4. work.step = "idle"
  BY <1>1 DEF Steady, Owned
<1>5. Noted(work.step, work.op)' /\ Outcome
  BY <1>1, <1>4 DEF Noted, Outcome
<1>6. HandoffNoted' /\ GoneBack'
  BY <1>1 DEF Installed, HandoffNoted, InUndo, GoneBack
<1> QED
  BY <1>3, <1>5, <1>6 DEF Installed

LEMMA InstalledStep ==
    ASSUME FaultInUndo = FALSE, Typed, Steady, Steady', Installed, [Next]_vars
    PROVE  Installed' /\ Outcome
<1> USE DEF journalVars, releaseVars, backendVars, controllerVars
<1>n. ASSUME NEW release, NewBackend(release)
      PROVE  work'.step = "idle"
  BY <1>n DEF NewBackend, Idle
<1>1. ASSUME NEW o \in Operation, Submit(o)
      PROVE  Installed' /\ Outcome
  BY <1>1, InstalledSubmit
<1>2. CASE Work
  BY <1>2, InstalledEnter, InstalledWork
<1>3. ASSUME NEW o \in Operation, ForceOperation(o)
      PROVE  Installed' /\ Outcome
  BY <1>3, InstalledKept DEF ForceOperation, InUndo
<1>4. CASE UpdateRuntime
  <2>1. disk' = disk
    BY <1>4 DEF UpdateRuntime, Steady, Owned
  <2> QED
    BY <1>4, <2>1, InstalledKept DEF UpdateRuntime, InUndo
<1>5. CASE Load
  BY <1>5, InstalledLoad
<1>6. CASE BackendEnds \/ UserStart \/ UserRestart
  BY <1>6, <1>n, InstalledKept DEF BackendEnds, UserStart, UserRestart, Schedule, InUndo
<1>7. CASE Restart
  <2>1. UNCHANGED <<disk, active, ocr, found, handoff>> /\ work'.step = "idle"
    BY <1>7, <1>n DEF Restart
  <2>2. CASE task = "scheduled"
    <3>1. task' \in {"check", "undo_stop", "idle"}
      BY <1>7, <2>2 DEF Restart, ReadHandoff, Proceed
    <3> QED
      BY <2>1, <2>2, <3>1, InstalledKept DEF InUndo
  <2>3. CASE task = "restart"
    <3>1. task' \in {"recheck", "give_up"} /\ held' = held
      BY <1>7, <2>3 DEF Restart, Proceed
    <3> QED
      BY <2>1, <2>3, <3>1, InstalledKept DEF InUndo
  <2> QED
    BY <1>7, <2>2, <2>3 DEF Restart
<1>8. CASE Check \/ AdvanceEpoch \/ ClearHandoff
  <2>1. /\ UNCHANGED <<disk, active, ocr, found, held, work>> /\ handoff' \in {handoff, None}
        /\ task = "recheck" => task' \in {"undo", "give_up"}
        /\ task # "recheck" => task \in {"check", "epoch", "clear"}
                               /\ task' \in {"epoch", "undo_stop", "commit", "idle"}
    BY <1>8 DEF Check, AdvanceEpoch, ClearHandoff, TaskOnly, Proceed
  <2> QED
    BY <2>1, InstalledKept DEF InUndo
<1>9. CASE Decide
  BY <1>9, InstalledDecide
<1>10. CASE UndoStops
  BY <1>10, <1>n, InstalledKept DEF UndoStops, TaskOnly, Proceed, InUndo
<1>11. CASE Restore
  BY <1>11, InstalledRestore
<1>12. CASE Boot
  <2>1. UNCHANGED <<disk, active, ocr, found, handoff>> /\ work'.step = "idle"
    BY <1>12, <1>n DEF Boot
  <2>2. task = "boot" /\ task' \in {"check", "undo_stop", "idle"}
    BY <1>12 DEF Boot, ReadHandoff, Proceed
  <2> QED
    BY <2>1, <2>2, InstalledKept DEF InUndo
\* A fault does not fall into an undo.
<1>13. CASE PowerLoss
  <2>1. ~ InUndo /\ task' = "boot" /\ UNCHANGED <<active, ocr, found, handoff>>
    BY <1>13 DEF PowerLoss, Fault
  <2>2. disk' = disk
    BY <1>13, <2>1 DEF PowerLoss, InUndo
  <2>3. work'.step = "idle"
    BY <1>13, <1>n DEF PowerLoss
  <2> QED
    BY <2>1, <2>2, <2>3, InstalledKept
<1>14. CASE ControllerRaises
  <2>1. ~ InUndo /\ task' = "idle" /\ UNCHANGED <<disk, active, ocr, found, handoff>>
    BY <1>14 DEF ControllerRaises, Fault, Proceed
  <2>2. work' = work \/ work'.step = "idle"
    BY <1>14, <1>n DEF ControllerRaises
  <2> QED
    BY <2>1, <2>2, InstalledKept
<1>15. CASE UNCHANGED vars
  BY <1>15, InstalledKept DEF vars, InUndo
<1> QED
  BY <1>1, <1>2, <1>3, <1>4, <1>5, <1>6, <1>7, <1>8, <1>9, <1>10, <1>11, <1>12, <1>13, <1>14,
     <1>15 DEF Next, Controller

\* What the journal says an operation has come to is what is installed, as long as no
\* fault cuts the controller's undo short.
THEOREM OutcomesHold ==
    ASSUME FaultInUndo = FALSE
    PROVE  Spec => OutcomeIsInstalled
<1>1. Init => Installed
  BY DEF Init, Installed, Untouched, Early, Noted, Idle, HandoffNoted, GoneBack
<1>2. Typed /\ Steady /\ Steady' /\ Installed /\ [Next]_vars => Installed' /\ Outcome
  BY InstalledStep
<1>3. Outcome => [\A o \in Operation : disk'[o] # disk[o] =>
          /\ disk'[o] \in {"failed", "rolled_back"} =>
                 active = found[o][1] /\ (task # "undo" => ocr = found[o][2])
          /\ disk'[o] = "committed" =>
                 active = IF o \in Updates THEN o ELSE found[o][1]]_vars
  BY DEF Outcome, Result
<1> QED
  BY <1>1, <1>2, <1>3, TypedInit, TypedStep, SteadyInit, SteadyStep, PTL
     DEF Spec, OutcomeIsInstalled
=============================================================================
