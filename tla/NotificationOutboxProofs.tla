----------------------- MODULE NotificationOutboxProofs -----------------------
(***************************************************************************)
(* Theorems about NotificationOutbox, for any number of events,            *)
(* recipients, days and faults.                                            *)
(*                                                                         *)
(*   TypeCorrect            the type invariant                             *)
(*   WritesOnce             SentOnce: a budget of copies per recipient     *)
(*   NeverSleepsOnDelivery  SleepsOnNothing                                *)
(*   ReportsCoverHistory    HistoryReportedOnce, as long as nobody changes *)
(*                          the hour of the report                         *)
(***************************************************************************)
EXTENDS NotificationOutbox, WellFoundedInduction, TLAPS

(* ----------------------------- the last slot ---------------------------- *)

\* A set of slots that is not empty has a last one.
LEMMA LastSlot ==
    ASSUME NEW T \in SUBSET Slots, T # {}
    PROVE  \E m \in T : \A u \in T : u <= m
<1> DEFINE Left == {MaxSlot - t : t \in T}
<1>1. MaxSlot \in Nat /\ \A t \in T : t \in Nat /\ t <= MaxSlot
  BY OutboxAssumption DEF Slots
<1>2. Left \subseteq Nat /\ Left # {}
  BY <1>1
<1>3. PICK x \in Left : \A y \in Left : ~ (<<y, x>> \in OpToRel(<, Nat))
  <2> HIDE DEF Left
  <2> QED
    BY <1>2, NatLessThanWellFounded, WFMin
<1>4. PICK m \in T : x = MaxSlot - m
  BY <1>3
<1>5. ASSUME NEW u \in T
      PROVE  u <= m
  <2>1. MaxSlot - u \in Left
    OBVIOUS
  <2>2. ~ (<<MaxSlot - u, x>> \in OpToRel(<, Nat))
    BY <1>3, <2>1
  <2>3. MaxSlot - u \in Nat /\ x \in Nat
    BY <1>2, <1>3, <2>1
  <2>4. ~ (MaxSlot - u < x)
    BY <2>2, <2>3 DEF OpToRel
  <2> QED
    BY <1>1, <1>4, <2>3, <2>4
<1> QED
  BY <1>5

\* ... and a first one.
LEMMA FirstSlot ==
    ASSUME NEW T \in SUBSET Slots, T # {}
    PROVE  \E m \in T : \A u \in T : m <= u
<1>1. T \subseteq Nat
  BY DEF Slots
<1>2. PICK x \in T : \A y \in T : ~ (<<y, x>> \in OpToRel(<, Nat))
  BY <1>1, NatLessThanWellFounded, WFMin
<1>3. ASSUME NEW u \in T
      PROVE  x <= u
  <2>1. x \in Nat /\ u \in Nat
    BY <1>1
  <2>2. ~ (u < x)
    BY <1>2, <2>1 DEF OpToRel
  <2> QED
    BY <2>1, <2>2
<1> QED
  BY <1>3

\* A report begins at the end of the last one sent before it, or a day before its own.
LEMMA StartIsLast ==
    ASSUME NEW s \in Slots, {t \in Slotted({"sent"}) : t < s} # {}
    PROVE  /\ StartOf(s) \in Slotted({"sent"}) /\ StartOf(s) < s
           /\ \A t \in Slotted({"sent"}) : t < s => t <= StartOf(s)
<1> DEFINE earlier == {t \in Slotted({"sent"}) : t < s}
<1>1. earlier \in SUBSET Slots
  BY DEF Slotted
<1>2. \E m \in earlier : \A u \in earlier : u <= m
  BY <1>1, LastSlot
<1>3. /\ StartOf(s) \in earlier
      /\ \A u \in earlier : u <= StartOf(s)
  BY <1>2 DEF StartOf
<1> QED
  BY <1>3

LEMMA StartIsNat == \A s \in Slots : StartOf(s) \in Nat
<1> SUFFICES ASSUME NEW s \in Slots
             PROVE  StartOf(s) \in Nat
  OBVIOUS
<1>1. CASE {t \in Slotted({"sent"}) : t < s} = {}
  BY <1>1 DEF StartOf, Slots
<1>2. CASE {t \in Slotted({"sent"}) : t < s} # {}
  BY <1>2, StartIsLast DEF Slotted, Slots
<1> QED
  BY <1>1, <1>2

(* ----------------------- types, and what is in hand --------------------- *)

InHand == {"send", "fallback", "complete"}

\* What the thread has taken is as it was taken: nobody else touches it, and an
\* intent has no delivery before it is done.
Handled ==
    /\ step = "materialize" => \A e \in batch : intent[e] = "pending"
    /\ step \in InHand \union {"claim"} => \A e \in batch : delivery[e] = "pending"
    /\ step \in InHand => item \in Events /\ delivery[item] = "sending"
    /\ step \in {"report", "finalize"} => item \in Slots /\ report[item].status = "sending"
    /\ step = "complete" => outcome \in {"sent", "fallback", "error"}
    /\ step = "finalize" => outcome \in {"sent", "pending"}
    /\ \A e \in Events : intent[e] # "done" => delivery[e] = "none"

Course == TypeOK /\ Handled

LEMMA CourseInit == Init => Course
<1> SUFFICES ASSUME Init
             PROVE  Course
  OBVIOUS
<1>1. MaxSlot \in Nat \ {0} /\ MaxFaults \in Nat
  BY OutboxAssumption
<1>2. TypeOK
  <2>1. /\ intent \in [Events -> {"none", "pending", "done"}]
        /\ delivery \in [Events -> {"none", "pending", "sending"} \union Final]
        /\ copies \in [Events -> [Recipients -> Nat]]
    BY DEF Init
  <2>2. /\ due \in 0 .. MaxSlot /\ faults \in 0 .. MaxFaults
        /\ report \in [Slots -> [status : {"none", "pending", "sending", "sent"}, start : Nat]]
    BY <1>1 DEF Init
  <2> QED
    BY <2>1, <2>2 DEF Init, TypeOK
<1>3. Handled
  BY DEF Init, Handled, InHand
<1> QED
  BY <1>2, <1>3 DEF Course

LEMMA FaultsBounded ==
    ASSUME TypeOK, Fault \/ faults' = faults
    PROVE  faults' \in 0 .. MaxFaults
<1>1. MaxFaults \in Nat
  BY OutboxAssumption
<1> QED
  BY <1>1 DEF TypeOK, Fault

LEMMA CourseStep == Course /\ [Next]_vars => Course'
<1> SUFFICES ASSUME Course, [Next]_vars
             PROVE  Course'
  OBVIOUS
<1> USE DEF Course, TypeOK, Handled, InHand, Final, rowVars, threadVars, Goes
<1>0. MaxSlot \in Nat \ {0} /\ MaxFaults \in Nat /\ None \notin Events \union Slots
  BY OutboxAssumption
<1>1. ASSUME NEW e \in Events, Emit(e)
      PROVE  Course'
  BY <1>1 DEF Emit
<1>2. ASSUME NEW e \in Events, Wake(e)
      PROVE  Course'
  BY <1>2 DEF Wake
<1>3. CASE SlotPasses
  BY <1>0, <1>3 DEF SlotPasses, Slots
<1>4. CASE Stop
  BY <1>4 DEF Stop, Ends
<1>5. CASE Crash
  <2>1. faults' \in 0 .. MaxFaults
    BY <1>5, FaultsBounded DEF Crash
  <2>2. /\ woken' \in BOOLEAN /\ batch' \subseteq Events
        /\ waking' \subseteq Events /\ targets' \subseteq Recipients
    BY <1>5 DEF Crash, Ends
  <2>3. TypeOK'
    BY <1>5, <2>1, <2>2 DEF Crash, Ends
  <2>4. Handled'
    BY <1>5 DEF Crash, Ends
  <2> QED
    BY <2>3, <2>4
<1>6. CASE Start
  BY <1>6 DEF Start
<1>7. CASE ClaimReport
  <2> USE <1>0 DEF ReportOnly
  <2>1. ASSUME NEW s \in Slots, NEW start \in Nat, Claimed(s, start), ReportOnly,
               UNCHANGED <<outcome, faults>>, step = "daily"
        PROVE  Course'
    BY <2>1 DEF Claimed
  <2>2. CASE UNCHANGED <<report, item>> /\ Goes("intents")
    BY <1>7, <2>2 DEF ClaimReport
  <2> DEFINE outstanding == Slotted({"pending", "sending"})
             first == Least(outstanding)
  <2>3. CASE report[first].status = "pending" /\ outstanding # {}
             /\ Claimed(first, report[first].start)
    <3>1. outstanding \in SUBSET Slots
      BY DEF Slotted
    <3>2. first \in Slots
      BY <3>1, <2>3, FirstSlot DEF Least
    <3> QED
      BY <1>7, <2>1, <2>3, <3>2 DEF ClaimReport
  <2>4. CASE due # 0 /\ Claimed(due, StartOf(due))
    <3>1. due \in Slots
      BY <2>4 DEF Slots
    <3> QED
      BY <1>7, <2>1, <2>4, <3>1, StartIsNat DEF ClaimReport
  <2> QED
    BY <1>7, <2>2, <2>3, <2>4 DEF ClaimReport
<1>8. CASE SendReport
  BY <1>8 DEF SendReport, ReportOnly
<1>9. CASE Finalize
  <2>1. faults' \in 0 .. MaxFaults
    BY <1>9, FaultsBounded DEF Finalize
  <2>2. report' \in [Slots -> [status : {"none", "pending", "sending", "sent"}, start : Nat]]
    BY <1>9 DEF Finalize
  <2> QED
    BY <1>9, <2>1, <2>2 DEF Finalize, ReportOnly
<1>10. CASE TakeIntents
  BY <1>10 DEF TakeIntents, Batch, Pending
<1>11. CASE Materialize
  <2> PICK e \in batch :
          /\ batch' = batch \ {e}
          /\ \/ /\ intent' = [intent EXCEPT ![e] = "done"]
                /\ \E status \in {"pending", "skipped"} :
                      delivery' = [delivery EXCEPT ![e] = status]
                /\ woken' = TRUE /\ faults' = faults
             \/ Fault /\ UNCHANGED <<intent, delivery, woken>>
    BY <1>11 DEF Materialize
  <2>1. /\ faults' \in 0 .. MaxFaults
        /\ woken' \in BOOLEAN
        /\ intent' \in {intent, [intent EXCEPT ![e] = "done"]}
    <3>1. faults' \in 0 .. MaxFaults
      BY FaultsBounded
    <3>2. woken' \in BOOLEAN
      OBVIOUS
    <3>3. intent' \in {intent, [intent EXCEPT ![e] = "done"]}
      OBVIOUS
    <3> QED
      BY <3>1, <3>2, <3>3
  <2>2. delivery' \in [Events -> {"none", "pending", "sending"} \union Final]
    OBVIOUS
  <2>3. TypeOK'
    BY <1>11, <2>1, <2>2 DEF Materialize
  <2>4. Handled'
    BY <1>11, <2>1 DEF Materialize
  <2> QED
    BY <2>3, <2>4
<1>12. CASE TakeDeliveries
  BY <1>12 DEF TakeDeliveries, Batch, Pending
<1>13. CASE Claim
  BY <1>0, <1>13 DEF Claim, DeliveryOnly, Fault
<1>14. CASE Send
  BY <1>0, <1>14 DEF Send, DeliveryOnly, Fault, Reaches
<1>15. CASE Fallback
  BY <1>15 DEF Fallback, DeliveryOnly, Reaches
<1>16. CASE Complete
  <2>1. faults' \in 0 .. MaxFaults
    BY <1>16, FaultsBounded DEF Complete
  <2>2. delivery' \in [Events -> {"none", "pending", "sending"} \union Final]
    BY <1>16 DEF Complete
  <2> QED
    BY <1>16, <2>1, <2>2 DEF Complete, DeliveryOnly
<1>17. CASE Capture \/ Deadline \/ Enter \/ Rise
  BY <1>17 DEF Capture, Deadline, Enter, Rise, SleepOnly
<1>18. CASE UNCHANGED vars
  BY <1>18 DEF vars
<1> QED
  BY <1>1, <1>2, <1>3, <1>4, <1>5, <1>6, <1>7, <1>8, <1>9, <1>10, <1>11, <1>12, <1>13,
     <1>14, <1>15, <1>16, <1>17, <1>18 DEF Next, Worker

\* The thread and its rows keep to their types and to each other.
THEOREM TypeCorrect == Spec => []TypeOK
<1>1. Course => TypeOK
  BY DEF Course
<1> QED
  BY <1>1, CourseInit, CourseStep, PTL DEF Spec

(* ------------------------------- one copy ------------------------------- *)

\* A recipient who may yet be written to about an event.
Unsent(e, r) ==
    \/ delivery[e] \in {"none", "pending"}
    \/ /\ delivery[e] = "sending"
       /\ (step \in InHand /\ item = e)
              => step = "send" \/ (step = "fallback" /\ r \in targets)

\* Copies are paid for by faults, and whoever may yet get one has had one fewer.
Budget ==
    \A e \in Events, r \in Recipients :
        /\ copies[e][r] <= 1 + faults
        /\ Unsent(e, r) => copies[e][r] <= faults

\* A step that writes no mail keeps the budget if it makes nobody a candidate whom
\* a fault does not pay for.
LEMMA BudgetKept ==
    ASSUME Course, Course', Budget, copies' = copies, faults' \in {faults, faults + 1},
           \A e \in Events, r \in Recipients :
               Unsent(e, r)' => Unsent(e, r) \/ faults' = faults + 1
    PROVE  Budget'
<1> SUFFICES ASSUME NEW e \in Events, NEW r \in Recipients
             PROVE  /\ copies'[e][r] <= 1 + faults'
                    /\ Unsent(e, r)' => copies'[e][r] <= faults'
  BY DEF Budget
<1>1. copies[e][r] \in Nat /\ faults \in Nat /\ faults' \in Nat
  BY DEF Course, TypeOK
<1>2. copies[e][r] <= 1 + faults /\ (Unsent(e, r) => copies[e][r] <= faults)
  BY DEF Budget
<1>3. Unsent(e, r)' => Unsent(e, r) \/ faults' = faults + 1
  OBVIOUS
<1> HIDE DEF Unsent
<1> QED
  BY <1>1, <1>2, <1>3

LEMMA BudgetOfMail ==
    ASSUME Course, Course', Budget, Send \/ Fallback
    PROVE  Budget'
<1> SUFFICES ASSUME NEW e \in Events, NEW r \in Recipients
             PROVE  /\ copies'[e][r] <= 1 + faults'
                    /\ Unsent(e, r)' => copies'[e][r] <= faults'
  BY DEF Budget
<1>1. copies[e][r] \in Nat /\ faults \in Nat
  BY DEF Course, TypeOK
<1>2. copies[e][r] <= 1 + faults /\ (Unsent(e, r) => copies[e][r] <= faults)
  BY DEF Budget
<1>3. item \in Events /\ delivery[item] = "sending" /\ delivery' = delivery /\ item' = item
  BY DEF Course, Handled, InHand, Send, Fallback, DeliveryOnly
<1>4. CASE e # item
  <2>1. copies'[e][r] = copies[e][r]
    <3>1. \E received : Reaches(received)
      BY DEF Send, Fallback
    <3> QED
      BY <1>3, <1>4, <3>1 DEF Reaches, Course, TypeOK
  <2>2. faults' \in {faults, faults + 1} /\ step' \in InHand /\ step \in InHand
    BY DEF Send, Fallback, Fault, Goes, InHand
  <2>3. Unsent(e, r)' => Unsent(e, r)
    BY <1>3, <1>4 DEF Unsent
  <2> QED
    BY <1>1, <1>2, <2>1, <2>2, <2>3
<1>5. CASE e = item /\ Send
  <2> PICK received \in SUBSET Recipients :
          /\ Reaches(received)
          /\ \/ step' = "complete" /\ faults' = faults
             \/ targets' = Recipients \ received /\ step' = "fallback" /\ faults' = faults
             \/ faults' = faults + 1 /\ step' = "fallback"
    BY <1>5 DEF Send, Goes, Fault
  <2>1. copies'[e][r] = copies[e][r] + (IF r \in received THEN 1 ELSE 0)
    BY <1>3, <1>5 DEF Reaches, Course, TypeOK
  <2>2. copies[e][r] <= faults
    BY <1>2, <1>3, <1>5 DEF Unsent, Send
  <2>3. CASE step' = "complete" /\ faults' = faults
    <3>1. ~ Unsent(e, r)'
      BY <1>3, <1>5, <2>3 DEF Unsent, InHand
    <3> QED
      BY <1>1, <2>1, <2>2, <2>3, <3>1
  <2>4. CASE targets' = Recipients \ received /\ step' = "fallback" /\ faults' = faults
    <3>1. Unsent(e, r)' => r \notin received
      BY <1>3, <1>5, <2>4 DEF Unsent, InHand
    <3> QED
      BY <1>1, <2>1, <2>2, <2>4, <3>1
  <2>5. CASE faults' = faults + 1
    BY <1>1, <2>1, <2>2, <2>5
  <2> QED
    BY <2>3, <2>4, <2>5
<1>6. CASE e = item /\ Fallback
  <2> PICK received \in SUBSET targets : Reaches(received)
    BY <1>6 DEF Fallback
  <2>1. copies'[e][r] = copies[e][r] + (IF r \in received THEN 1 ELSE 0)
    BY <1>3, <1>6 DEF Reaches, Course, TypeOK
  <2>2. r \in received => copies[e][r] <= faults
    BY <1>2, <1>3, <1>6 DEF Unsent, Fallback
  <2>3. ~ Unsent(e, r)' /\ faults' = faults
    BY <1>3, <1>6 DEF Unsent, InHand, Fallback, Goes
  <2> QED
    BY <1>1, <1>2, <2>1, <2>2, <2>3
<1> QED
  BY <1>4, <1>5, <1>6

LEMMA BudgetStep == Course /\ Budget /\ Course' /\ [Next]_vars => Budget'
<1> SUFFICES ASSUME Course, Budget, Course', [Next]_vars
             PROVE  Budget'
  OBVIOUS
<1> USE DEF Unsent, InHand, Goes, rowVars, threadVars
<1>0. faults \in Nat
  BY DEF Course, TypeOK
<1>1. ASSUME NEW e \in Events, Emit(e) \/ Wake(e)
      PROVE  Budget'
  BY <1>1, BudgetKept DEF Emit, Wake
<1>2. CASE SlotPasses \/ Stop
  BY <1>2, BudgetKept DEF SlotPasses, Stop, Ends
<1>3. CASE Crash
  BY <1>3, BudgetKept DEF Crash, Ends, Fault
<1>4. CASE Start
  <2>1. ASSUME NEW e \in Events, NEW r \in Recipients, Unsent(e, r)'
        PROVE  Unsent(e, r)
    BY <1>4, <2>1 DEF Start, Course, TypeOK
  <2> QED
    BY <1>4, <2>1, BudgetKept DEF Start
<1>5. CASE ClaimReport
  BY <1>5, BudgetKept DEF ClaimReport, Claimed, ReportOnly
<1>6. CASE SendReport \/ Finalize
  BY <1>6, BudgetKept DEF SendReport, Finalize, ReportOnly, Fault
<1>7. CASE TakeIntents \/ TakeDeliveries
  BY <1>7, BudgetKept DEF TakeIntents, TakeDeliveries
<1>8. CASE Materialize
  <2>1. faults' \in {faults, faults + 1} /\ step' = step /\ copies' = copies
        /\ step = "materialize"
    BY <1>8 DEF Materialize, Fault
  <2>2. ASSUME NEW e \in Events, NEW r \in Recipients, Unsent(e, r)'
        PROVE  Unsent(e, r)
    BY <1>8, <2>1, <2>2 DEF Materialize, Course, TypeOK, Handled
  <2> QED
    BY <2>1, <2>2, BudgetKept
<1>9. CASE Claim
  <2>1. faults' \in {faults, faults + 1} /\ step = "claim" /\ copies' = copies
    BY <1>9 DEF Claim, Fault
  <2>2. ASSUME NEW e \in Events, NEW r \in Recipients, Unsent(e, r)'
        PROVE  Unsent(e, r)
    BY <1>9, <2>1, <2>2 DEF Claim, Course, TypeOK, Handled
  <2> QED
    BY <2>1, <2>2, BudgetKept
<1>10. CASE Send \/ Fallback
  BY <1>10, BudgetOfMail
<1>11. CASE Complete
  <2>1. faults' \in {faults, faults + 1} /\ step = "complete" /\ copies' = copies
    BY <1>11 DEF Complete, Fault, DeliveryOnly
  <2>2. ASSUME NEW e \in Events, NEW r \in Recipients, Unsent(e, r)'
        PROVE  Unsent(e, r) \/ faults' = faults + 1
    <3>1. CASE faults' = faults + 1
      BY <3>1
    <3>2. CASE delivery' = [delivery EXCEPT ![item] = outcome] /\ step' = "claim"
      <4>1. item \in Events /\ outcome \in {"sent", "fallback", "error"}
        BY <2>1 DEF Course, Handled
      <4>2. e # item
        BY <2>2, <3>2, <4>1 DEF Course, TypeOK
      <4> QED
        BY <2>1, <2>2, <3>2, <4>1, <4>2
    <3> QED
      BY <1>11, <3>1, <3>2 DEF Complete, Fault
  <2> QED
    BY <2>1, <2>2, BudgetKept
<1>12. CASE Capture \/ Deadline \/ Enter \/ Rise
  BY <1>12, BudgetKept DEF Capture, Deadline, Enter, Rise, SleepOnly
<1>13. CASE UNCHANGED vars
  BY <1>13, BudgetKept DEF vars
<1> QED
  BY <1>1, <1>2, <1>3, <1>4, <1>5, <1>6, <1>7, <1>8, <1>9, <1>10, <1>11, <1>12, <1>13
     DEF Next, Worker

\* Nobody is written to twice about one event without a fault in between: the second
\* channel takes only whom the first refused, and no outcome is claimed again.
THEOREM WritesOnce == Spec => []SentOnce
<1>1. Init => Budget
  BY OutboxAssumption DEF Init, Budget
<1>2. Budget => SentOnce
  BY DEF Budget, SentOnce
<1> QED
  BY <1>1, <1>2, CourseInit, CourseStep, BudgetStep, PTL DEF Spec

(* ------------------------------- sleeping ------------------------------- *)

\* Between a look at what is pending that had an answer, and the sleep, nothing becomes
\* pending without waking the worker.
Unmissed ==
    /\ step = "enter" /\ ~ woken /\ deadline = "none" => Pending(delivery) = {}
    /\ step = "wait" /\ ~ woken /\ deadline # "unknown" => Pending(delivery) = {}

LEMMA UnmissedStep == Course /\ Unmissed /\ [Next]_vars => Unmissed'
<1> SUFFICES ASSUME Course, Unmissed, [Next]_vars
             PROVE  Unmissed'
  OBVIOUS
<1> USE DEF Unmissed, Pending, Goes, rowVars, threadVars
<1>1. ASSUME NEW e \in Events, Emit(e) \/ Wake(e)
      PROVE  Unmissed'
  BY <1>1 DEF Emit, Wake
<1>2. CASE SlotPasses \/ Stop \/ Crash \/ Start
  BY <1>2 DEF SlotPasses, Stop, Crash, Ends, Start
<1>3. CASE ClaimReport \/ SendReport \/ Finalize
  BY <1>3 DEF ClaimReport, Claimed, SendReport, Finalize
<1>4. CASE TakeIntents \/ Materialize \/ TakeDeliveries
  BY <1>4 DEF TakeIntents, Materialize, TakeDeliveries
<1>5. CASE Claim \/ Send \/ Fallback \/ Complete
  BY <1>5 DEF Claim, Send, Fallback, Complete
<1>6. CASE Capture
  BY <1>6 DEF Capture
<1>7. CASE Deadline
  <2>1. deadline' = "none" => Pending(delivery) = {}
    BY <1>7 DEF Deadline
  <2> QED
    BY <1>7, <2>1 DEF Deadline, SleepOnly
<1>8. CASE Enter
  <2>1. deadline \in {"none", "now", "unknown"}
    BY DEF Course, TypeOK
  <2>2. CASE step' = "daily"
    BY <2>2
  <2>3. CASE step' = "wait"
    <3>1. UNCHANGED <<delivery, woken, deadline>> /\ ~ woken /\ deadline # "now" /\ step = "enter"
      BY <1>8, <2>3 DEF Enter, SleepOnly
    <3> QED
      BY <2>1, <2>3, <3>1
  <2> QED
    BY <1>8, <2>2, <2>3 DEF Enter
<1>9. CASE Rise
  BY <1>9 DEF Rise
<1>10. CASE UNCHANGED vars
  BY <1>10 DEF vars
<1> QED
  BY <1>1, <1>2, <1>3, <1>4, <1>5, <1>6, <1>7, <1>8, <1>9, <1>10 DEF Next, Worker

\* The worker does not sleep on a delivery it could send, unless _worker_delay_seconds could
\* not ask the store for one: its "except Exception: due_at = None" is a step of the model, which
\* may be taken in every round.
THEOREM NeverSleepsOnDelivery == Spec => []SleepsOnNothing
<1>1. Init => Unmissed
  BY DEF Init, Unmissed
<1>2. Unmissed => SleepsOnNothing
  BY DEF Unmissed, SleepsOnNothing
<1> QED
  BY <1>1, <1>2, CourseInit, CourseStep, UnmissedStep, PTL DEF Spec

(* ------------------------------ the history ----------------------------- *)

\* One report is outstanding at most, none is later than the slot that is due, and
\* the outstanding one is later than all that were sent; a report that was claimed
\* begins where the last one sent before it ended.
History ==
    /\ \A s, t \in Slotted({"pending", "sending"}) : s = t
    /\ \A s \in Slots : report[s].status # "none" => s <= due
    /\ \A s \in Slotted({"pending", "sending"}), t \in Slotted({"sent"}) : t < s
    /\ \A s \in Slotted({"pending", "sending", "sent"}), t \in Slotted({"sent"}) :
          t < s => /\ report[s].start \in Slotted({"sent"}) /\ report[s].start < s
                   /\ t <= report[s].start

\* A step that only moves a report between pending and sending, or lets time pass.
LEMMA HistoryKept ==
    ASSUME Course, Course', History, due <= due',
           \A s \in Slots :
              /\ report'[s].start = report[s].start
              /\ \/ report'[s].status = report[s].status
                 \/ {report[s].status, report'[s].status} \subseteq {"pending", "sending"}
    PROVE  History'
<1>1. /\ Slotted({"pending", "sending"})' = Slotted({"pending", "sending"})
      /\ Slotted({"sent"})' = Slotted({"sent"})
      /\ Slotted({"pending", "sending", "sent"})' = Slotted({"pending", "sending", "sent"})
  BY DEF Slotted
<1>2. ASSUME NEW s \in Slots, report'[s].status # "none"
      PROVE  s <= due'
  <2>1. s \in Nat /\ due \in Nat /\ due' \in Nat
    BY DEF Course, TypeOK, Slots
  <2>2. report[s].status # "none"
    BY <1>2
  <2> QED
    BY <2>1, <2>2 DEF History
<1>3. ASSUME NEW s \in Slotted({"pending", "sending", "sent"})
      PROVE  report'[s].start = report[s].start
  BY DEF Slotted
<1> QED
  BY <1>1, <1>2, <1>3 DEF History

\* The slot that is due is claimed, when nothing is outstanding.
LEMMA HistoryOfClaim ==
    ASSUME Course, Course', History, Slotted({"pending", "sending"}) = {},
           due # 0, report[due].status = "none",
           due' = due, Claimed(due, StartOf(due))
    PROVE  History'
<1>1. due \in Slots /\ due \in Nat
  BY DEF Course, TypeOK, Slots
<1>2. report' = [report EXCEPT ![due] = [status |-> "sending", start |-> StartOf(due)]]
  BY DEF Claimed
<1>3. /\ Slotted({"sent"})' = Slotted({"sent"})
      /\ Slotted({"pending", "sending"})' = {due}
      /\ Slotted({"pending", "sending", "sent"})' = Slotted({"sent"}) \union {due}
  BY <1>1, <1>2 DEF Slotted, Course, TypeOK
<1>4. ASSUME NEW t \in Slotted({"sent"})
      PROVE  t < due
  <2>1. t \in Slots /\ t \in Nat /\ t <= due
    BY DEF Slotted, History, Slots
  <2>2. t # due
    BY DEF Slotted
  <2> QED
    BY <1>1, <2>1, <2>2
<1>5. ASSUME NEW s \in Slots, report'[s].status # "none"
      PROVE  s <= due'
  BY <1>1, <1>2, <1>5 DEF History
<1>6. ASSUME NEW s \in Slotted({"sent"}) \union {due}, NEW t \in Slotted({"sent"}), t < s
      PROVE  /\ report'[s].start \in Slotted({"sent"}) /\ report'[s].start < s
             /\ t <= report'[s].start
  <2>1. CASE s = due
    <3>1. {u \in Slotted({"sent"}) : u < due} # {}
      BY <1>6, <2>1
    <3>2. report'[due].start = StartOf(due)
      BY <1>1, <1>2 DEF Course, TypeOK
    <3> QED
      BY <1>1, <1>6, <2>1, <3>1, <3>2, StartIsLast
  <2>2. CASE s \in Slotted({"sent"})
    <3>1. s # due /\ s \in Slotted({"pending", "sending", "sent"})
      BY <2>2 DEF Slotted
    <3>2. report'[s] = report[s]
      BY <1>2, <3>1 DEF Course, TypeOK, Slotted
    <3> QED
      BY <1>6, <3>1, <3>2 DEF History
  <2> QED
    BY <1>6, <2>1, <2>2
<1> QED
  BY <1>3, <1>4, <1>5, <1>6 DEF History

\* The outstanding report, which is the last of all, has been sent.
LEMMA HistoryOfSending ==
    ASSUME Course, Course', History, NEW i \in Slots, report[i].status = "sending",
           report' = [report EXCEPT ![i].status = "sent"], due' = due
    PROVE  History'
<1>1. /\ Slotted({"sent"})' = Slotted({"sent"}) \union {i}
      /\ Slotted({"pending", "sending"})' = Slotted({"pending", "sending"}) \ {i}
      /\ Slotted({"pending", "sending", "sent"})' = Slotted({"pending", "sending", "sent"})
      /\ i \in Slotted({"pending", "sending"})
  BY DEF Slotted, Course, TypeOK
<1>2. Slotted({"pending", "sending"})' = {}
  BY <1>1 DEF History
<1>3. \A s \in Slots : /\ report'[s].start = report[s].start
                       /\ report'[s].status # "none" => report[s].status # "none"
  BY DEF Course, TypeOK
<1>4. ASSUME NEW s \in Slotted({"pending", "sending", "sent"}),
             NEW t \in Slotted({"sent"}) \union {i}, t < s
      PROVE  /\ report'[s].start \in Slotted({"sent"}) /\ report'[s].start < s
             /\ t <= report'[s].start
  <2>1. s \in Slots /\ s \in Nat /\ i \in Nat /\ t \in Nat
    BY DEF Slotted, Slots
  <2>2. t # i
    <3>1. s = i \/ s \in Slotted({"sent"})
      BY <1>1 DEF Slotted, History
    <3>2. s <= i
      BY <1>1, <2>1, <3>1 DEF History
    <3> QED
      BY <1>4, <2>1, <3>2
  <2>3. report'[s].start = report[s].start
    BY <1>3, <2>1
  <2> QED
    BY <1>4, <2>2, <2>3 DEF History
<1> QED
  BY <1>1, <1>2, <1>3, <1>4 DEF History

LEMMA HistoryStep ==
    ASSUME Reschedules = FALSE, Course, Course', History, [Next]_vars
    PROVE  History'
<1> USE DEF rowVars
<1>0. \A n \in {due, due'} : n \in Nat /\ n <= n
  BY DEF Course, TypeOK
<1>1. ASSUME NEW e \in Events, Emit(e) \/ Wake(e)
      PROVE  History'
  BY <1>0, <1>1, HistoryKept DEF Emit, Wake
<1>2. CASE SlotPasses
  <2>1. due <= due' /\ report' = report
    BY <1>0, <1>2 DEF SlotPasses, Slots
  <2> QED
    BY <2>1, HistoryKept
<1>3. CASE Stop \/ Crash
  BY <1>0, <1>3, HistoryKept DEF Stop, Crash
<1>4. CASE Start
  <2>1. due' = due
    BY <1>4 DEF Start
  <2>2. ASSUME NEW s \in Slots
        PROVE  /\ report'[s].start = report[s].start
               /\ \/ report'[s].status = report[s].status
                  \/ {report[s].status, report'[s].status} \subseteq {"pending", "sending"}
    BY <1>4 DEF Start, Course, TypeOK
  <2> QED
    BY <1>0, <2>1, <2>2, HistoryKept
<1>5. CASE ClaimReport
  <2> DEFINE outstanding == Slotted({"pending", "sending"})
             first == Least(outstanding)
  <2>0. due' = due /\ due \in Nat
    BY <1>0, <1>5 DEF ClaimReport, ReportOnly
  <2>1. CASE /\ outstanding # {} /\ report[first].status = "pending"
             /\ Claimed(first, report[first].start)
    <3>1. outstanding \in SUBSET Slots
      BY DEF Slotted
    <3>2. first \in Slots
      BY <2>1, <3>1, FirstSlot DEF Least
    <3> HIDE DEF first
    <3>3. report' = [report EXCEPT ![first] = [status |-> "sending",
                                               start |-> report[first].start]]
      BY <2>1 DEF Claimed
    <3>4. ASSUME NEW s \in Slots
          PROVE  /\ report'[s].start = report[s].start
                 /\ \/ report'[s].status = report[s].status
                    \/ {report[s].status, report'[s].status} \subseteq {"pending", "sending"}
      BY <2>1, <3>2, <3>3 DEF Course, TypeOK
    <3> QED
      BY <2>0, <3>4, HistoryKept
  <2>2. CASE /\ outstanding = {} /\ due # 0 /\ report[due].status = "none"
             /\ Claimed(due, StartOf(due))
    BY <2>0, <2>2, HistoryOfClaim
  <2>3. CASE report' = report
    BY <1>0, <2>0, <2>3, HistoryKept
  <2> QED
    BY <1>5, <2>1, <2>2, <2>3 DEF ClaimReport
<1>6. CASE Finalize
  <2>1. /\ item \in Slots /\ report[item].status = "sending"
        /\ outcome \in {"sent", "pending"}
    BY <1>6 DEF Finalize, Course, Handled
  <2>2. due' = due
    BY <1>6 DEF Finalize, ReportOnly
  <2>3. CASE report' = [report EXCEPT ![item].status = "sent"]
    BY <2>1, <2>2, <2>3, HistoryOfSending
  <2>4. CASE report' \in {report, [report EXCEPT ![item].status = "pending"]}
    <3>1. ASSUME NEW s \in Slots
          PROVE  /\ report'[s].start = report[s].start
                 /\ \/ report'[s].status = report[s].status
                    \/ {report[s].status, report'[s].status} \subseteq {"pending", "sending"}
      BY <2>1, <2>4 DEF Course, TypeOK
    <3> QED
      BY <1>0, <2>2, <3>1, HistoryKept
  <2> QED
    BY <1>6, <2>1, <2>3, <2>4 DEF Finalize
<1>7. CASE SendReport \/ TakeIntents \/ Materialize \/ TakeDeliveries
  BY <1>0, <1>7, HistoryKept DEF SendReport, ReportOnly, TakeIntents, Materialize, TakeDeliveries
<1>8. CASE Claim \/ Send \/ Fallback \/ Complete
  BY <1>0, <1>8, HistoryKept DEF Claim, Send, Fallback, Complete, DeliveryOnly
<1>9. CASE Capture \/ Deadline \/ Enter \/ Rise
  BY <1>0, <1>9, HistoryKept DEF Capture, Deadline, Enter, Rise, SleepOnly
<1>10. CASE UNCHANGED vars
  BY <1>0, <1>10, HistoryKept DEF vars
<1> QED
  BY <1>1, <1>2, <1>3, <1>4, <1>5, <1>6, <1>7, <1>8, <1>9, <1>10 DEF Next, Worker

\* Reports that were sent cover the history without gap or overlap, whatever failed in
\* between, while the hour of the report stays what it was.
THEOREM ReportsCoverHistory ==
    ASSUME Reschedules = FALSE
    PROVE  Spec => []HistoryReportedOnce
<1>1. Init => History
  BY DEF Init, History, Slotted
<1>2. History => HistoryReportedOnce
  BY DEF History, HistoryReportedOnce, Slotted
<1>3. Course /\ Course' /\ History /\ [Next]_vars => History'
  BY HistoryStep
<1> QED
  BY <1>1, <1>2, <1>3, CourseInit, CourseStep, PTL DEF Spec
=============================================================================
