-------------------------- MODULE NotificationOutbox --------------------------
(***************************************************************************)
(* Mail about incidents, and the daily report of changes.  Whoever records *)
(* an event writes an intent in the same transaction and wakes the worker. *)
(* The worker of the backend turns intents into deliveries, claims each,   *)
(* sends it, records what came of it, and sleeps until it is woken or a    *)
(* deadline passes.  What a crash leaves "sending" is released when a      *)
(* worker starts, if it is old enough by then.                             *)
(*                                                                         *)
(* Times are abstract: slots of the daily report are numbered, and any     *)
(* claim may be old enough when a worker starts.                           *)
(***************************************************************************)
EXTENDS Naturals, FiniteSets

CONSTANTS
    Events, Recipients, None,
    BatchLimit,    \* WORKER_BATCH_LIMIT
    MaxSlot,       \* model bound: days
    Reschedules,   \* the hour of the report may be changed
    MaxFaults      \* model bound: crashes, failed writes, broken transports

Slots == 1 .. MaxSlot

ASSUME OutboxAssumption ==
    /\ IsFiniteSet(Events) /\ IsFiniteSet(Recipients) /\ None \notin Events \union Slots
    /\ Events \intersect Slots = {}
    /\ {BatchLimit, MaxSlot} \subseteq Nat \ {0} /\ MaxFaults \in Nat
    /\ Reschedules \in BOOLEAN

VARIABLES
    intent, delivery,  \* per event: its row of the outbox, and of the deliveries
    due, report,       \* the latest slot that has passed; the reports, by slot
    waking,            \* events whose recorder has committed and has yet to wake
    woken,             \* the generation has changed since the worker captured it
    step, batch, item, targets, outcome,    \* the worker's thread
    deadline,          \* what it knows of the next delivery, before it sleeps
    copies,            \* history: mails per event and recipient
    faults

rowVars == <<intent, delivery, due, report>>
threadVars == <<batch, item, targets, outcome, deadline>>
vars == <<rowVars, waking, woken, step, threadVars, copies, faults>>

Final == {"sent", "fallback", "error", "skipped"}
Pending(rows) == {e \in Events : rows[e] = "pending"}

TypeOK ==
    /\ intent \in [Events -> {"none", "pending", "done"}]
    /\ delivery \in [Events -> {"none", "pending", "sending"} \union Final]
    /\ due \in 0 .. MaxSlot
    /\ report \in [Slots -> [status : {"none", "pending", "sending", "sent"}, start : Nat]]
    /\ waking \subseteq Events /\ batch \subseteq Events
    /\ step \in {"down", "daily", "report", "finalize", "intents", "materialize", "deliveries",
                 "claim", "send", "fallback", "complete", "capture", "deadline", "enter", "wait"}
    /\ item \in Events \union Slots \union {None} /\ targets \subseteq Recipients
    /\ outcome \in Final \union {"pending", "none"}
    /\ woken \in BOOLEAN /\ deadline \in {"none", "now", "unknown"}
    /\ copies \in [Events -> [Recipients -> Nat]] /\ faults \in 0 .. MaxFaults

Init ==
    /\ intent = [e \in Events |-> "none"] /\ delivery = intent
    /\ due = 0 /\ report = [s \in Slots |-> [status |-> "none", start |-> 0]]
    /\ waking = {} /\ woken = FALSE
    /\ step = "daily" /\ batch = {} /\ item = None /\ targets = {} /\ outcome = "none"
    /\ deadline = "none"
    /\ copies = [e \in Events |-> [r \in Recipients |-> 0]]
    /\ faults = 0

Fault == faults < MaxFaults /\ faults' = faults + 1

(* --------------------------- events and time ---------------------------- *)

\* coalesce_incident of an event due for notification: one transaction.
Emit(e) ==
    /\ step # "down" /\ intent[e] = "none"
    /\ intent' = [intent EXCEPT ![e] = "pending"]
    /\ waking' = waking \union {e}
    /\ UNCHANGED <<delivery, due, report, woken, step, threadVars, copies, faults>>

Wake(e) ==
    /\ e \in waking /\ waking' = waking \ {e}
    /\ woken' = TRUE
    /\ UNCHANGED <<rowVars, step, threadVars, copies, faults>>

SlotPasses ==
    /\ step = "daily"    \* the only place where it is read
    /\ \E s \in Slots : s # due /\ (s > due \/ Reschedules) /\ due' = s
    /\ UNCHANGED <<intent, delivery, report, waking, woken, step, threadVars,
                   copies, faults>>

(* ------------------------------- processes ------------------------------ *)

Ends == /\ step' = "down" /\ waking' = {} /\ woken' = FALSE
        /\ batch' = {} /\ item' = None /\ targets' = {} /\ outcome' = "none"
        /\ deadline' = "none"

\* stop_notification_worker, after a round of work.
Stop ==
    /\ step = "wait"
    /\ Ends
    /\ UNCHANGED <<rowVars, copies, faults>>

\* A crash; or a stop that did not wait for the end of a round.
Crash ==
    /\ step # "down" /\ Fault
    /\ Ends
    /\ UNCHANGED <<rowVars, copies>>

\* start_notification_worker: both recoveries, of claims older than five minutes and
\* of reports older than ten, then the loop.
Start ==
    /\ step = "down" /\ step' = "daily"
    /\ \E old \in SUBSET (Events \union Slots) :
          /\ delivery' = [e \in Events |->
                IF delivery[e] = "sending" /\ e \in old THEN "pending" ELSE delivery[e]]
          /\ report' = [s \in Slots |->
                IF report[s].status = "sending" /\ s \in old
                THEN [report[s] EXCEPT !.status = "pending"] ELSE report[s]]
    /\ UNCHANGED <<intent, due, waking, woken, threadVars, copies, faults>>

(* --------------------------- the daily report --------------------------- *)

Goes(to) == step' = to
ReportOnly == UNCHANGED <<intent, delivery, due, waking, woken, batch, targets, deadline, copies>>

Slotted(status) == {s \in Slots : report[s].status \in status}
Least(S) == CHOOSE s \in S : \A t \in S : s <= t
\* The end of the last report before slot s, or a day before it.
StartOf(s) ==
    LET earlier == {t \in Slotted({"sent"}) : t < s}
    IN  IF earlier = {} THEN s - 1 ELSE CHOOSE t \in earlier : \A u \in earlier : u <= t

Claimed(s, start) ==
    /\ report' = [report EXCEPT ![s] = [status |-> "sending", start |-> start]]
    /\ item' = s /\ Goes("report")

\* Mutant: a later slot is reported although an earlier one has failed.
ClaimReportOutOfTurn ==
    /\ step = "daily"
    /\ \/ /\ due # 0 /\ report[due].status = "none"
          /\ Claimed(due, StartOf(due))
       \/ \E s \in Slotted({"pending"}) : Claimed(s, report[s].start)
       \/ UNCHANGED <<report, item>> /\ Goes("intents")
    /\ ReportOnly /\ UNCHANGED <<outcome, faults>>

\* claim_daily_change_summary: an unfinished report first, and nothing while one is
\* being sent.  No slot may be due yet, nobody may be to receive it, a retry may
\* have to wait.
ClaimReport ==
    /\ step = "daily"
    /\ LET outstanding == Slotted({"pending", "sending"})
           first == Least(outstanding)
       IN  \/ /\ outstanding # {} /\ report[first].status = "pending" /\ due # 0
              /\ Claimed(first, report[first].start)
           \/ /\ outstanding = {} /\ due # 0 /\ report[due].status = "none"
              /\ Claimed(due, StartOf(due))
           \/ UNCHANGED <<report, item>> /\ Goes("intents")
    /\ ReportOnly /\ UNCHANGED <<outcome, faults>>

\* The history is read, and the report sent unless there is nothing to say.
SendReport ==
    /\ step = "report" /\ Goes("finalize")
    /\ outcome' \in {"sent", "pending"}
    /\ ReportOnly /\ UNCHANGED <<report, item, faults>>

\* Mutant: the outcome of the delivery is recorded as that of the report.
FinalizeAsDelivered ==
    /\ step = "finalize" /\ Goes("intents")
    /\ report' = [report EXCEPT ![item].status = IF outcome = "pending" THEN "error" ELSE "sent"]
    /\ item' = None /\ outcome' = "none" /\ faults' = faults
    /\ ReportOnly

\* finalize_daily_change_summary; an exception leaves the report "sending".
Finalize ==
    /\ step = "finalize" /\ Goes("intents")
    /\ \/ /\ report' = [report EXCEPT ![item].status = outcome]
          /\ faults' = faults
       \/ Fault /\ UNCHANGED <<report>>
    /\ item' = None /\ outcome' = "none"
    /\ ReportOnly

(* ------------------------- intents to deliveries ------------------------ *)

\* A batch of what is pending, in the order of its rows.
Batch(rows) ==
    \E b \in SUBSET Pending(rows) :
        /\ Cardinality(b) <= BatchLimit
        /\ Cardinality(b) < BatchLimit => b = Pending(rows)
        /\ batch' = b

TakeIntents ==
    /\ step = "intents" /\ Goes("materialize")
    /\ Batch(intent)
    /\ UNCHANGED <<rowVars, waking, woken, item, targets, outcome, deadline,
                   copies, faults>>

\* Mutant: an intent that could not be turned into a delivery is completed.
MaterializeRegardless ==
    /\ step = "materialize" /\ batch # {}
    /\ \E e \in batch :
          /\ batch' = batch \ {e}
          /\ intent' = [intent EXCEPT ![e] = "done"]
          /\ \/ /\ \E status \in {"pending", "skipped"} :
                      delivery' = [delivery EXCEPT ![e] = status]
                /\ woken' = TRUE /\ faults' = faults
             \/ Fault /\ UNCHANGED <<delivery, woken>>
    /\ UNCHANGED <<due, report, waking, step, item, targets, outcome, deadline, copies>>

\* process_notification_intent: the delivery and the end of the intent in one
\* transaction, or nothing.  An event nobody is to hear of is skipped.
Materialize ==
    /\ step = "materialize" /\ batch # {}
    /\ \E e \in batch :
          /\ batch' = batch \ {e}
          /\ \/ /\ intent' = [intent EXCEPT ![e] = "done"]
                /\ \E status \in {"pending", "skipped"} :
                      delivery' = [delivery EXCEPT ![e] = status]
                /\ woken' = TRUE /\ faults' = faults
             \/ Fault /\ UNCHANGED <<intent, delivery, woken>>
    /\ UNCHANGED <<due, report, waking, step, item, targets, outcome, deadline, copies>>

TakeDeliveries ==
    \/ /\ step = "materialize" /\ batch = {} /\ Goes("deliveries")
       /\ UNCHANGED <<rowVars, waking, woken, threadVars, copies, faults>>
    \/ /\ step = "deliveries" /\ Goes("claim")
       /\ Batch(delivery)
       /\ UNCHANGED <<rowVars, waking, woken, item, targets, outcome, deadline,
                      copies, faults>>

(* ------------------------------- a delivery ----------------------------- *)

DeliveryOnly == UNCHANGED <<intent, due, report, waking, woken, deadline>>

\* update_notification_delivery(status="sending"); an exception ends the round.
Claim ==
    /\ step = "claim" /\ batch # {}
    /\ \/ \E e \in batch :
             /\ delivery' = [delivery EXCEPT ![e] = "sending"]
             /\ batch' = batch \ {e} /\ item' = e
             /\ Goes("send") /\ faults' = faults
       \/ /\ Fault /\ Goes("capture")
          /\ batch' = {} /\ UNCHANGED <<delivery, item>>
    /\ DeliveryOnly /\ UNCHANGED <<targets, outcome, copies>>

Reaches(received) ==
    copies' = [copies EXCEPT ![item] =
                  [r \in Recipients |-> @[r] + IF r \in received THEN 1 ELSE 0]]

\* Mutant: the other channel writes to everyone again.
SendAgainToAll ==
    /\ step = "send"
    /\ \E received \in SUBSET Recipients :
          /\ Reaches(received)
          /\ \/ received = Recipients /\ outcome' = "sent" /\ targets' = {}
                /\ Goes("complete")
             \/ targets' = Recipients /\ outcome' = outcome /\ Goes("fallback")
    /\ DeliveryOnly /\ UNCHANGED <<delivery, batch, item, faults>>

\* _send_channel on the primary channel.  It writes to all; or names those it
\* refused, or cannot say who they are; or cannot be used; or it breaks, after
\* which nobody knows.  The other channel may be disabled.
Send ==
    /\ step = "send"
    /\ \E received \in SUBSET Recipients :
          /\ Reaches(received)
          /\ \/ /\ received = Recipients /\ outcome' = "sent" /\ targets' = {}
                /\ Goes("complete") /\ faults' = faults
             \/ /\ outcome' = "error" /\ targets' = {}
                /\ Goes("complete") /\ faults' = faults
             \/ /\ targets' = Recipients \ received /\ targets' # {}
                /\ outcome' = outcome /\ Goes("fallback") /\ faults' = faults
             \/ /\ Fault /\ received # {}
                /\ targets' = Recipients /\ outcome' = outcome /\ Goes("fallback")
    /\ DeliveryOnly /\ UNCHANGED <<delivery, batch, item>>

Fallback ==
    /\ step = "fallback" /\ Goes("complete")
    /\ \E received \in SUBSET targets :
          /\ Reaches(received)
          /\ outcome' \in (IF received = targets THEN {"fallback", "error"} ELSE {"error"})
    /\ targets' = {}
    /\ DeliveryOnly /\ UNCHANGED <<delivery, batch, item, faults>>

\* The outcome is recorded; an exception leaves it "sending" and ends the round.
Complete ==
    /\ step = "complete"
    /\ \/ /\ delivery' = [delivery EXCEPT ![item] = outcome]
          /\ Goes("claim") /\ UNCHANGED <<batch, faults>>
       \/ /\ Fault /\ Goes("capture")
          /\ batch' = {} /\ UNCHANGED <<delivery>>
    /\ item' = None /\ outcome' = "none"
    /\ DeliveryOnly /\ UNCHANGED <<targets, copies>>

(* ------------------------------- sleeping ------------------------------- *)

SleepOnly == UNCHANGED <<rowVars, waking, batch, item, targets, outcome, copies, faults>>

Capture ==
    /\ step = "capture" \/ (step = "claim" /\ batch = {})
    /\ Goes("deadline") /\ woken' = FALSE
    /\ SleepOnly /\ UNCHANGED deadline

\* Mutant: a delivery without a time for its next attempt sets no deadline.
DeadlineOfRetries ==
    /\ step = "deadline" /\ Goes("enter")
    /\ deadline' \in {"none", "unknown"}
    /\ SleepOnly /\ UNCHANGED woken

\* _worker_delay_seconds: it asks for deliveries, not for intents.  When the
\* question raises it goes to sleep without an answer.
Deadline ==
    /\ step = "deadline" /\ Goes("enter")
    /\ deadline' \in {"unknown", IF Pending(delivery) = {} THEN "none" ELSE "now"}
    /\ SleepOnly /\ UNCHANGED woken

\* WakeableDeadlineScheduler.wait
Enter ==
    /\ step = "enter"
    /\ \/ (woken \/ deadline = "now") /\ Goes("daily") /\ deadline' = "none"
       \/ ~ woken /\ deadline # "now" /\ Goes("wait") /\ deadline' = deadline
    /\ SleepOnly /\ UNCHANGED woken

\* Woken, or after WORKER_MAX_IDLE_SECONDS.
Rise ==
    /\ step = "wait" /\ Goes("daily")
    /\ deadline' = "none"
    /\ SleepOnly /\ UNCHANGED woken

Worker == \/ ClaimReport \/ SendReport \/ Finalize
          \/ TakeIntents \/ Materialize \/ TakeDeliveries
          \/ Claim \/ Send \/ Fallback \/ Complete
          \/ Capture \/ Deadline \/ Enter \/ Rise

Next ==
    \/ \E e \in Events : Emit(e) \/ Wake(e)
    \/ SlotPasses
    \/ Stop \/ Crash \/ Start
    \/ Worker

Spec == Init /\ [][Next]_vars
\* A daemon thread; a service that is started again.
FairSpec == Spec /\ WF_vars(Worker) /\ WF_vars(Start)

(* ------------------------------ properties ------------------------------ *)

\* Nobody is written to twice about one event unless the process died, a write
\* failed or a transport broke in between: the second channel takes only whom the
\* first refused, and what was sent is never claimed again (_deliver_claimed,
\* update_notification_delivery, recover_stale_deliveries).
SentOnce == \A e \in Events, r \in Recipients : copies[e][r] <= 1 + faults

\* Reports that were sent cover the history of changes without gap or overlap,
\* whatever failed in between (claim_daily_change_summary).
HistoryReportedOnce ==
    \A s \in Slotted({"sent"}) :
        LET earlier == {t \in Slotted({"sent"}) : t < s}
        IN  earlier # {} => /\ report[s].start \in earlier
                            /\ \A t \in earlier : t <= report[s].start

\* The worker does not sleep on a delivery it could send, whatever becomes pending between
\* its look at the table (next_notification_due_at) and its sleep.  The exception is the code's:
\* where that look raised, "except Exception: due_at = None", it sleeps on what there is,
\* for WORKER_MAX_IDLE_SECONDS at most.
SleepsOnNothing ==
    (step = "wait" /\ ~ woken /\ deadline # "unknown") => Pending(delivery) = {}

\* Every event that is to be notified comes to a delivery with an outcome, or to one
\* whose sending a crash or a failed write cut short: whatever a round leaves behind,
\* the worker comes back to it.  (An intent whose recorder woke the worker too early
\* waits for the idle timeout.)
DeliveriesEnd ==
    \A e \in Events :
        (intent[e] = "pending" \/ delivery[e] = "pending")
            ~> (delivery[e] \in Final \union {"sending"})

\* sqlite_store.py recover_daily_change_summaries: "Release interrupted report sends
\* when a worker starts again."
InterruptedReportsEnd ==
    \A s \in Slots : (report[s].status = "sending") ~> (report[s].status # "sending")
=============================================================================
