\* Two events for two recipients, a batch of one, three days, one fault.
SPECIFICATION FairSpec
CONSTANTS
    Events = {e1, e2}
    Recipients = {r1, r2}
    None = None
    BatchLimit = 1
    MaxSlot = 3
    Reschedules = FALSE
    MaxFaults = 1
INVARIANTS
    SentOnce
    HistoryReportedOnce
    SleepsOnNothing
PROPERTIES
    DeliveriesEnd
