\* One update with a bundled OCR runtime and one restart, with two faults.
SPECIFICATION FairSpec
CONSTANTS
    Updates = {u1}
    Restarts = {r1}
    Setup = Setup
    None = None
    Down = Down
    BundlesOcr = TRUE
    FaultInUndo = FALSE
    MaxFaults = 2
INVARIANTS
    TypeOK
    SessionsEnd
PROPERTIES
    JournalAdvances
    OutcomeIsInstalled
    HandedOverEnds
