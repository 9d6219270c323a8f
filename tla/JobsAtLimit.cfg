\* One slot for two jobs of one owner, two workers, directories that cannot be
\* removed.
\* Maintenance has a run of its own (JobsSafety).
SPECIFICATION Spec
CONSTANTS
    Job = {j1, j2}
    NoJob = NoJob
    Owner = {alice}
    OwnerOf <- OneOwner
    Synchronous = {}
    Token <- MCToken
    Worker = {w1, w2}
    Operation = {}
    NoOperation = NoOperation
    MaxPending = 2
    MaxPerOwner = 1
    BadForms = {}
    CleanupMayFail = TRUE
    MaxRestarts = 1
INVARIANTS
    SlotsAreJobsInFlight
PROPERTIES
    CancelledStaysOut
CHECK_DEADLOCK FALSE
SYMMETRY JobWorkerSymmetry
