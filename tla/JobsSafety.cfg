\* Two jobs of one owner, one worker (QueueLimits.workers = 1), one maintenance
\* operation and one restart; cleanup succeeds and every form can be read.
SPECIFICATION Spec
CONSTANTS
    Job = {j1, j2}
    NoJob = NoJob
    Owner = {alice}
    OwnerOf <- OneOwner
    Synchronous = {}
    Token <- MCToken
    Worker = {w1}
    Operation = {op1}
    NoOperation = NoOperation
    MaxPending = 2
    MaxPerOwner = 2
    BadForms = {}
    CleanupMayFail = FALSE
    MaxRestarts = 1
INVARIANTS
    TypeOK
    NothingWritesDuringMaintenance
    LeasesAreWorkInProgress
    ForceReachesRunningJobs
    RunAtMostOnce
    WaitingJobsAreDurable
    QueuedFormsAreInQueue
    SubmissionOrderSurvives
CHECK_DEADLOCK FALSE
SYMMETRY JobSymmetry
