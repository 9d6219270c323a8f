\* One job through two restarts and two maintenance operations.
SPECIFICATION FairSpec
CONSTANTS
    Job = {j1}
    NoJob = NoJob
    Owner = {alice}
    OwnerOf <- OneOwner
    Synchronous = {j1}
    Token <- MCToken
    Worker = {w1}
    Operation = {op1, op2}
    NoOperation = NoOperation
    MaxPending = 1
    MaxPerOwner = 1
    BadForms = {}
    CleanupMayFail = FALSE
    MaxRestarts = 2
PROPERTIES
    QueuedJobsRun
    SynchronousRequestsEnd
    SeenRequestsEnd
CHECK_DEADLOCK FALSE
