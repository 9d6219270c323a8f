\* Two maintenance requests of the controller, one after the other, each with
\* its own coordinator; liveness is checked, so there is no symmetry.
SPECIFICATION FairSpec
CONSTANTS
    Token = {w1, w2}
    Operation = {op1, op2}
    NoOperation = NoOperation
    Thread = {watch, heartbeat}
    ReuseCoordinator = FALSE
INVARIANTS
    ExecutesAlone
    ForceReachesEveryTask
PROPERTIES
    DrainTerminates
    ImplementsExclusiveMaintenance
