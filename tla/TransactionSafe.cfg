SPECIFICATION FairSpec
CONSTANTS
    Write = {w1}
    Down = Down
    NoBackup = NoBackup
    FilesMayStick = FALSE
    MayBeDown = FALSE
    RestartMayBeLate = FALSE
    MaxOperations = 2
    MaxCrashes = 2
INVARIANTS
    WritesAreKept
    OnlyVerifiedServes
PROPERTIES
    ImplementsAtomicRelease
    RequestsAreWithdrawn
