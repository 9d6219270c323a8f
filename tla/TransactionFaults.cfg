SPECIFICATION FairSpec
CONSTANTS
    Write = {}
    Down = Down
    NoBackup = NoBackup
    FilesMayStick = TRUE
    MayBeDown = TRUE
    RestartMayBeLate = FALSE
    MaxOperations = 2
    MaxCrashes = 1
INVARIANTS
    CodeFitsData
    DecidedMeansInstalled
PROPERTIES
    OperationsEnd
