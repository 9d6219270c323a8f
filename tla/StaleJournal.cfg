\* One update, nothing fails; the backend that is started for it answers from a
\* journal it has read before the controller commits.
SPECIFICATION FairSpec
CONSTANTS
    Updates = {u1}
    Restarts = {r1}
    Setup = Setup
    None = None
    Down = Down
    BundlesOcr = FALSE
    FaultInUndo = FALSE
    MaxFaults = 0
PROPERTIES
    OutcomeIsSeen
