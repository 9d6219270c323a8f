\* An application with two operations, one of them nested, and the migrator with one
\* of its own; one failed step or crash, and a second attempt.
SPECIFICATION FairSpec
CONSTANTS
    Apps = {web}
    Tool = tool
    Ops <- MCOps
    Home <- MCHome
    Nested <- MCNested
    UnlinkMayFail = FALSE
    MaxFaults = 1
    MaxAdoptions = 2
INVARIANTS
    AdoptsAlone
    WritesAreAdopted
    StaysUsable
PROPERTIES
    HandoverEnds
