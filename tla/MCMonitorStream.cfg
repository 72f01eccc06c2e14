SPECIFICATION FairSpec

CONSTANTS
    Total = 5
    Deltas = {2}
    Backlog = 1
    BatchSize = 2
    PageSize = 1
    LateLoss = FALSE
    Impatient = FALSE
    MaxClicks = 1
    MaxFaults = 2

INVARIANTS
    NoHole
PROPERTIES
    ShownAtLast
CHECK_DEADLOCK FALSE
