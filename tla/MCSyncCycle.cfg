SPECIFICATION FairSpec

CONSTANTS
    N = 2
    Existing = 1
    Pulls = {1, 2}
    PageSize = 1
    Overlap = 1
    Skew = 1
    MaxTime = 2
    MaxEdits = 2
    MaxComments = 1
    MaxChanges = 2
    MaxStops = 2
    Refreshed = {1, 2}

INVARIANT
    NoLostUpdate

PROPERTIES
    CompletedCycleIsWhole
    FactsNeverGoBack
    Converges
    CyclesEnd
