SPECIFICATION FairLimitsSpec

CONSTANTS
    Nothing = Nothing
    k1 = k1
    k2 = k2
    Calls = {k1, k2}
    Operations <- Reads
    Resources <- Pools
    Limit <- TwoEach
    Period = 9
    Tolerance = 5
    Spread = 2
    Recheck = 2
    RetryAfter = 2
    Flight = 1
    ResetAfter = 1
    LateDenials = FALSE
    MaxReads = 1
    MaxFaults = 1

INVARIANT OneClientOpen
PROPERTIES
    DenialHolds
    CallsEnd

CHECK_DEADLOCK FALSE
