SPECIFICATION FairSpec

CONSTANTS
    None = None
    c1 = c1
    c2 = c2
    d2 = d2
    t = t
    u = u
    r = r
    s = s
    old = old
    new = new
    Histories <- AskedOrRewritten
    TreeOf <- Files
    Rows = {r}
    CovRows = {s}
    Engines = {old, new}
    Covering = {new}
    Legacy <- LegacyArchive
    DeleteFails = FALSE
    PowerFails = FALSE
    MaxFaults = 3
    MaxAsks = 1

INVARIANTS
    ArchiveIsExact
    BaseIsTrusted
    EngineBoundaryIsWhole

PROPERTIES
    CommitsAreKept
    BuildsFinish

CHECK_DEADLOCK FALSE
