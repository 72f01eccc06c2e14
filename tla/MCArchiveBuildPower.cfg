SPECIFICATION Spec

CONSTANTS
    None = None
    c1 = c1
    c2 = c2
    d2 = d2
    t = t
    u = u
    r = r
    s = s
    old = old
    new = new
    Histories <- AskedOrRewritten
    TreeOf <- Files
    Rows = {r}
    CovRows = {s}
    Engines = {old, new}
    Covering = {new}
    Legacy <- LegacyArchive
    DeleteFails = FALSE
    PowerFails = TRUE
    MaxFaults = 1
    MaxAsks = 0

INVARIANT ArchiveIsExact

CHECK_DEADLOCK FALSE
