SPECIFICATION FairSpec

CONSTANTS
    p = p
    q = q
    a = a
    b = b
    x = x
    s = s
    t = t
    Processes = {p, q}
    Names = {a, b}
    Databases = {x}
    FileOf <- Linked
    Settings = {s, t}
    Tables = 2
    MaxTime = 1
    MaxCalls = 2

INVARIANTS
    SingleWriter
    WritersAgree

PROPERTIES
    BoundaryKept
    CallsEnd

CHECK_DEADLOCK FALSE
