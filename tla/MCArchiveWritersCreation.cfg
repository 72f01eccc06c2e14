SPECIFICATION Spec

CONSTANTS
    p = p
    q = q
    a = a
    b = b
    x = x
    s = s
    t = t
    Processes = {p, q}
    Names = {a}
    Databases = {x}
    FileOf <- OneName
    Settings = {s}
    Tables = 2
    MaxTime = 0
    MaxCalls = 1

INVARIANTS
    StoppedCreationResumes

CHECK_DEADLOCK FALSE
