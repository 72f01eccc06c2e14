SPECIFICATION Spec

CONSTANTS
    Targets = {a, b}
    Commits = {c}
    CallerKeys = {k}
    Concurrency = 2
    MaxRows = 3
    MaxJobs = 2
    a = a
    b = b
    c = c
    k = k
    MaxStops = 2

SYMMETRY Symmetry

INVARIANTS
    JobIsWhole
    AnswersTheCall
    BaselineIsWhole

CHECK_DEADLOCK FALSE
