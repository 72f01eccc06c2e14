SPECIFICATION Spec

CONSTANTS
    p1 = p1
    p2 = p2
    timeline = timeline
    reviews = reviews
    c1 = c1
    c2 = c2
    Commits = {c1, c2}
    Parents = {p1, p2}
    Sources = {timeline, reviews}
    Refers <- MCRefers
    CommitBatch = 1
    MaxStops = 0
    Rollbacks = TRUE

INVARIANTS
    ScopeExists

CHECK_DEADLOCK FALSE
