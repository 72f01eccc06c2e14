SPECIFICATION LiveSpec

CONSTANTS
    p1 = p1
    p2 = p2
    closing = closing
    refs = refs
    pull = pull
    c1 = c1
    c2 = c2
    ApiTasks = {p1, p2, closing}
    RefsTasks = {refs}
    PullTasks = {pull}
    CommitTasks = {c1, c2}
    Children <- MCChildren
    Concurrency = 2
    GitBatch = 1
    CommitBatch = 1
    StoreFails = TRUE

INVARIANTS
    DrainTypeOK
    ReturnMeansDrained
    RefsFirst
    OneAttempt

PROPERTIES
    Ends
    GitKeepsPace
    PoolSpec
