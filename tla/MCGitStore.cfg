SPECIFICATION Spec

CONSTANTS
    None = None
    c1 = c1
    c2 = c2
    c3 = c3
    Commits = {c1, c2, c3}
    ParentOf <- History3
    Branches = {"main"}
    Sources <- PullsAndFork
    NamedBy <- Naming
    Requests <- Asked
    Pulls = {1, 2}
    Details <- PullDetails
    AtFirst <- Start
    RefBatchSize = 2
    MaxEvents = 3

INVARIANTS
    NothingLetGo
    NothingOverlooked
