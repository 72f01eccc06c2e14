SPECIFICATION FactSpec

CONSTANTS
    issue = issue
    comments = comments
    k1 = k1
    k2 = k2
    k3 = k3
    task = task
    Facts <- MCFacts
    PublicationKeys <- MCKeys
    Owners <- MCOwners
    MaxInstant = 2
    MaxObservations = 3
    MaxBatch = 2

SYMMETRY Symmetry

INVARIANTS
    FactTypeOK
    CurrentIsAsOfNow

PROPERTIES
    CurrentNeverRegresses
    PublicationIsFinal

CHECK_DEADLOCK FALSE
