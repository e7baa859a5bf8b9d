SPECIFICATION FairSpec
CONSTANTS
    n1 = n1
    n2 = n2
    Node = {n1, n2}
    NoNode = NoNode
    NoCall = NoCall
    MaxTerm = 2
    MaxLog = 2
    MaxBeats = 2
    Handover = FALSE
    Concurrent = TRUE
    ApplyErrors = TRUE
    Eager = TRUE
INVARIANTS
    NeverAppliedTwice
PROPERTIES
    RoundsEnd
CHECK_DEADLOCK FALSE
