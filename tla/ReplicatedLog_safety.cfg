SPECIFICATION Spec
CONSTANTS
    n1 = n1
    n2 = n2
    n3 = n3
    Node = {n1, n2, n3}
    NoNode = NoNode
    NoCall = NoCall
    MaxTerm = 2
    MaxLog = 2
    MaxBeats = 1
    Handover = TRUE
    Concurrent = FALSE
    ApplyErrors = FALSE
    Eager = FALSE
SYMMETRY Symmetry
INVARIANTS
    TypeOK
    CommittedAgree
    CommittedOnMajority
    AnsweredIsKept
    MatchIsReplicated
PROPERTIES
    Refines
CHECK_DEADLOCK FALSE
