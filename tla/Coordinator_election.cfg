SPECIFICATION FairSpec
CONSTANTS
    n1 = n1
    n2 = n2
    n3 = n3
    Node = {n1, n2, n3}
    NoNode = NoNode
    l1 = l1
    Loop = {l1}
    MinClusterSize = 2
    MaxTerm = 2
    MultiThreaded = FALSE
    Starters = {n1, n2}
    Churn = {}
    ChurnTerm = 0
    Stoppable = {}
INVARIANTS
    TypeOK
    SingleVotePerTerm
    LeaderBacked
    LeaderAgreement
PROPERTIES
    ElectionResolves
    StaleLeaderStepsDown
