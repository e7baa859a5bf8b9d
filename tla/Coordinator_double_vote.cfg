SPECIFICATION Spec
CONSTANTS
    n1 = n1
    n2 = n2
    n3 = n3
    Node = {n1, n2, n3}
    NoNode = NoNode
    l1 = l1
    Loop = {l1}
    MinClusterSize = 2
    MaxTerm = 2
    MultiThreaded = TRUE
    Starters = {n1, n2, n3}
    Churn = {}
    ChurnTerm = 0
    Stoppable = {}
SYMMETRY Symmetry
INVARIANTS
    SingleVotePerTerm
