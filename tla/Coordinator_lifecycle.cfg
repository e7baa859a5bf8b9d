SPECIFICATION Spec
CONSTANTS
    n1 = n1
    n2 = n2
    Node = {n1, n2}
    NoNode = NoNode
    l1 = l1
    l2 = l2
    Loop = {l1, l2}
    MinClusterSize = 2
    MaxTerm = 3
    MultiThreaded = FALSE
    Starters = {n1, n2}
    Churn <- BothViews
    ChurnTerm = 1
    Stoppable = {n1}
SYMMETRY LoopSymmetry
VIEW View
INVARIANTS
    ElectionSafety
PROPERTIES
    LeadsAsCandidate
