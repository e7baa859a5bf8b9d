SPECIFICATION Spec
CONSTANTS
    n1 = n1
    n2 = n2
    n3 = n3
    Node = {n1, n2, n3}
    NoNode = NoNode
    c1 = c1
    c2 = c2
    Call = {c1, c2}
    MaxTerm = 2
    Modes <- SomeModes
SYMMETRY Symmetry
INVARIANTS
    TypeOK
    OneVotePerTerm
    OneLeaderPerTerm
    LeaderKeepsVotes
CHECK_DEADLOCK FALSE
