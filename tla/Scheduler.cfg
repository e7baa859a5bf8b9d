SPECIFICATION Spec
CONSTANTS
    t1 = t1
    t2 = t2
    t3 = t3
    t4 = t4
    t5 = t5
    w1 = w1
    w2 = w2
    Task = {t1, t2, t3, t4, t5}
    Worker = {w1, w2}
    NoWorker = NoWorker
    StealThreshold = 2
    CountMax = 7
    Modes <- SomeModes
SYMMETRY Symmetry
INVARIANTS
    TypeOK
    Acyclic
    DependentsArePresent
    RunsAfterDependencies
    AssignedIsQueued
    ClaimedIsQueued
CHECK_DEADLOCK FALSE
