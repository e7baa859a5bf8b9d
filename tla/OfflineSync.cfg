SPECIFICATION CalledSpec
CONSTANTS
    k1 = k1
    a1 = a1
    a2 = a2
    s1 = s1
    s2 = s2
    Key = {k1}
    App = {a1, a2}
    Sync = {s1, s2}
    MaxQueueSize = 2
    BatchSize = 2
    MaxAttempts = 1
    MaxOps = 3
    MaxCrashes = 1
    Modes <- SomeModes
INVARIANTS
    TypeOK
    NothingIsDroppedEarly
    QueueIsBounded
PROPERTIES
    NeverGoesBack
    Drains
CHECK_DEADLOCK FALSE
