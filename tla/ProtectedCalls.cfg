SPECIFICATION FairSpec
CONSTANTS
    c1 = c1
    c2 = c2
    c3 = c3
    Call = {c1, c2, c3}
    Few = {c1, c2}
    FailureThreshold = 2
    SuccessThreshold = 2
    HalfOpenMax = 1
    CounterMax = 3
    MaxConcurrent = 2
    MaxQueueSize = 1
    Modes <- SomeModes
    MaxForced = 1
INVARIANTS
    TypeOK
    TrialsAreBounded
    NeverWedged
    ClosedIsBelowThreshold
    QueueSizeIsExact
PROPERTIES
    Recovers
