CONSTANTS
    Services = {s1, s2}
    OrderIds = {a, b}
    BatchSize = 2
    ChanSize = 1
    MaxEvents = 2
SPECIFICATION FairSpec
INVARIANTS
    TypeOK
    NothingLost
    HeldOnce
PROPERTIES
    ImplementsLog
    Drains
CHECK_DEADLOCK FALSE
