SPECIFICATION FairSpec
CONSTANTS
    NoVisit = NoVisit
    v1 = v1
    v2 = v2
    v3 = v3
    p1 = p1
    p2 = p2
    Visits = {v1, v2, v3}
    Workers = {p1, p2}
    BufSize = 2
    MaxConns = 1
    Faults = {"db", "accept"}
INVARIANTS
    TypeOK
    PanicNeedsServeError
    CloseDrains
    ShutdownLossBounded
PROPERTIES
    QueuedIsTaken
    ShutdownEndsOrSignalLost
    KeepsPromise
CHECK_DEADLOCK FALSE
