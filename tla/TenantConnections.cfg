SPECIFICATION Spec
CONSTANTS
    Threads = {t1, t2}
    Dbs = {main, acme}
    DefaultDb = main
    Refused = {saas_base}
    NoHeader = NoHeader
    EvictAfter = 2
    CheckInterval = 2
    StepBound = 1
    MaxTime = 2
    MaxDepth = 3
    MaxPools = 2
    MaxWork = 6
    None = None
SYMMETRY Symmetry
INVARIANT OnItsOwnDatabase
INVARIANT AtomicCovers
INVARIANT ConnectionsReturned
PROPERTY IdlePoolsClosed
CHECK_DEADLOCK FALSE
