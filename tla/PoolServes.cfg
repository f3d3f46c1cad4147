SPECIFICATION FairSpec
CONSTANTS
    None = None
    Threads = {t1, t2, t3, t4}
    Conns = {c1, c2, c3}
    Nested = {t1}
    MaxLookups = 2
    Unreachable = {c3}
INVARIANTS
    NoSharedConnection
    NoLostWakeup
PROPERTIES
    LeasesKept
    AllServed
    ShutdownFreesWaiters
