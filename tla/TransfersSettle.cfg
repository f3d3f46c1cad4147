\* Batches, a video and a recovery, paused, resumed and cancelled.
SPECIFICATION FairSpec
CONSTANTS
    NoOne = NoOne
    t1 = t1
    t2 = t2
    t3 = t3
    t4 = t4
    t5 = t5
    t6 = t6
    v1 = v1
    r1 = r1
    Batch <- MCBatch
    Videos <- MCVideos
    Hash <- MCHash
    Recoveries = {r1}
    Google = {t3}
    LastChunk = 0
    WindowSize = 2
    LocalLimit = 1
    GoogleLimit = 1
    Resumed = {t4, v1, r1}
    Scenarios <- MCScenarios
INVARIANTS
    SuccessMeansStored
    GroupsHonest
PROPERTIES
    ReportsOnce
    OperationsEnd
CHECK_DEADLOCK FALSE
