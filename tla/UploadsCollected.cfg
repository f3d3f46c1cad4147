\* An upload and its recovery next to a collector: every fault and delay.
SPECIFICATION Spec
CONSTANTS
    Unborn = Unborn
    Gone = Gone
    Absent = Absent
    Hole = Hole
    FileIds = {f1}
    LastChunk = 1
    Uploads = {u1}
    Recoveries = {r1}
    Collectors = {g1}
    Faults = {"request", "answer", "disk", "delete"}
    Clock = {"hours", "month"}
INVARIANTS
    CompleteMeansRecorded
    SuccessMeansSaved
PROPERTIES
    CollectorSparesFinished
    StoredBytesStay
SYMMETRY Symmetry
CHECK_DEADLOCK FALSE
