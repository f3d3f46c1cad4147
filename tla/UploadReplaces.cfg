\* Two uploads of one name and a recovery.
SPECIFICATION Spec
CONSTANTS
    Unborn = Unborn
    Gone = Gone
    Absent = Absent
    Hole = Hole
    FileIds = {f1, f2}
    LastChunk = 1
    Uploads = {u1, u2}
    Recoveries = {r1}
    Collectors = {}
    Faults = {}
    Clock = {}
INVARIANTS
    OneEncryption
    CompleteMeansStored
    RecordedGetsComplete
SYMMETRY Symmetry
CHECK_DEADLOCK FALSE
