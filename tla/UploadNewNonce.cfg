\* A recovery of an upload that has chunks.
SPECIFICATION Spec
CONSTANTS
    Unborn = Unborn
    Gone = Gone
    Absent = Absent
    Hole = Hole
    FileIds = {f1}
    LastChunk = 1
    Uploads = {u1}
    Recoveries = {r1}
    Collectors = {}
    Faults = {}
    Clock = {}
PROPERTIES
    RecoveryKeepsNonce
CHECK_DEADLOCK FALSE
