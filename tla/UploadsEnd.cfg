\* Progress of sessions and of the collector.
SPECIFICATION FairSpec
CONSTANTS
    Unborn = Unborn
    Gone = Gone
    Absent = Absent
    Hole = Hole
    FileIds = {f1}
    LastChunk = 0
    Uploads = {u1}
    Recoveries = {r1}
    Collectors = {g1}
    Faults = {"answer"}
    Clock = {"hours"}
PROPERTIES
    SessionsEnd
    OrphansSwept
CHECK_DEADLOCK FALSE
