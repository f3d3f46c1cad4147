\* A video with its proxy and two folders; two tasks of the user's.
SPECIFICATION Spec
CONSTANTS
    clip = clip
    twin = twin
    dir1 = dir1
    dir2 = dir2
    t1 = t1
    t2 = t2
    FileIds = {clip, twin}
    Folders = {dir1, dir2}
    Root = Root
    Absent = Absent
    Bases = {"a", "b"}
    Number <- MCNumber
    Pictures = {clip}
    Starts <- MCStarts
    Tasks = {t1, t2}
    MaxTrail = 2
    MaxDrops = 2
    Pairs <- MCPairs
SYMMETRY MCSymmetry
INVARIANTS
    ViewSettles
    TwinsTogether
    NamesHidden
    PinsSettle
    ActsOnPicked
    DropsLand
CHECK_DEADLOCK FALSE
