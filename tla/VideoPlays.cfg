\* Two streams, two seeks, three chunks, both layouts.
SPECIFICATION Spec
CONSTANTS
    Chunks = 3
    Layouts <- MCLayouts
    PerLoad = 1
    Slots = 2
    Ahead = 1
    Behind = 1
    Segments = 1
    Room = 2
    Faults = {"request", "append"}
    MaxStreams = 2
    MaxSeeks = 2
INVARIANTS
    NothingSkipped
    BufferNotBusy
PROPERTIES
    FedInOrder
CHECK_DEADLOCK FALSE
