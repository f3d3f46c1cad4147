\* The sizes of the code; three loops of one transfer: two resumes.
SPECIFICATION Spec
CONSTANTS
    ChunkSize = 4194304
    NonceSize = 24
    MacSize = 16
    MetaIndex = 2147483647
    Window = 131072
    MaxRange = 4194320
    MaxWhole = 4194304
    Files <- MCFiles
    Channels = {"ranges", "google", "link"}
    Loops = {1, 2, 3}
    Faults = {"request"}
INVARIANTS
    SavedIsWhole
    ErrorsHaveCauses
    WholeMeansReadable
    PanelTellsTrue
PROPERTIES
    DownloadsEnd
CHECK_DEADLOCK FALSE
