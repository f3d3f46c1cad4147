\* Both providers, nested folders, a collector. Two local files (3 bytes)
\* exceed the quota, one local and one external file (2) fill it.
SPECIFICATION Spec
CONSTANTS
    Root = Root
    Absent = Absent
    FileIds = {f1, f2}
    Folders = {d1, d2}
    Names = {n1}
    Providers = {"local", "google_drive"}
    MaxSize = 3
    Sizes = {3}
    MetadataCost = 2
    MaxStorage = 5
    Collectors = {g1}
INVARIANTS
    QuotaNeverExceeded
    
PROPERTIES
    BalancedSteps
    
SYMMETRY Symmetry
