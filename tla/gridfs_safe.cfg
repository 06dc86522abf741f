SPECIFICATION Spec
CONSTANTS
    Procs = {p1, p2}
    Ids = {f1, f2}
    Sizes = {0, 8, 20}
    ChunkSizes = {2, 4, 12}
    Limit = 12
    Overhead = 1
    Room = 1
    FirstBatch = 2
    MaxOps = 3
    MaxFaults = 1
SYMMETRY Symmetry
INVARIANTS ListedIsWhole ReadIsComplete DeletedIsGone NoOrphans
PROPERTIES IsBucket
CHECK_DEADLOCK FALSE
