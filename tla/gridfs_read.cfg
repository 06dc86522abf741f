SPECIFICATION Spec
CONSTANTS
    Procs = {p1}
    Ids = {f1}
    Sizes = {20}
    ChunkSizes = {4}
    Limit = 12
    Overhead = 1
    Room = 1
    FirstBatch = 2
    MaxOps = 2
    MaxFaults = 0
INVARIANTS ReturnedIsWhole
CHECK_DEADLOCK FALSE
