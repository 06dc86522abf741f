SPECIFICATION Spec
CONSTANTS
    Totals = {0, 1, 2, 3, 4, 5, 6}
    Limits = {0, 1, 2, 3, 5}
    Batches = {0, 1, 2, 3}
    Room = 2
    MaxFaults = 2
INVARIANTS TypeOK InOrder Complete Released
CHECK_DEADLOCK FALSE
