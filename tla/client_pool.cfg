SPECIFICATION Spec
CONSTANTS
    Tasks = {t1, t2, t3}
    Conns = {c1, c2}
    NoConn = NoConn
    RequiresAuth = FALSE
    WaitModes = {TRUE}
    Rejectable = {"hello", "saslStart", "saslContinue", "command"}
    MaxCalls = 4
    MaxCancels = 1
    MaxResets = 1
SYMMETRY Symmetry
INVARIANTS TypeOK Exclusive NoLostWakeup
CHECK_DEADLOCK FALSE
PROPERTIES PoolIsLease CloseLeavesOnlyBusy ClosedForGood
