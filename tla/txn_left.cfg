SPECIFICATION FairSpec
CONSTANTS
    Txns = {x1}
    Ops = {o1, o2}
    Callers <- Plainly
    MaxClock = 1
    MaxGiveUps = 1
PROPERTIES LeftIsSettled
CHECK_DEADLOCK FALSE
