SPECIFICATION Spec
CONSTANTS
    Txns = {x1}
    Ops = {o1, o2}
    Callers <- Catching
    MaxClock = 1
    MaxGiveUps = 0
INVARIANTS NoEffectOutside
CHECK_DEADLOCK FALSE
