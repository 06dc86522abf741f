SPECIFICATION Spec
CONSTANTS
    Txns = {x1, x2}
    Ops = {o1, o2, o3}
    Callers <- EachHabit
    MaxClock = 2
    MaxGiveUps = 2
SYMMETRY Symmetry
INVARIANTS TypeOK AllOrNothing CommittedIsDurable AbortedHasNoEffect NoMixing
CHECK_DEADLOCK FALSE
