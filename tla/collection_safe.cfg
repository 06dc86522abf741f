SPECIFICATION FairSpec
CONSTANTS
    Names = {"a", "b"}
    Tasks = {t1, t2}
    Stubborn = {t1}
    t1 = t1
    t2 = t2
    Wanted = "a"
    Calls <- MCCalls
    Writes <- MCWrites
    Databases <- MCDatabases
    MaxEvents = 3
INVARIANTS
    EnsureOutcome
    WritesReported
    OwnNamespace
PROPERTIES
    StubbornGets
CHECK_DEADLOCK FALSE
