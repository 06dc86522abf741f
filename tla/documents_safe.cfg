SPECIFICATION Spec
CONSTANTS
    Int32Max = 5
    Classes <- MCClasses
    Samples <- MCSamples
    MaxStored = 1
    MaxAssigns = 1
INVARIANTS
    DumpAccepted
    ValidatedParses
    RoundTrip
CHECK_DEADLOCK FALSE
