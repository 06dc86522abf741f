SPECIFICATION Spec
CONSTANTS
    Int32Max = 5
    Classes <- MCClasses
    Samples <- MCSamples
    MaxStored = 1
    MaxAssigns = 1
PROPERTIES
    InsertAccepted
CHECK_DEADLOCK FALSE
