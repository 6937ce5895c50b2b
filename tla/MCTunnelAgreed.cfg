SPECIFICATION Spec
CONSTANTS
    a = a
    b = b
    Nodes <- MCNodes
    HigherPub = a
    MaxInits = 2
    MaxPairs = 3
    MaxSeq = 1
    MaxFaults = 1
PROPERTY
    KeyAgreed
CHECK_DEADLOCK FALSE
