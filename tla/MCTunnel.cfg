SPECIFICATION Spec
CONSTANTS
    a = a
    b = b
    Nodes <- MCNodes
    HigherPub = a
    MaxInits = 2
    MaxPairs = 3
    MaxSeq = 1
    MaxFaults = 1
SYMMETRY NodeSymmetry
INVARIANTS
    TypeOK
    DeliveredOnce
    AnswerMeansSession
PROPERTIES
    SequenceUnique
    SwitchoverSafe
CHECK_DEADLOCK FALSE
