SPECIFICATION Spec
CONSTANTS
    WordBits = 2
    Words = 3
    Seqs <- MCSeqs
INVARIANTS
    TypeOK
    WindowExact
PROPERTIES
    RefinesAntiReplay
