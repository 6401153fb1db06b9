SPECIFICATION BFairSpec
CONSTANTS
    NR = 4
    NS = 4
    Keys <- MCKeys
    RInputs <- MCR
    SInputs <- MCS
    Builds <- MCBuilds
    RadixBits = 2
    Cap = 2
    Line = 2
    Threshold0 = 2
    Threshold1 = 1
    BuildNum = 2
    ProbeNum = 2
    MemsetNum = 2
    RowidBits = 3
    NULL = NULL
    Garbage = Garbage
INVARIANTS
    BPairsConserved
    BMemorySuffices
PROPERTIES
    BRefinesPairs
    BTermination
