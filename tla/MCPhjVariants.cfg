SPECIFICATION VFairSpec
CONSTANTS
    NR = 5
    NS = 5
    Keys <- MCKeys
    RInputs <- MCR
    SInputs <- MCS
    Builds <- MCBuilds
    RadixBits = 2
    BitsPass1 = 1
    Pad = 2
    Threshold0 = 3
    Threshold1 = 1
    BuildNum = 3
    ProbeNum = 2
    MemsetNum = 2
    WriteNum = 2
    RowidBits = 3
    ShrUniScale = 240
    IndUniScale = 480
    Data <- MCData
    RetrieveNum = 2
    PairLine = 2
    PairSlack = 4
    NULL = NULL
    Garbage = Garbage
    Empty = Empty
INVARIANTS
    VPairsConserved
    VIntermediateFits
    HistogramsCurrent
    MaterComplete
PROPERTIES
    VRefinesPairs
    VTermination
