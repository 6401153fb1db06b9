SPECIFICATION FairSpec
CONSTANTS
    NR = 5
    NS = 5
    Keys <- MCKeys
    RInputs <- MCR
    SInputs <- MCS
    Builds <- MCBuilds
    RadixBits = 3
    BitsPass1 = 2
    Pad = 2
    Threshold0 = 2
    Threshold1 = 1
    BuildNum = 2
    ProbeNum = 2
    MemsetNum = 3
    RowidBits = 3
    NULL = NULL
    Garbage = Garbage
    Empty = Empty
INVARIANTS
    PairsConserved
    RoomsApart
    IntermediateFits
PROPERTIES
    SkewTaskStable
    RefinesPairs
    Termination
