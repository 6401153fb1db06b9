SPECIFICATION VSpec
CONSTANTS
    NR = 4
    NS = 12
    Keys <- MaterKeys
    RInputs <- MaterR
    SInputs <- MaterS
    Builds <- MaterBuilds
    RadixBits = 1
    BitsPass1 = 1
    Pad = 2
    Threshold0 = 12
    Threshold1 = 12
    BuildNum = 1
    ProbeNum = 2
    MemsetNum = 2
    WriteNum = 1
    RowidBits = 3
    ShrUniScale = 240
    IndUniScale = 480
    Data <- MaterData
    RetrieveNum = 2
    PairLine = 4
    PairSlack = 4
    NULL = NULL
    Garbage = Garbage
    Empty = Empty
INVARIANTS
    MaterFits
