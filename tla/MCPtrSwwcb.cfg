SPECIFICATION VSpec
CONSTANTS
    NR = 4
    NS = 4
    Keys <- SwwcbKeys
    RInputs <- SwwcbR
    SInputs <- SwwcbR
    Builds <- SwwcbBuilds
    RadixBits = 2
    BitsPass1 = 1
    Pad = 2
    Threshold0 = 3
    Threshold1 = 3
    BuildNum = 2
    ProbeNum = 2
    MemsetNum = 2
    WriteNum = 1
    RowidBits = 3
    ShrUniScale = 240
    IndUniScale = 480
    Data <- SwwcbData
    RetrieveNum = 2
    PairLine = 4
    PairSlack = 4
    NULL = NULL
    Garbage = Garbage
    Empty = Empty
INVARIANTS
    SkewTaskCopied
