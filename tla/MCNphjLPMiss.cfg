SPECIFICATION FilesSpec
CONSTANTS
    NR = 4
    NS = 3
    Keys <- MCKeys
    NumEntries <- MCEntries
    RInputs <- MCRInputs
    PtrRInputs <- MCPtrRInputs
    SInputs <- MCSelectivity
    IdHash <- MCIdHash
    BuildNum = 2
    ProbeNum = 1
    Builds <- MCSelectivityBuilds
    RowidBits = 3
    RetrieveNum = 2
    PairLine = 2
    PairSlack = 1
    NULL = NULL
    Garbage = Garbage
    Empty = Empty
INVARIANTS
    MissIsHarmless
