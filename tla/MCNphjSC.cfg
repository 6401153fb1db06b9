SPECIFICATION FilesSpec
CONSTANTS
    NR = 5
    NS = 5
    Keys <- MCKeys
    RInputs <- MCRInputs
    PtrRInputs <- MCPtrRInputs
    SInputs <- MCSInputs
    IdHash <- MCIdHash
    BuildNum = 2
    ProbeNum = 2
    Capacity = 2
    BufSize = 1
    RowidBits = 3
    RetrieveNum = 2
    PairLine = 2
    PairSlack = 1
    NULL = NULL
    Garbage = Garbage
    Empty = Empty
INVARIANTS
    TypeOK
    SlotAccounting
    ChainShape
    BuildComplete
    ProbeReadsStored
PROPERTIES
    RefinesJoin
    Termination
