SPECIFICATION FilesSpec
CONSTANTS
    NR = 4
    NS = 3
    Keys <- MCKeys
    NumEntries <- MCEntries
    RInputs <- MCRInputs
    PtrRInputs <- MCPtrRInputs
    SInputs <- MCAllKeys
    IdHash <- MCIdHash
    BuildNum = 3
    ProbeNum = 2
    Builds <- MCBuilds
    RowidBits = 3
    RetrieveNum = 2
    PairLine = 2
    PairSlack = 1
    NULL = NULL
    Garbage = Garbage
    Empty = Empty
INVARIANTS
    EntryOwnership
    UnbrokenPath
    BuildComplete
PROPERTIES
    RefinesJoin
    Termination
