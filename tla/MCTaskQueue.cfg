SPECIFICATION FairSpec
CONSTANTS
    ThreadNum = 3
    AddNum <- MCAddNum
    AloneNum = 1
    AllocNum = 2
    NULL = NULL
INVARIANTS
    SlotsApart
    CountIsDepth
PROPERTIES
    RefinesPool
    AllDone
