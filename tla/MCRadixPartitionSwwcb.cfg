SPECIFICATION Spec
CONSTANTS
    N = 7
    Keys <- MCKeys
    Inputs <- MCInputs
    Hash <- MCHash
    ThreadNum = 3
    Fanout = 2
    Padding = 4
    LineSize = 4
    GlobalOffset = 6
    Empty = Empty
    Junk = Junk
    Foreign = Foreign
INVARIANTS
    NeighbourUntouched
PROPERTIES
    RefinesPlain
