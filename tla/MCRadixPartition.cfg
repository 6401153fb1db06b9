SPECIFICATION Spec
CONSTANTS
    N = 5
    Keys <- MCKeys
    Inputs <- MCInputs
    Hash <- MCHash
    ThreadNum = 3
    Fanout = 3
    Padding = 1
    Empty = Empty
INVARIANTS
    RoomsSeparate
    TasksHoldPartitions
PROPERTIES
    NoOverwrite
