SPECIFICATION FairSpec
CONSTANTS
    Kernels <- AllKernels
    Inputs <- MCTasks
    MaxBuilds <- MCMaxBuilds
    RadixBits = 1
    Capacity = 2
    Scaling = 2
    RowidBits = 3
    Stale = 7
INVARIANTS
    StaysInside
    RightAnswers
PROPERTIES
    Termination
