CONSTANTS
    NUM_CORES = 3
    Samples <- ZeroOne
    Faults <- AllFaults
SPECIFICATION FairSpec
INVARIANTS RunsWhole
PROPERTIES StackFree Implements Progress ServerReturns
CHECK_DEADLOCK FALSE
