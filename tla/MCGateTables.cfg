SPECIFICATION Spec
CONSTANTS
    Queues <- MCQueues
    Inputs <- MCInputs
    W = 5
    Pow2 <- MCPow2
    N = 6
    Bit <- MCBit
INVARIANTS
    TypeOK
    ExactCover
    Disjoint
    FewestEntries
    PanicOnlyAtLargestWord
    ExactlyExceeded
    PriorityIrrelevant
    CoverageKept
    OpenTimeKept
    SlicesSeparated
    KeysDistinct
    TablesAnswer
    OptimizedCounts
PROPERTY TablesFinish
CHECK_DEADLOCK FALSE
