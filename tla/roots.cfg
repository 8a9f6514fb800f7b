\* Every benchmark, two threads where it has several; two blocks of three lines.
\* A program ends, or runs out of memory: no deadlock check.
CONSTANTS
    LongLivedDepth = 1
    StretchDepth = 2
    TimeDepth = 1
    iNumIters = 1
    K = 4
    TREE_DEPTH = 1
    TREE_COUNT = 3
    ALLOCATION_TIMES = 20
    ADDRESSES = 512
    START = 64
    END = 256
    Mutator = {1, 2}
    None = None
    Programs <- AllPrograms
    BYTES_IN_LINE = 32
    LINES_IN_BLOCK = 3
    MarkFrames = 1
    MaxFrames = 5
    MaxChance = 1
SPECIFICATION Spec
CHECK_DEADLOCK FALSE
INVARIANTS
    TypeOK
    TracedInSpace
    PatternsExpected
    ScanInv
    DereferencesObjects
PROPERTY
    HeldSurvives
