\* Every worker is scheduled, and may panic; three kinds of heap, and three
\* collections: the third finds a map of which the second has traced a part.
\* The last collection, or a panic, ends the run: no deadlock check.
CONSTANTS
    o1 = o1
    o2 = o2
    o3 = o3
    Object = {o1, o2, o3}
    Heaps <- AllHeaps
    CPUS = 2
    MaxGCs = 3
    MayPanic = TRUE
SPECIFICATION FairSpec
CHECK_DEADLOCK FALSE
INVARIANTS
    TypeOK
    TerminationInv
    MarkInv
    NoEarlyReturn
    TraceExact
PROPERTY
    TraceReturns
