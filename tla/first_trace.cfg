\* The first collection after TraceMap::new.
\* The last collection, or a panic, ends the run: no deadlock check.
CONSTANTS
    o1 = o1
    o2 = o2
    o3 = o3
    Object = {o1, o2, o3}
    Heaps <- AllHeaps
    CPUS = 2
    MaxGCs = 1
    MayPanic = FALSE
SPECIFICATION Spec
CHECK_DEADLOCK FALSE
INVARIANT
    ReachableMarked
