\* Mutators come and go while nobody is in sync_barrier; some are never destroyed,
\* and collections may panic.  Either may stop the program for good: no deadlock
\* check.
CONSTANTS
    Mutator = {m1, m2, m3, m4}
    Initial = {m1}
    None = None
    Registration = "quiescent"
    MayDrop = TRUE
    MayPanic = TRUE
SPECIFICATION Spec
SYMMETRY Symmetry
CHECK_DEADLOCK FALSE
INVARIANTS
    TypeOK
    HandshakeInv
    WorldStopped
    WokenMayLeave
    OneController
PROPERTY
    ImplementsSafepoint
