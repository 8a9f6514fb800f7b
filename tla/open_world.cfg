\* A mutator registers while the controller counts.
CONSTANTS
    Mutator = {m1, m2}
    Initial = {m1}
    None = None
    Registration = "open"
    MayDrop = FALSE
    MayPanic = FALSE
SPECIFICATION Spec
CHECK_DEADLOCK FALSE
INVARIANT
    WorldStopped
