\* A mutator goes out of scope without destroy().
CONSTANTS
    Mutator = {m1, m2}
    Initial = {m1, m2}
    None = None
    Registration = "closed"
    MayDrop = TRUE
    MayPanic = FALSE
SPECIFICATION FairSpec
CHECK_DEADLOCK FALSE
PROPERTY
    CollectionCompletes
