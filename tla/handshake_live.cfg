\* All mutators exist from the start and poll.
\* Once all are destroyed nothing happens any more: no deadlock check.
CONSTANTS
    Mutator = {m1, m2, m3}
    Initial = {m1, m2, m3}
    None = None
    Registration = "closed"
    MayDrop = FALSE
    MayPanic = FALSE
SPECIFICATION FairSpec
CHECK_DEADLOCK FALSE
PROPERTIES
    CollectionCompletes
    FollowersResume
    RequestServed
