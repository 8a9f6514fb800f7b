\* Three threads and slots for two mutators, three blocks, large objects, and ints
\* from -8 to 7: an object of size 6 may wrap.
\* Exhaustion ends the process: no deadlock check.
CONSTANTS
    Thread = {t1, t2, t3}
    MAX_MUTATORS = 2
    BLOCKS = 3
    OBJECTS = 1
    INT_MAX = 7
    LO_SPACE_SIZE = 5
    Sizes = {2, 6}
    MaxNodes = 3
    MaxStray = 2
    NULL = NULL
    Wild = Wild
SPECIFICATION Spec
SYMMETRY Symmetry
CHECK_DEADLOCK FALSE
INVARIANTS
    TypeOK
    ListsSound
    BlockOwnedOnce
    LargeAccounted
    FirstAndLatest
    ReturnsUnlocked
    BaselineInv
PROPERTY
    EndsAtTheEnds
