\* One mutator, blocks of three lines so that holes lie between kept lines, and
\* aligned and empty objects.
\* A full space panics: no deadlock check.
CONSTANTS
    Mutator = {m1}
    Initial = {m1}
    None = None
    BLOCKS = 2
    LINES_IN_BLOCK = 3
    BYTES_IN_LINE = 2
    Layouts <- AlignedAndEmpty
    MaxObjects = 2
SPECIFICATION FairSpec
CHECK_DEADLOCK FALSE
INVARIANTS
    OutsideOnlyIfEmpty
    ObjectsDisjoint
PROPERTY
    AllocReturns
