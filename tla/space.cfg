\* Two mutators share two blocks of two lines.
\* A full space panics: no deadlock check.
CONSTANTS
    Mutator = {m1, m2}
    Initial = {m1, m2}
    None = None
    BLOCKS = 2
    LINES_IN_BLOCK = 2
    BYTES_IN_LINE = 2
    Layouts <- SmallAndLarge
    MaxObjects = 2
SPECIFICATION Spec
CHECK_DEADLOCK FALSE
SYMMETRY Symmetry
INVARIANTS
    TypeOK
    BlocksConserved
    RegionOwned
    ObjectsDisjoint
    LiveLinesKept
    SpaceInv
