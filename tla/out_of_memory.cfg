\* Objects die between collections.
\* A full space panics: no deadlock check.
CONSTANTS
    Mutator = {m1}
    Initial = {m1}
    None = None
    BLOCKS = 2
    LINES_IN_BLOCK = 2
    BYTES_IN_LINE = 2
    Layouts <- SmallAndLarge
    MaxObjects = 2
SPECIFICATION Spec
CHECK_DEADLOCK FALSE
INVARIANT
    OutOfMemoryIsReal
