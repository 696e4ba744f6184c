SPECIFICATION Spec
CONSTANTS
    MAX_PAGE_NUM = 6
    PGSIZE = 3
    Sizes = {1, 4}
    MaxLive = 3
    Pids = {1, 2}
    StackPages = 2
    StacksPerTable = 4
    PopAtomic = TRUE
CONSTRAINT
    MisledBound
INVARIANTS
    TypeOK
    PagesExclusive
    StacksReclaimed
    BlocksTracked
    ChunksTile
    BlocksDisjoint
PROPERTIES
    Allocates
CHECK_DEADLOCK FALSE
