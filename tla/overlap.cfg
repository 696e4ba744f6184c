SPECIFICATION Spec
CONSTANTS
    MAX_PAGE_NUM = 7
    PGSIZE = 4
    Sizes = {1, 6}
    MaxLive = 3
    Pids = {1}
    StackPages = 2
    StacksPerTable = 4
    PopAtomic = TRUE
INVARIANTS
    BlocksApart
CHECK_DEADLOCK FALSE
