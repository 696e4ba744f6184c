SPECIFICATION Spec
CONSTANTS
    Names <- FourNames
    Folders = {"d"}
    Plains = {"x", "y", "z"}
    Data = {"a", "b"}
    Contents <- SomeContents
    NINODES = 2
    PAGE = 2
    ENTRIES = 3
    BITS = 4
    INODES = 8
    TOO_LARGE = 5
    MAX_DEPTH = 3
    MAX_PATH = 2
INVARIANTS
    TypeOK
    InodesExclusive
PROPERTIES
    Stores
CHECK_DEADLOCK FALSE
