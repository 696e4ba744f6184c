SPECIFICATION Spec
CONSTANTS
    Threads = {0, 1}
    Lines = {0, 1, 8}
    Faults <- DivideAndPage
INVARIANTS
    TypeOK
    ServiceEnds
    Interruptible
    NotNested
PROPERTIES
    Served
