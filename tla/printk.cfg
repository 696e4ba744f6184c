SPECIFICATION Spec
CONSTANTS
    W = 8
    SIZE = 16
    Threads <- TwoThreads
    Calls <- ShellAndProcess
INVARIANTS
    TypeOK
    StaysInText
    ReadsBack
CHECK_DEADLOCK FALSE
