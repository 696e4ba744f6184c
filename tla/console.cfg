SPECIFICATION Spec
CONSTANTS
    MAX_ENV_NUM = 3
    MAX_STACKS = 2
    MaxLines = 4
    Lines <- FgLines
    Syscalls = {"cputc", "cgetc", "destroy"}
    PopAtomic = TRUE
    CtrlKeys = {"ctrl-B"}
INVARIANTS
    NoDoubleFree
    MapSound
CHECK_DEADLOCK FALSE
