SPECIFICATION FairSpec
CONSTANTS
    MAX_ENV_NUM = 3
    MAX_STACKS = 2
    MaxLines = 3
    Lines <- RunFg
    Syscalls = {"cputc"}
    PopAtomic = TRUE
    CtrlKeys = {}
PROPERTIES
    FgWakes
CHECK_DEADLOCK FALSE
