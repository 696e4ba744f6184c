SPECIFICATION FairSpec
CONSTANTS
    MAX_ENV_NUM = 3
    MAX_STACKS = 2
    MaxLines = 3
    Lines <- JobLines
    Syscalls = {"cputc", "cgetc", "destroy"}
    PopAtomic = TRUE
    CtrlKeys = {}
PROPERTIES
    RoundRobin
    ZombiesReaped
