SPECIFICATION Spec
CONSTANTS
    MAX_ENV_NUM = 4
    MAX_STACKS = 3
    MaxLines = 4
    Lines <- JobLines
    Syscalls = {"cputc", "cgetc", "destroy"}
    PopAtomic = TRUE
    CtrlKeys = {}
INVARIANTS
    TypeOK
    RingSound
    LaunchOrder
    NoDoubleFree
    FreeUnreachable
    MapSound
    ContextSound
PROPERTIES
    JobsControlled
