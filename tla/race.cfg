SPECIFICATION Spec
CONSTANTS
    MAX_ENV_NUM = 4
    MAX_STACKS = 3
    MaxLines = 4
    Lines <- RunKill
    Syscalls = {}
    PopAtomic = FALSE
    CtrlKeys = {}
INVARIANTS
    NewSlotUnused
