SPECIFICATION Spec
CONSTANTS
    COLS = 4
    ROWS = 2
    Codes = {48, 14, 15, 28, 59, 29, 157, 42, 170, 54}
    MaxKeys = 5
    Prompt <- ShellPrompt
    Replies <- ShellReplies
    Outputs = {"p", "LF"}
    MaxOutputs = 1
    PutAtomic = TRUE
INVARIANTS
    TypeOK
    CursorOnScreen
    WhatYouSee
    ModifiersFollow
PROPERTIES
    TextStays
CHECK_DEADLOCK FALSE
