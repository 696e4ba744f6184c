SPECIFICATION Spec
CONSTANTS
    SIZE = 9
    Lines <- ShellLines
    Behind <- Memories
INVARIANTS
    TypeOK
    ParsesOwnLine
    StaleOnlyAdds
PROPERTIES
    WritesOwnLine
