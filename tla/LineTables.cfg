\* Two walks, lookups or file requests, over every program of MCPrograms.
CONSTANTS
    Programs <- MCPrograms
    Queries = {0, 3}
    Indices = {1, 2, 3}
    MinLength = 2
    MaxOps = 2
    OpcodeBase = 13
    LineBase <- MCLineBase
    LineRange = 4
    DefaultIsStmt = TRUE
    Header = 1
    Lines = 8
    MaxWalks = 2
SPECIFICATION Spec
CHECK_DEADLOCK FALSE
INVARIANTS
    TypeOK
    RowsAreStandard
    WalkIsFindAddress
    FilesAreAddedOnce
    FileIsFound
