\* A lookup in the last row of the table.
CONSTANTS
    Programs <- PlainPrograms
    Queries = {0, 2}
    Indices = {}
    MinLength = 2
    MaxOps = 2
    OpcodeBase = 13
    LineBase <- MCLineBase
    LineRange = 4
    DefaultIsStmt = TRUE
    Header = 1
    Lines = 8
    MaxWalks = 1
SPECIFICATION Spec
CHECK_DEADLOCK FALSE
INVARIANT LookupFindsTheRow
