\* A position-independent, recursive program with rows half a word apart,
\* and a user who sets breakpoints where there are some.
CONSTANTS
    even = even
    odd = odd
    Trap = trap
    Word = 4
    Addr <- PieAddr
    Sites <- PieSites
    Code <- MCCode
    Text <- PieText
    Instr <- PieInstr
    Entry = 100
    Exited <- MCExited
    MaxDepth = 3
    UserSites <- PieUserSites
    Table <- MCTable
    Unit <- MCUnit
    Functions <- MCFunctions
    Load = 100
    Garbage <- PieGarbage
    Repeats = TRUE
    MaxSignals = 0
SPECIFICATION Spec
INVARIANTS
    StopsAreExplained
    PromptIsClean
    NoForeignCells
PROPERTIES
    Transparent
