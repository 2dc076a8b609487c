\* Commands on a program whose rows are a word apart, a signal among them.
CONSTANTS
    even = even
    odd = odd
    Trap = trap
    Word = 2
    Addr <- MCAddr
    Sites <- MCSites
    Code <- MCCode
    Text <- MCText
    Instr <- MCInstr
    Entry = 0
    Exited <- MCExited
    MaxDepth = 3
    UserSites <- MCUserSites
    Table <- MCTable
    Unit <- MCUnit
    Functions <- MCFunctions
    Load = 0
    Garbage <- MCGarbage
    Repeats = FALSE
    MaxSignals = 1
SPECIFICATION Spec
INVARIANTS
    TypeOK
    StopsAreExplained
    ContinueMakesProgress
    FinishReturns
    NextStaysInFrame
PROPERTIES
    Transparent
    ImplementsTemporaries
    NoBreakpointMissed
    CommandsReturn
