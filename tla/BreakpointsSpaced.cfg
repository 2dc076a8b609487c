\* x86-64: a word of 8 cells, breakpoints a word or more apart, none set twice.
CONSTANTS
    even = even
    odd = odd
    Trap = trap
    Zero = zero
    KeepsRest = TRUE
    Word = 8
    Addr <- SpacedAddr
    Sites <- SpacedSites
    WriteSites <- SpacedWrites
    Code <- MCCode
    Text <- MCText
SPECIFICATION CarefulSpec
INVARIANTS
    TypeOK
    TrapsAreExact
PROPERTY ImplementsPlantedSet
