\* `next` and `finish` where rows are closer than a word.
CONSTANTS
    even = even
    odd = odd
    Trap = trap
    Zero = zero
    KeepsRest = TRUE
    Word = 3
    Addr <- MCAddr
    Sites <- MCSites
    WriteSites = {}
    UserSites <- CloseUsers
    Rows <- CloseRows
    Returns <- CloseReturns
    Code <- MCCode
    Text <- MCText
SPECIFICATION TSpec
INVARIANTS
    LeavesNoTrace
    TInv
