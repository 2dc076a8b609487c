\* Lines of up to three characters on a row of three; a history of two, one
\* command and the line being typed.  The Nul stands for the bytes that do not
\* take one column.
SPECIFICATION Spec
CONSTANTS
    Chars = {a, sp, nul}
    Space = sp
    Nul = nul
    Printable = {a, sp}
    Limit = 3
    MaxHistory = 2
    Columns = 3
    Pointers = {1, 2, 3, 4}
    Inputs <- MCInputs
    Free = Free
    Null = Null
INVARIANTS
    TypeOK
    HistoryIsOwned
    ScreenShowsBuffer
PROPERTIES
    DraftIsKept
