\* The bytecode of trees, and short byte sequences, on ten-bit words.
CONSTANTS
    WordBits = 10
    Exprs <- MCExprs
    FrameBases <- MCFrameBases
    Arguments <- MCArguments
    Registers <- MCRegisters
    Memory <- MCMemory
    LoadAddress = 0
    AddrSize = 8
    CfaRegister = 6
    CfaOffset = 16
SPECIFICATION Spec
CHECK_DEADLOCK FALSE
INVARIANTS
    TypeOK
    ResultIsValue
PROPERTIES
    ReadsStayInCode
    EvaluationEnds
