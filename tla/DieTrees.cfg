\* The debugging information of one program, in thirty-six encodings.
CONSTANTS
    WordBits  = 16
    Documents <- MCDocuments
    Questions <- MCQuestions
    Names     <- MCNames
    Accept    <- MCAccept
SPECIFICATION Spec
INVARIANTS
    ReadsAreTheTree
    AnswersAreTheProgram
    IndexAnswersChild
CHECK_DEADLOCK FALSE
