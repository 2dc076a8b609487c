\* One program in four formats, whole and with each of eleven defects.
CONSTANTS
    WordBits = 16
    Images <- MCImages
    Names  <- MCNames
    Numbered = {3, 5}
SPECIFICATION Spec
INVARIANT AnswersAreTheImages
CHECK_DEADLOCK FALSE
