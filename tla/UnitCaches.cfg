\* Files of two units, one good and one of twelve, and of up to three type units.
CONSTANT Files <- MCFiles
SPECIFICATION Spec
INVARIANT AnswersAreTheFiles
