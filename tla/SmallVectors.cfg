\* Two vectors with room for two elements, and one block more than they can hold.
SPECIFICATION Spec
CONSTANTS
    Vectors = {v1, v2}
    Values = {x, y}
    MinCap = 2
    MaxLen = 5
    Blocks = {1, 2, 3}
    None = None
    Junk = Junk
SYMMETRY Symmetry
INVARIANTS
    TypeOK
    BlocksAreOwnedOnce
PROPERTIES
    ImplementsSequences
