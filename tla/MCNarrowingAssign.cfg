SPECIFICATION Spec
CONSTANTS
    Names = {x, y}
    Values = {a, b}
    Null = Null
    LossyAssign = TRUE
    MaxBlocks = 3
    MaxCopies = 2
SYMMETRY Symmetry
INVARIANT
    ReadsAgree
