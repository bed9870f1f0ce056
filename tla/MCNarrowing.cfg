SPECIFICATION Spec
CONSTANTS
    Names = {x, y}
    Values = {a, b}
    Null = Null
    LossyAssign = FALSE
    MaxBlocks = 3
    MaxCopies = 2
SYMMETRY Symmetry
INVARIANTS
    IInv
    NullStaysOptional
    ReadsAgree
    ProvenIsDefinite
