SPECIFICATION Spec
SYMMETRY Symmetry
CONSTANTS
    x = x
    y = y
    Words <- MCWords
    Names <- PlainNames
    Kinds <- AllKinds
    MaxDecls = 4
    MaxScopes = 3
    MaxFrames = 2
INVARIANTS
    VisibleNamesDiffer
    FlatNamesAreRight
    OnlyDuplicatesReported
