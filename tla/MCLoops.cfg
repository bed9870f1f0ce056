SPECIFICATION LoopsSpec
CONSTANTS
    LoopCount = 3
    MaxLen = 2
    NestedForOf = FALSE
INVARIANTS
    ElementsInOrder
PROPERTIES
    NoneSkipped
    Terminates
