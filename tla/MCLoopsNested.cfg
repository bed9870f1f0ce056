SPECIFICATION LoopsSpec
CONSTANTS
    LoopCount = 2
    MaxLen = 2
    NestedForOf = TRUE
INVARIANT
    ElementsInOrder
