CONSTANTS
    t1 = t1
    t2 = t2
    t3 = t3
    t4 = t4
    Tries <- MCTries
    MaxTry = 3
    MaxNesting = 8
SPECIFICATION Spec
SYMMETRY Symmetry
INVARIANTS
    IInv
    HandlersMatch
    NextThrowIsRight
    NoSlotLeak
PROPERTIES
    OuterHandlersKept
    ImplementsExceptions
