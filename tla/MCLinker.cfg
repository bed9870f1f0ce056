SPECIFICATION Spec
CONSTANTS
    Files = {f, g, h}
    Paths = {p, q, r}
    EntryPath = p
    Ids = {m, n}
    Names = {"x"}
    None = None
    MaxImports = 2
    MaxChanges = 1
SYMMETRY Symmetric
INVARIANTS
    IInv
    SuccessIsComplete
    ImportsExist
    FailureHasReason
