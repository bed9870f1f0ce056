SPECIFICATION Spec
CONSTANTS
    Constructs = {"loop", "if", "case", "try", "catch", "function", "exportFunction"}
    MaxNesting = 4
INVARIANTS
    DepthsAgree
    NoFalseAlarm
    JumpsToOwnLoop
