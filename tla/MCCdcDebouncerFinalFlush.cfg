SPECIFICATION Spec
CONSTANTS
    a = a
    b = b
    Codigos = {a, b}
    PayloadTypes = {"supplier", "contact"}
    ElementsOf <- MCElementsOf
    MaxBufferSize = 2
    BatchSize = 2
    MaxChanges <- MCMaxChanges
    MaxLate = 1
    FlushWithinWindow = TRUE
INVARIANTS
    FinalFlushKeepsAll
CHECK_DEADLOCK FALSE
