SPECIFICATION Spec
CONSTANTS
    a = a
    b = b
    Codigos = {a, b}
    PayloadTypes = {"supplier", "contact"}
    ElementsOf <- MCElementsOf
    MaxBufferSize = 2
    BatchSize = 2
    MaxChanges <- MCMaxChanges
    MaxLate = 1
    FlushWithinWindow = FALSE
PROPERTIES
    ChangesAreSettled
CHECK_DEADLOCK FALSE
