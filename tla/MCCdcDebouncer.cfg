SPECIFICATION Spec
CONSTANTS
    a = a
    b = b
    Codigos = {a, b}
    PayloadTypes = {"supplier", "contact"}
    ElementsOf <- MCSingleElements
    MaxBufferSize = 2
    BatchSize = 1
    MaxChanges <- MCMaxChanges
    MaxLate = 1
    FlushWithinWindow = TRUE
INVARIANTS
    TypeOK
    AtMostOneFlush
    NoChangeForgotten
    WakeupPending
    CleanStopDrains
PROPERTIES
    OnlyLateBatchesRegress
    ImplementsOutbox
    ChangesAreSettled
CHECK_DEADLOCK FALSE
