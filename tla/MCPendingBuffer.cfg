SPECIFICATION Spec
CONSTANTS
    a = a
    b = b
    c = c
    Codigos = {a, b, c}
    PayloadTypes = {"supplier", "contact"}
    MAX_RETRIES = 2
    MAX_PENDING_SIZE = 2
INVARIANTS
    TypeOK
    PassesDoNotOverlap
    WithinCapacity
    PassKeepsItsPlace
PROPERTIES
    RequestsLeaveForAReason
    EntriesKeepTheirTurn
    EntriesLeave
CHECK_DEADLOCK FALSE
