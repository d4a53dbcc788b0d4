SPECIFICATION BulkSpec
CONSTANTS
    Callers = {"c1", "c2"}
    Items = {1, 2, 3}
    BatchSize = 2
INVARIANTS
    BulkTypeOK
    OneOperation
    ReportsAreTrue
PROPERTIES
    CallsAreAnswered
CHECK_DEADLOCK FALSE
