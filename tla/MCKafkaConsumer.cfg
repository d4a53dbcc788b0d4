SPECIFICATION Spec
CONSTANTS
    Topics = {"ctercero", "gproveed"}
    Partitions <- MCPartitions
    k1 = k1
    k2 = k2
    Keys = {k1, k2}
    Rows <- MCRows
    MaxLog <- MCMaxLog
    MaxFaults = 2
    MaxReSnapshots = 1
INVARIANTS
    TypeOK
    CaughtUpStoreIsExact
    SavedIsHandled
    CaughtUpIsLive
PROPERTIES
    OffsetsMoveInOrder
    EventuallyExact
CHECK_DEADLOCK FALSE
