CONSTANTS
    Contents <- MCContents
    MaxRows = 2
    MaxOdd = 1
SPECIFICATION MCSpec
INVARIANTS
    TypeOK
    ChangesAreWanted
    SyncMatchesChanges
    DeleteReachesSynced
CHECK_DEADLOCK FALSE
