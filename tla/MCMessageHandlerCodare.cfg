CONSTANTS
    Contents <- MCContents
    MaxRows = 2
    MaxOdd = 1
SPECIFICATION MCSpec
PROPERTY OnlyRegisteredCodare
CHECK_DEADLOCK FALSE
