SPECIFICATION Spec
CONSTANTS
    SourceRows = {r1, r2}
    Keys = {k1, k2}
    Values = {v1, v2}
    MaxLog = 5
    MaxCopies = 2
    Twins = FALSE
    Moves = FALSE
SYMMETRY Symmetry
INVARIANTS
    TypeOK
    NothingMissing
    ExactUnlessDisturbed
CHECK_DEADLOCK FALSE
