SPECIFICATION Spec
CONSTANTS
    MaxVersion = 3
    MaxStrays = 1
INVARIANTS
    DeliveryTypeOK
    StaleForAReason
    OvertakenInCompany
PROPERTIES
    DemandsArrive
CHECK_DEADLOCK FALSE
