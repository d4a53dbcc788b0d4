SPECIFICATION Spec
CONSTANTS
    Senders = {"flush", "retry"}
    Shared = "shared"
    Timeout = 1
    Margin = 2
    Lifetime = 4
    MaxTokens = 3
    MaxTime = 5
INVARIANTS
    TypeOK
    RefusedOnlyIfRevoked
    RetryIsNewer
PROPERTIES
    EveryRequestEnds
CHECK_DEADLOCK FALSE
