SPECIFICATION Spec
CONSTANTS
    ByteRange = 2
    Keys <- SomeKeys
    Starts <- SomeStarts
    InitialKv <- JustEndKey
    NDEBUG = TRUE
    Clients = {c1, c2}
    MaxWrites = 2
    MaxTransactions = 3
INVARIANT AcknowledgesApplied
CHECK_DEADLOCK FALSE
