SPECIFICATION Spec
CONSTANTS
    ByteRange = 2
    Keys <- SomeKeys
    Starts <- SomeStarts
    InitialKv <- JustEndKey
    NDEBUG = FALSE
    Clients = {c1, c2}
    MaxWrites = 2
    MaxTransactions = 3
INVARIANTS FirstCommitterWins ListsPrefix
PROPERTY ImplementsStore
SYMMETRY ClientSymmetry
CHECK_DEADLOCK FALSE
