SPECIFICATION MCSpec
CONSTANTS
    n = n
    len = len
    Scalars <- MCScalars
    Natives <- MCNatives
    MinCapacity = 1
    PRINT_MAX_COLLECTIONS = 2
    MaxDepth = 3
    MaxArrays = 5
    MaxCount = 2
    MaxItems = 5
INVARIANTS
    TypeOK
    EqualIsBisimilar
    OverflowsOnlyOnDeep
    PrintsAllOnce
PROPERTIES
    WalksEnd
CHECK_DEADLOCK FALSE
