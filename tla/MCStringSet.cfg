SPECIFICATION Spec
CONSTANTS
    x1 = x1
    x2 = x2
    y1 = y1
    y2 = y2
    z1 = z1
    x = x
    y = y
    z = z
    Objects <- MCObjects
    Contents <- MCContents
    Chars <- MCChars
    HashOf <- MCHashOf
    NULL = NULL
    MIN_SIZE = 3
    MaxCapacity = 6
    MaxCount = 4
INVARIANTS
    TypeOK
    Deduplicated
    StaysInterned
PROPERTIES
    ImplementsTable
    ImplementsPool
CHECK_DEADLOCK FALSE
