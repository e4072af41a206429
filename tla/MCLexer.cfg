SPECIFICATION Spec
CONSTANTS
    Characters <- MCCharacters
    Sources <- MCSources
    MaxCharacters = 5
    MaxParts = 2
INVARIANTS
    TypeOK
    AgreesWithScanner
PROPERTIES
    ImplementsLexemes
    Scanned
CHECK_DEADLOCK FALSE
