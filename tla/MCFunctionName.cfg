SPECIFICATION MCSpec
CONSTANTS
    Numbers = {0}
    Strings <- MCStrings
    Identifiers <- MCIdentifiers
    MaxArrays = 0
    MaxItems = 0
    UINT8_MAX = 3
    Vocabularies = {"functions"}
INVARIANTS
    DeclaresItsNames
CHECK_DEADLOCK FALSE
