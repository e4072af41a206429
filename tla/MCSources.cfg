SPECIFICATION MCSpec
CONSTANTS
    Numbers = {2}
    Strings <- MCStrings
    Identifiers <- MCIdentifiers
    MaxArrays = 0
    MaxItems = 0
    UINT8_MAX = 7
    Vocabularies = {"expressions", "statements", "recovery", "limits"}
INVARIANTS
    AcceptsPrograms
    KeepsPrecedence
    RefusesTheRest
    WellFormedCode
    NoCascade
    LinesPointAtSource
    ListingInStep
CHECK_DEADLOCK FALSE
