SPECIFICATION FairSpec
CONSTANTS
    Numbers = {0, 1, 2}
    Strings <- MCStrings
    Identifiers <- MCIdentifiers
    Sources <- CallSources
    LoadedSources <- CompiledSources
    Program <- MCProgram
    Absent = Absent
    UINT8_MAX = 15
    VM_FRAMES_MAX = 3
    MaxSessions = 2
    MaxArrays = 0
    MaxItems = 0
PROPERTY
    ReadOnlyNeverUpdated
CHECK_DEADLOCK FALSE
