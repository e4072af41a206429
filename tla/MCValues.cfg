SPECIFICATION Spec
CONSTANTS
    Numbers = {0, 1, 2}
    Strings <- MCStrings
    Identifiers <- MCIdentifiers
    Sources <- ValueSources
    LoadedSources <- CompiledSources
    Program <- MCProgram
    Absent = Absent
    UINT8_MAX = 7
    VM_FRAMES_MAX = 2
    MaxSessions = 3
    MaxArrays = 3
    MaxItems = 3
INVARIANTS
    WindowsMatch
    ErrorsDoNotEscape
CHECK_DEADLOCK FALSE
