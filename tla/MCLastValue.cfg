SPECIFICATION Spec
CONSTANTS
    Numbers = {0, 1, 2}
    Strings <- MCStrings
    Identifiers <- MCIdentifiers
    Sources <- BlockSources
    LoadedSources <- CompiledSources
    Program <- MCProgram
    Absent = Absent
    UINT8_MAX = 15
    VM_FRAMES_MAX = 3
    MaxSessions = 2
    MaxArrays = 0
    MaxItems = 0
INVARIANT
    LastValueIsLastPushed
CHECK_DEADLOCK FALSE
