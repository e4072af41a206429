SPECIFICATION ReplFairSpec
CONSTANTS
    Numbers = {0, 1, 2}
    Strings <- MCStrings
    Identifiers <- MCIdentifiers
    Sources <- CallSources
    LoadedSources <- CompiledSources
    Program <- MCProgram
    Absent = Absent
    UINT8_MAX = 6
    VM_FRAMES_MAX = 3
    MaxSessions = 5
    MaxArrays = 0
    MaxItems = 0
INVARIANTS
    TypeOK
    WindowsMatch
    CalleeInSlotZero
    ErrorsDoNotEscape
    StackFits
    ExitTells
PROPERTIES
    CallersUntouched
    ConstantsKept
    ComesBack
CHECK_DEADLOCK FALSE
