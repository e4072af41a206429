CONSTANTS
    k1 = k1
    k2 = k2
    k3 = k3
    Null = Null
    Mark = Mark
    NoKey = NoKey
    Absent = Absent
    Values = {Null, Mark}
    Keys <- MCKeys3
    Hash <- MCHash3
    MIN_SIZE = 3
    MaxCapacity = 6
    MaxCount = 3
SPECIFICATION FairSpec
INVARIANTS
    TypeOK
    ProbeEnds
    Reachable
    UniqueKeys
    LoadBounded
    ShortcutSound
PROPERTIES
    ImplementsMap
    SetReturns
CHECK_DEADLOCK FALSE
