SPECIFICATION Spec
CONSTANTS
    p1 = p1
    e1 = e1
    Cursor = Cursor
    Augment = Augment
    All = All
    Defaults <- MCDefaults
    Extra <- MCExtra
    Configs <- MCConfigs
    Faults <- MCDeadline
INVARIANTS
    PausedStaysOut
PROPERTIES
    UnverifiedCursorOut
    FailureEvictsAtMost
