SPECIFICATION Spec
CONSTANTS
    MaxChanges = 3
    MaxFailures = 2
CHECK_DEADLOCK FALSE
INVARIANTS
    Awaited
    NotOrphaned
PROPERTIES
    NeverBack
    AckedIsShown
