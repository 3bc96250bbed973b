SPECIFICATION Spec
CONSTANTS
    None = None
    ResetCredits = "reset-credits"
    Month = 37
    Kinds <- MCKinds
    Ids <- MCIds
    Entries <- MCEntries
    Interval = 1
    MaxTime = 4
CHECK_DEADLOCK FALSE
INVARIANTS
    FreshIsRecent
    ExhaustionStands
    NamesStay
    OwnPace
    PaceTells
    PartialTold
