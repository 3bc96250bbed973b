SPECIFICATION Spec
CONSTANTS
    a = a
    b = b
    None = None
    Absent = Absent
    Unusable = Unusable
    NoBase = NoBase
    Accounts <- MCAccounts
    Credentials <- MCCredentials
    MaxEvents = 3
    PageSize = 2
    MaxPages = 2
    PageLengths <- MCPageLengths
CHECK_DEADLOCK FALSE
INVARIANTS
    OneAccount
    BaseAccount
    PinnedAccount
    ExplicitStays
    StaleFallsThrough
    TeamScoped
    OwnRow
    DailyComplete
PROPERTIES
    LookupEnds
