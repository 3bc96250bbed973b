SPECIFICATION Spec
CONSTANTS
    q1 = q1
    q2 = q2
    q3 = q3
    NoOne = NoOne
    Requests <- MCTwoRequests
    MaxReports = 3
    MaxSaves = 1
CHECK_DEADLOCK FALSE
INVARIANTS
    LiveRequestsSurvive
    FallbackIsCurrent
    FallbackInScope
    FetchedOnce
PROPERTIES
    RequestsAnswered
