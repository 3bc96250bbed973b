SPECIFICATION Spec
CONSTANTS
    t1 = t1
    t2 = t2
    r1 = r1
    r2 = r2
    b1 = b1
    s1 = s1
    u1 = u1
    Teams <- MCNoTeams
    Personal = Personal
    Legacy = Personal
    Absent = Absent
    NoUsage = NoUsage
    NoSnapshot = NoSnapshot
    NoAnswer = NoAnswer
    NoOne = NoOne
    PollLoop = PollLoop
    Readers <- MCOneReader
    BgPolls = {}
    Savers <- MCSavers
    Updaters <- MCUpdaters
    MaxCli = 1
    Crashes = FALSE
    LostReply = TRUE
    MixedConfig = TRUE
PROPERTIES
    RequestsAnswered
    SnapshotReturns
