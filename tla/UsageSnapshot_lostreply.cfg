SPECIFICATION Spec
CONSTANTS
    t1 = t1
    t2 = t2
    r1 = r1
    r2 = r2
    b1 = b1
    s1 = s1
    u1 = u1
    Teams <- MCTeams
    Personal = Personal
    Legacy = t1
    Absent = Absent
    NoUsage = NoUsage
    NoSnapshot = NoSnapshot
    NoAnswer = NoAnswer
    NoOne = NoOne
    PollLoop = PollLoop
    Readers <- MCOneReader
    BgPolls <- MCBgPolls
    Savers <- MCSavers
    Updaters <- MCUpdaters
    MaxCli = 1
    Crashes = FALSE
    LostReply = TRUE
    MixedConfig = FALSE
INVARIANTS
    FailedSaveKeepsSelection
