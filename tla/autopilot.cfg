SPECIFICATION FairSpec
CONSTANTS
    Runs = {p1, p2}
    ReviewerGate = FALSE
    HasVerify = TRUE
    Retro = TRUE
    MaxRounds = 1
    MaxChains = 1
    Commands = {"spec", "lock", "unblock"}
    MaxFiled = 1
    MaxIssues = 1
    MaxTasks = 2
    MaxMoves = 2
INVARIANTS
    OverlapExplained
    ImportedOnce
    MergedIsBacked
PROPERTIES
    ScheduleGoesOn
