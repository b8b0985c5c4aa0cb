SPECIFICATION FairDriverSpec
CONSTANTS
    t1 = t1
    t2 = t2
    Tasks = {t1}
    Sessions = {clock, h}
    Clock = clock
    NoTask = NoTask
    Notes = {n1}
    MaxRev = 0
    Commands <- DirectedCommands
    Overlaps <- DirectedOverlaps
    Cadence = "none"
    DirectorRequired = FALSE
    Parallel = FALSE
    Queue <- One
    After <- Alone
    MaxIter = 2
    MaxRuns = 2
    UntilBlocked = TRUE
PROPERTIES
    NoDoubleRun
    RunTerminates
CHECK_DEADLOCK FALSE
