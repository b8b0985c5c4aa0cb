SPECIFICATION DriverSpec
CONSTANTS
    t1 = t1
    t2 = t2
    Tasks = {t1, t2}
    Sessions = {clock}
    Clock = clock
    NoTask = NoTask
    Notes = {n1}
    MaxRev = 1
    Commands <- UnattendedCommands
    Overlaps <- UnattendedOverlaps
    Cadence = "milestone-boundary"
    DirectorRequired = TRUE
    Parallel = FALSE
    Queue <- TwoInOrder
    After <- Chain
    MaxIter = 2
    MaxRuns = 2
    UntilBlocked = FALSE
INVARIANTS
    DoneAfterDeps
PROPERTIES
    QueueDrained
CHECK_DEADLOCK FALSE
