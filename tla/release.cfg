SPECIFICATION FairSpec
CONSTANTS
    t1 = t1
    t2 = t2
    Tasks <- AllTasks
    Modes <- Ways
    PerSecond = 2
    MaxPolls = 1
    MaxRev = 1
    MaxClock = 1
    MaxFaults = 2
INVARIANTS
    NotedOnce
    MarkedIsNoted
    MarkedIsTagged
PROPERTIES
    RunEnds
CHECK_DEADLOCK FALSE
