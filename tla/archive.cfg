SPECIFICATION Spec
CONSTANTS
    t1 = t1
    t2 = t2
    t3 = t3
    a1 = a1
    a2 = a2
    Tasks <- TwoTasks
    NoTask = NoTask
    Archives <- TwoArchives
    MaxRev = 3
    MaxEvents = 5
    MaxKills = 1
SYMMETRY Symmetric
INVARIANTS
    RecordsKept
    EventsKept
    EventsOnce
    NoDanglingEdges
CHECK_DEADLOCK FALSE
