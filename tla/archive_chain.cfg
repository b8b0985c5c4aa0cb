SPECIFICATION Spec
CONSTANTS
    t1 = t1
    t2 = t2
    t3 = t3
    a1 = a1
    a2 = a2
    Tasks <- ThreeTasks
    NoTask = NoTask
    Archives <- OneArchive
    MaxRev = 2
    MaxEvents = 6
    MaxKills = 0
INVARIANTS
    ReferencedIsKept
CHECK_DEADLOCK FALSE
