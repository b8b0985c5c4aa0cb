SPECIFICATION FairSpec
CONSTANTS
    t1 = t1
    t2 = t2
    Tasks = {t1}
    NoTask = NoTask
    Parallel = 1
    MaxRounds = 2
    PlanRequired = TRUE
    BreakTest = TRUE
    ReviewRequired = TRUE
    Bindings = {{"planner", "reviewer", "e2e"}, {}}
    Faults = {"push", "commit", "reader", "unnamed", "crash", "vanish", "done", "block"}
    MaxRev = 2
    MaxSweeps = 4
    MaxFaults = 2
INVARIANTS
    
    MergedIsReviewed
    MergedOnce
    SweepSettles
PROPERTIES
    SweepEnds
CHECK_DEADLOCK FALSE
