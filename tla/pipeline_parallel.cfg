SPECIFICATION FairSpec
CONSTANTS
    t1 = t1
    t2 = t2
    Tasks <- TwoTasks
    NoTask = NoTask
    Parallel = 2
    MaxRounds = 0
    PlanRequired = FALSE
    BreakTest = TRUE
    ReviewRequired = TRUE
    Bindings = {{"planner", "reviewer"}}
    Faults = {"crash"}
    MaxRev = 1
    MaxSweeps = 2
    MaxFaults = 1
SYMMETRY Symmetric
INVARIANTS
    NoWorkOfOthersUnlessProbed
CHECK_DEADLOCK FALSE
