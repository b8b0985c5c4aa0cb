SPECIFICATION LifecycleSpec
CONSTANTS
    Tasks = {t1}
    Sessions = {s1}
    NoTask = NoTask
    Notes = {n1}
    MaxRev = 1
    Commands <- Everything
    Overlaps <- ByAgents
    Cadence = "per-task"
    DirectorRequired = TRUE
    Parallel = FALSE
INVARIANTS
    TypeOK
    CorrectionsSurvive
    ReopenedAwaitsRework
    CriteriaUnlessReblocked
    BlockedCanResume
PROPERTIES
    NoVerifyOnOpenFork
    DoneOnApprovedTest
