SPECIFICATION LifecycleSpec
CONSTANTS
    Tasks = {t1}
    Sessions = {s1}
    NoTask = NoTask
    Notes = {n1}
    MaxRev = 0
    Commands <- RaiseCommands
    Overlaps <- Answers
    Cadence = "none"
    DirectorRequired = FALSE
    Parallel = FALSE
INVARIANTS
    CorrectionsSurvive
