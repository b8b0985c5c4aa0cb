SPECIFICATION Spec
CONSTANTS
    p1 = p1
    p2 = p2
    f1 = f1
    f2 = f2
    Procs <- TwoProcs
    HeldOut <- TwoFiles
    MaxEdition = 1
    MaxSize = 1
    MaxCommands = 3
    MaxMoves = 2
    MaxEvents = 4
SYMMETRY Symmetric
INVARIANTS
    NothingUndone
PROPERTIES
    GateIsFresh
    EditsAreSeen
    NoFalseAlarm
CHECK_DEADLOCK FALSE
