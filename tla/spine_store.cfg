\* StaleAfter : WaitLimit is 2 : 1, as LOCK_STALE_MS : LOCK_WAIT_MS (30 s : 15 s).
SPECIFICATION FairSpec
CONSTANTS
    Procs = {p1, p2}
    None = None
    StaleAfter = 2
    WaitLimit = 1
    HoldLimit = 1
    MaxCalls = 3
    MaxCrashes = 1
    Tasks = {t1, t2}
    Versions = {v1}
    Absent = Absent
INVARIANTS
    LockTypeOK
    DoubleHoldExplained
    UnlinkNeverFirst
    HoldersOwnTheFile
    NoLostUpdate
PROPERTIES
    NeverWedged
    ImplementsAtomicStore
