CONSTANTS
    r1 = r1
    r2 = r2
    r3 = r3
    p1 = p1
    p2 = p2
    Run = {r1, r2, r3}
    Process = {p1, p2}
    ProcessOf <- WorkerAndApi
    NoFile = NoFile
    MaxFaults = 2

SPECIFICATION FairSpec

INVARIANTS
    HoldersOwnTheFile
    UndisturbedExclusion

PROPERTIES
    ImplementsRevocableLock
    LeftoverIsReclaimed

CHECK_DEADLOCK FALSE
