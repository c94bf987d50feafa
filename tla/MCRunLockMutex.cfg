CONSTANTS
    r1 = r1
    r2 = r2
    r3 = r3
    p1 = p1
    p2 = p2
    Run = {r1, r2}
    Process = {p1, p2}
    ProcessOf <- TwoWorkers
    NoFile = NoFile
    MaxFaults = 0

SPECIFICATION Spec

INVARIANTS
    MutualExclusion

CHECK_DEADLOCK FALSE
