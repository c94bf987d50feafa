SPECIFICATION FairSpec
CONSTANTS
    r1 = r1
    r2 = r2
    r3 = r3
    r4 = r4
    None = None
    Request = {r1, r2, r3, r4}
    Demands <- MCDemands
    MaxVersion = 1
    MaxFaults = 1
INVARIANTS SomeoneWillWake OneBuildWhileCalm
PROPERTIES BoardGoesForward EveryRequestIsAnswered
CHECK_DEADLOCK FALSE
