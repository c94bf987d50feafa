SPECIFICATION Spec
CONSTANTS
    N = 3
    Publish = 1
    Configs <- MCConfigs
INVARIANTS
    RanOnOkAncestors
    GateFollowsThisRunsPublish
    BlockedHasCause
    LedgerTellsTheWorst
PROPERTY ImplementsDagRun
CHECK_DEADLOCK FALSE
