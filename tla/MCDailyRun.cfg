SPECIFICATION Spec
CONSTANTS
    Run = {r1, r2}
    LastDay = 1
    Code = {c1, c2}
    Eligible = {c1}
    TradingDays = {1}
    SampleLimit = 2
    FileCount = 2
    InitialRows <- MCInitialRows
    StartLimit = 2
    FeedLimit = 1
SYMMETRY Interchangeable
INVARIANTS TradesHaveData LabReadsPublication OutputsDescend PublishedHasData
PROPERTY SharesStay
CHECK_DEADLOCK FALSE
