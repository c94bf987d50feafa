SPECIFICATION DailySpec
CONSTANTS
    Source = {s1, s2}
    Validation = {v1}
    Actor = {daily, api}
    Daily = daily
    Run = s1
    Batches <- MCBatches
    Approved = Approved
    Absent = Absent
    Torn = Torn
    OpLimit = 2
    CrashLimit = 2
INVARIANTS DecisionsTellCandidates OnlyRejectedIsRejected TransitionHasReject LedgerNamesArtifact
PROPERTY DailySettles
CHECK_DEADLOCK FALSE
