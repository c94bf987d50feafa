SPECIFICATION Spec
CONSTANTS
    c1 = c1
    c2 = c2
    Codes <- MCCodes
    Last = 6
    BothDays = 0
    Scores <- MCScores
    Elite <- MCElite
    MaxPositions = 1
    Memories <- MCMemories
    Reserve = 2
    Rebalance = 2
    MinDays = 2
    Window <- MCWindow
    Hits <- MCHits
    Extra = 1
CONSTRAINT Bound
SYMMETRY Symmetry
PROPERTY ExitRetried
