SPECIFICATION Spec
CONSTANTS
    c1 = c1
    c2 = c2
    Codes <- MCCodes
    Last = 7
    BothDays = 4
    Scores <- MCScores
    Elite <- MCElite
    MaxPositions = 1
    Memories <- MCMemories
    Reserve = 2
    Rebalance = 2
    MinDays = 2
    Window <- MCWindow
    Hits <- MCHits
    Extra = 1
CONSTRAINT Bound
SYMMETRY Symmetry
INVARIANTS OnePlace BoughtInTime RoundTripsApart WeaknessExits
PROPERTIES ConfirmedByHits ObservedFirst ImplementsTradeBook
