SPECIFICATION Spec
CONSTANTS
    c1 = c1
    c2 = c2
    r1 = r1
    r2 = r2
    Codes <- MCCodes
    Request <- MCRequest
    Capital = 4
    Prices <- MCPrices
    MaxPositions = 1
    Memory = 1
    LastDay = 3
    Window = 1
    MaxIntents = 2
    MaxRequests = 4
    MaxOverlaps = 1
CONSTRAINT Bound
SYMMETRY Symmetry
INVARIANTS TypeOK BooksBalance OnePerRequest NoneOverdue
PROPERTY LossNeedsOverlap SoldLater
CHECK_DEADLOCK FALSE
