SPECIFICATION Spec
CONSTANTS
    c1 = c1
    c2 = c2
    r1 = r1
    r2 = r2
    Codes <- MCCodes
    Request <- MCRequest
    Capital = 4
    Prices <- MCPrices
    MaxPositions = 1
    Memory = 1
    LastDay = 4
    Window = 1
    MaxIntents = 3
    MaxRequests = 3
    MaxOverlaps = 0
INVARIANT OlderIntentWins
CHECK_DEADLOCK FALSE
