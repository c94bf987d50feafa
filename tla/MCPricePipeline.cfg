SPECIFICATION FairSpec
CONSTANTS
    LastDay = 4
    Trading <- MCTrading
    Attempts = 2
    MaxRetries = 1
    MaxEvents = 1
INVARIANTS HonestExit HoleIsOnRecord NoIntradayBars
PROPERTY EveryDayIsTried
CHECK_DEADLOCK FALSE
