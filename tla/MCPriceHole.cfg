SPECIFICATION Spec
CONSTANTS
    LastDay = 4
    Trading <- MCNoHoliday
    Attempts = 2
    MaxRetries = 1
    MaxEvents = 0
INVARIANT FreshMeansCovered
CHECK_DEADLOCK FALSE
