SPECIFICATION FrontSpec
CONSTANTS
    k1 = k1
    k2 = k2
    missing = missing
    bad = bad
    c1 = c1
    c2 = c2
    Callers = {c1, c2}
    Keys <- MCKeys
    Rpm <- MCRpm
    Window = 2
    Second = 2
    RequireKey = TRUE
    Groups <- MCGroups
    Feed <- MCFeed
    NotAList = missing
    BadItem = bad
    Refresh = 2
    Retry = 1
    MaxClock = 4
INVARIANTS FrontInv WithinBudget RetryAfterHolds
PROPERTIES NeverBackwards NoFetchHerd SyncIsFresh EveryCallerAnswered
