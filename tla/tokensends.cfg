CONSTANTS
    c1 = c1
    b1 = b1
    b2 = b2
    l1 = l1
    NoTask = NoTask
    Callers = {c1}
    Background = {b1, b2}
    Reloads = {l1}
    Sources = {"accounts_dir"}
    Permits = 1
    MaxVersion = 1
    MaxDrops = 0
    MaxCrashes = 0
SPECIFICATION FairSpec
PROPERTIES EveryRefreshEnds
CHECK_DEADLOCK FALSE
