CONSTANTS
    c1 = c1
    b1 = b1
    b2 = b2
    l1 = l1
    NoTask = NoTask
    Callers = {c1}
    Background = {b1}
    Reloads = {l1}
    Sources = {"accounts_dir", "pool_file", "providers_json"}
    Permits = 1
    MaxVersion = 2
    MaxDrops = 1
    MaxCrashes = 1
SPECIFICATION Spec
INVARIANTS TokensTypeOK SingleFlight NoStampede SavedWhenIdle
CHECK_DEADLOCK FALSE
