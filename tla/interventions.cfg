CONSTANTS
    a1 = a1
    a2 = a2
    a3 = a3
    r1 = r1
    r2 = r2
    r3 = r3
    NoAccount = NoAccount
    Accounts = {a1, a2, a3}
    Registered = {a1, a2}
    Ids <- MCIds
    IdOf <- MCIdOf
    Models = {"usage"}
    FreeModels = {}
    UsageModels = {"usage"}
    MaxInFlight = 1
    KillAfter = 1
    QuotaAware = TRUE
    Requests = {r1, r2}
    Streaming = {r1, r2}
    MaxAttempts = 2
    MaxProbes = 0
    Replies = {"unauthorized"}
    MaxInterventions = 2
SPECIFICATION Spec
INVARIANTS SlotsBalanced CapRespected
CHECK_DEADLOCK FALSE
SYMMETRY RequestSymmetry
