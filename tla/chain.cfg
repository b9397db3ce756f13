CONSTANTS
    a1 = a1
    a2 = a2
    r1 = r1
    r2 = r2
    NoAccount = NoAccount
    Accounts = {a1, a2}
    Registered = {a1, a2}
    Ids = {a1, a2}
    IdOf <- MCIdOf
    Models = {"first", "usage", "second"}
    FreeModels = {"first", "second"}
    UsageModels = {"usage"}
    MaxInFlight = 1
    KillAfter = 1
    QuotaAware = FALSE
    Requests = {r1, r2}
    Streaming = {r1, r2}
    MaxAttempts = 2
    MaxProbes = 1
    Replies = {"cap", "throttled", "server", "client"}
    MaxInterventions = 0
    Chain <- MCChain
    Asked <- MCAsked
SPECIFICATION ChainFairSpec
INVARIANTS ExhaustedHonestly
PROPERTIES EveryRequestEnds LeavesOnlyCappedModels LedgerFairSpec
CHECK_DEADLOCK FALSE
