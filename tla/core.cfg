CONSTANTS
    a1 = a1
    a2 = a2
    a3 = a3
    r1 = r1
    r2 = r2
    r3 = r3
    NoAccount = NoAccount
    Accounts = {a1, a2}
    Registered = {a1, a2}
    Ids <- MCIds
    IdOf <- MCIdOf
    Models = {"free", "usage"}
    FreeModels = {"free"}
    UsageModels = {"usage"}
    MaxInFlight = 1
    KillAfter = 1
    QuotaAware = FALSE
    Requests = {r1, r2}
    Streaming = {r1}
    MaxAttempts = 2
    MaxProbes = 0
    Replies = {"credits", "entitlement", "unauthorized", "cap", "throttled", "edge", "server", "client"}
    MaxInterventions = 0
SPECIFICATION Spec
INVARIANTS TypeOK SlotInv AgreesWithRouter
PROPERTIES NeverRefusedWithFreeSlot ParkingIsModelScoped LedgerSpec
CHECK_DEADLOCK FALSE
