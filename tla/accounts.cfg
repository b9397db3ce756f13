SPECIFICATION Spec
CONSTANTS
    a1 = a1
    a2 = a2
    a3 = a3
    l1 = l1
    l2 = l2
    import = import
    saver = saver
    shared = shared
    second = second
    third = third
    own = own
    ownAlt = ownAlt
    NoFile = NoFile
    Torn = Torn
    NoLogin = NoLogin
    Ids <- MCIds
    Names <- MCNames
    BaseName <- MCBaseName
    AltName <- MCAltName
    Writers <- MCWriters
    Saver = saver
    Import = import
    Logins = {l1}
    LoginIds = {a3}
    MaxCrashes = 1
INVARIANTS AccountsInv SnapshotsSurvive
PROPERTIES LoginEnds
