CONSTANTS
    p1 = p1
    p2 = p2
    p3 = p3
    p4 = p4
    p5 = p5
    u1 = u1
    u2 = u2
    NoProcess = NoProcess
    Processes = {p1, p2, p3, p4, p5}
    Updates = {u1}
    MaxStarts = 3
    MaxCrashes = 1
SPECIFICATION FairSpec
INVARIANTS DesktopInv OnlyVerifiedBuildsRun
PROPERTIES UpdateEnds
CHECK_DEADLOCK FALSE
