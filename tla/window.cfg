CONSTANT
    MaxClicks = 4
SPECIFICATION FairSpec
INVARIANTS WindowInv SavesReachGateway
PROPERTIES RunningIsOfThisStart RestartEnds
CHECK_DEADLOCK FALSE
