SPECIFICATION BridgeFairSpec
CHECK_DEADLOCK FALSE
CONSTANTS
    t1 = t1
    Tasks = {t1}
    Limits <- BridgeLimits
    Outputs = {""}
    EmptyOutput = ""
    BadLimit = BadLimit
    Refused = {}
    MaxTime = 0
    MaxProgress = 2
INVARIANTS
    CreatedSeenFirst
    SeenInOrder
    ToldCanBeRead
PROPERTIES
    EveryEventTold
