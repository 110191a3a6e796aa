SPECIFICATION FairSpec
CONSTANTS
    Limits = {0, 1}
    Cap = 2
    Chunk = 2
    ErrorSize = 3
    ExitAfterData = TRUE
    MaxBytes = 3
    MaxTime = 2
INVARIANTS
    Contract
    BuffersFill
    OutputComplete
PROPERTIES
    EarlyCancelHonoured
    ReturnsInTheEnd
    CancelReturns
CHECK_DEADLOCK FALSE
