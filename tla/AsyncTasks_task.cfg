SPECIFICATION FairSpec
CONSTANTS
    t1 = t1
    Tasks = {t1}
    Limits <- AllLimits
    Outputs = {"", "text"}
    EmptyOutput = ""
    BadLimit = BadLimit
    MaxTime = 2
    MaxProgress = 1
INVARIANTS
    IInv
    VerdictAnnouncedOnce
    EndedTaskLeavesTrace
PROPERTIES
    VerdictFinal
    AnswerStable
    OnlyTimeWithdraws
    OutputStable
    KeepsPromise
    StartedTaskEnds
    ExpiredResultSwept
    SettlesWhenAsked
CHECK_DEADLOCK FALSE
