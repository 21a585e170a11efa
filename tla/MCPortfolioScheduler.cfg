SPECIFICATION FairSpec
CONSTANTS
    t1 = t1
    t2 = t2
    alpha = alpha
    Priorities <- MCPriorities
    TaskIds <- TwoTasks
    Projects <- OneProject
    ProjectOf <- AllAlpha
    NowOffsets <- AtMostOneAhead
    Limits <- OneOrTwo
    Threshold = 2
    MaxAge = 6
    MaxRun = 2
    MaxSetBacks = 1
    MaxTotal = 2
INVARIANTS
    WorkersWithinCap
    AgingKeepsOrder
    OnePromotionPerThreshold
PROPERTIES
    ReportedWaitFollowsTheClock
    NoStarvation
