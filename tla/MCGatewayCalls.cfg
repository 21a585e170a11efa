SPECIFICATION FairSpec
CONSTANTS
    c1 = c1
    c2 = c2
    Calls <- MCCalls
    EstimatedCost <- MCEstimatedCost
    Costs <- MCCosts
    MaxAttempts = 2
    DailyHard = 1
    MonthlyHard = 1
    MonthLength = 2
    MaxDay = 2
INVARIANTS
    DayOvershootHasACause
    MonthOvershootHasACause
    BillOvershootHasACause
PROPERTIES
    CallsEnd
CHECK_DEADLOCK FALSE
