CONSTANTS
    vendor = vendor
    host = host
    Destinations <- MCDestinations
    TotalCredits = {3}
    MilestoneAmounts = {1, 2}
    EligibleTimes = {2}
    ExpenseLimits = {0, 1}
    ExpenseAmounts = {2}
    RevenueAmounts = {3, 63}
    Projections = {10}
    DayCounts = {0, 7, 14}
    MaxMilestones = 2
    MaxDestinations = 1
    OrangeDays = 7
    RedDays = 14
    YellowDelay = 1
    Grace = 2
    U16 = 65536
    MaxTime = 3
    MaxRevenue = 66
    MaxSent = 2
SPECIFICATION Spec
INVARIANTS TypeOK CountersAddUp
PROPERTIES ReleasedOnRevenue
