CONSTANTS
    InvestorCount = 2
    Invests = {1, 3}
    Repayments = {3}
    Target = 4
    Bps = 10
    InterestBps = 5
    FeeBps = 4
    LateBps = 5
    Tranches = 3
    Interval = 2
    Periods = 2
    Grace = 1
    Deadline = 2
    MaxTime = 5
    KeeperIsAdmin = TRUE
    MaxFaults = 1
SPECIFICATION Spec
INVARIANTS TypeOK CashIsAccounted WaterfallOrder CompletedMakesWhole ClaimsCovered RefundsCovered
PROPERTIES OnlyPaymentsOvertakeKeeper
CHECK_DEADLOCK FALSE
