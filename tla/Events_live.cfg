CONSTANTS
    Events = {1, 2, 3}
    Endpoints = {e1}
    Rounds = {r1, r2}
    MaxDeliveries = 1
    MaxAttempts = 2
    BatchSize = 1
    MaxFaults = 1
    Pollers = {p1}
    MaxPerPoll = 1
    Kinds = {"score", "created", "adds"}
    Subscribed = {"adds"}
    MaxOverlaps = 0
SPECIFICATION FairSpec
INVARIANTS DecisionsHold
PROPERTIES StoredInTheEnd ToldInTheEnd SettlesForGood
CHECK_DEADLOCK FALSE
