CONSTANTS
    Events = {1, 2, 3}
    Endpoints = {e1}
    Rounds = {r1}
    MaxDeliveries = 1
    MaxAttempts = 1
    BatchSize = 1
    MaxFaults = 0
    Pollers = {p1}
    MaxPerPoll = 2
    Kinds = {"registered", "score", "created"}
    Subscribed = {}
    MaxOverlaps = 0
SPECIFICATION FairSpec
PROPERTIES CatchesUp
CHECK_DEADLOCK FALSE
