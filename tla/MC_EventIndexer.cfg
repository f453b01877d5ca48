CONSTANTS
    Events = {1, 2, 3, 4, 5}
    Endpoints = {e1}
    Rounds = {r1}
    MaxDeliveries = 1
    MaxAttempts = 2
    BatchSize = 2
    MaxFaults = 1
    Pollers = {p1, p2}
    MaxPerPoll = 2
    Kinds = {"registered", "score", "created", "adds", "sets"}
    Subscribed = {"adds"}
    MaxOverlaps = 1
SPECIFICATION Spec
INVARIANTS TypeOK StoredUpToCursor AddedNeverBehind ExactUntilRedone MirrorsChain
CHECK_DEADLOCK FALSE
