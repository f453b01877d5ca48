CONSTANTS
    Payers = {p1}
    Ids = {r1}
    Workers = {w1, w2}
    MaxAttempts = 3
    ReserveTries = 1
    BatchSize = 2
    MaxRestarts = 1
    MaxForeign = 1
SPECIFICATION FairSpec
INVARIANTS OnlyRestartStrands
PROPERTIES DecidedOrStranded
CHECK_DEADLOCK FALSE
