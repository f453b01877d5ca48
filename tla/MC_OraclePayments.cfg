CONSTANTS
    Payers = {p1}
    Ids = {r1, r2}
    Workers = {w1, w2}
    MaxAttempts = 2
    ReserveTries = 1
    BatchSize = 2
    MaxRestarts = 1
    MaxForeign = 0
SPECIFICATION Spec
SYMMETRY Symmetry
INVARIANTS TypeOK PaidAtMostOnce ConfirmedWasPaid AttemptsBounded
CHECK_DEADLOCK FALSE
