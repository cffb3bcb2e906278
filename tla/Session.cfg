\* Three calls on one registered account in two seconds, locked after two failures.
CONSTANTS
    c1 = c1
    c2 = c2
    c3 = c3
    Calls <- Calls3
    MaxAttempts = 2
    LastSecond = 1
SPECIFICATION SSpec
SYMMETRY CallSymmetry
INVARIANTS SInv SessionEnded AttemptsCounted
PROPERTIES LockHolds SignedOutStays
CHECK_DEADLOCK FALSE
