\* Duplicates are the user's own (README.md:248).
CONSTANTS
    u1 = u1
    u2 = u2
    p1 = p1
    p2 = p2
    p3 = p3
    Nobody = Nobody
    Users <- Users2
    Requests <- Requests2
    DepositRefs = {d1}
    Opening <- Opening2
    Amounts = {2}
SPECIFICATION Spec
INVARIANT DuplicateIsOwn
CHECK_DEADLOCK FALSE
