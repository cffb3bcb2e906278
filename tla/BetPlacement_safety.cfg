\* Three requests of two users.
CONSTANTS
    u1 = u1
    u2 = u2
    p1 = p1
    p2 = p2
    p3 = p3
    Nobody = Nobody
    Users <- Users2
    Requests <- Requests3
    DepositRefs = {d1}
    Opening <- Opening2
    Amounts = {2}
SPECIFICATION Spec
SYMMETRY RequestSymmetry
INVARIANTS IInv NoDoubleSubmission StakeHeld Solvent StakesCharged DebitRecorded
CHECK_DEADLOCK FALSE
