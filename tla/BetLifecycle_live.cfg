\* Two operations around one bet on one market, server and Redis serving.
CONSTANTS
    u1 = u1
    b = b
    p1 = p1
    p2 = p2
    Nobody = Nobody
    Users = {u1}
    Requests <- Requests2
    DepositRefs = {}
    Opening <- Opening1
    Amounts = {1}
    TheBet = b
    Owner = u1
    Stake = 2
    TotalOdds = 2
    Markets = {m1}
    LegOdds <- LegOdds2
    CashValues = {1}
    Whole = 4
    Parts = {3}
    Sweepers = {p1}
    MaxSettles = 2
SPECIFICATION FairSpec
PROPERTIES Answered SweepCloses
CHECK_DEADLOCK FALSE
