\* The balance is what the ledger says (README.md:245).
CONSTANTS
    u1 = u1
    b = b
    p1 = p1
    p2 = p2
    Nobody = Nobody
    Users = {u1}
    Requests <- Requests2
    DepositRefs = {d1}
    Opening <- Opening1
    Amounts = {1}
    TheBet = b
    Owner = u1
    Stake = 2
    TotalOdds = 2
    Markets = {m1}
    LegOdds <- LegOdds2
    CashValues = {1}
    Whole = 4
    Parts = {2, 3}
    Sweepers = {}
    MaxSettles = 1
SPECIFICATION Spec
INVARIANT BalanceIsLedger
CHECK_DEADLOCK FALSE
