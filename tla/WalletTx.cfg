\* Three concurrent calls on two wallets, each tried at most twice: every pair of
\* operations meets a conflict, a key clash and a retry.
CONSTANTS
    u1 = u1
    u2 = u2
    p1 = p1
    p2 = p2
    p3 = p3
    d1 = d1
    Users <- Users2
    Requests <- Requests3
    DepositRefs = {d1}
    Opening <- Opening2
    Amounts = {2}
    MaxRetries = 2
SPECIFICATION FairSpec
INVARIANTS IInv ReversedOnce BalanceIsLedger
PROPERTIES NoOverdraft Termination AtomicSpec
CHECK_DEADLOCK FALSE
