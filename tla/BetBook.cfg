\* Two bets of two users on three legs, prices in tenths.
CONSTANTS
    u1 = u1
    u2 = u2
    b1 = b1
    b2 = b2
    Nobody = Nobody
    Users = {u1, u2}
    Bets = {b1, b2}
    Legs = {"a", "b", "c"}
    MarketOf <- MarketOfLeg
    Prices <- LegPrices
    Slips <- TwoSlips
    DailyLimits = {4, 6}
    MaxExposure = 13
    OddsUnit = 10
    TotalUnit = 10
    Whole = 20
    Margin = 1
    MinOdds = 12
    Parts = {10}
    MaxParts = 1
    MaxChanges = 2
    Quoted <- QuotedPrices
SPECIFICATION Spec
SYMMETRY BookSymmetry
INVARIANTS IInv DailyLimitHeld MarketLimitHeld PricedRight ReportsReconcile
CHECK_DEADLOCK FALSE
