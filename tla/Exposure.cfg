\* Three operations around the bet whose placement is being counted.
CONSTANTS
    p1 = p1
    p2 = p2
    p3 = p3
    NoKey = NoKey
    Requests <- Requests3
    Win = 4
    PartWins = {2, 4, 5}
SPECIFICATION ESpec
SYMMETRY RequestSymmetry
INVARIANTS EInv CounterFollowsBet ProfileCounts
CHECK_DEADLOCK FALSE
