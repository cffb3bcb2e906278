\* Two overlapping updates and two connections, of one user, of nobody, or of both.
CONSTANTS
    u1 = u1
    u2 = u2
    s1 = s1
    s2 = s2
    Updates <- Updates2
    Sockets <- Sockets2
    Owner = o
    Anonymous = a
    Scores = {"0-0", "1-0"}
    Nothing = Nothing
SPECIFICATION GSpec
SYMMETRY Symmetry
INVARIANTS GInv InStep
CHECK_DEADLOCK FALSE
