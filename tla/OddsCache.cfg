\* Two placements and two updates of a selection: 19 is within 5 percent of 20,
\* 10 is not.
CONSTANTS
    p1 = p1
    p2 = p2
    q1 = q1
    q2 = q2
    None = None
    Placements <- Placements2
    Updates <- Updates2
    Odds = {10, 19, 20}
    Policies = {"REJECT", "ACCEPT_ANY"}
    Tolerance = 5
SPECIFICATION Spec
SYMMETRY OddsSymmetry
INVARIANTS IInv StaleExplained PriceLived ChangesChain
CHECK_DEADLOCK FALSE
