\* One code and, as loads write nothing that anyone reads, one load.  The code is
\* made at 0 to 3, lives 2 units, and the clock runs on to 6: every order of the
\* TTL, expiresAt, the hourly job and the load occurs.
CONSTANTS
    l1 = l1
    Loads <- Loads1
    Life = 2
    Odds = {1, 2}
    EndTime = 6
    None = None
SPECIFICATION Spec
INVARIANTS IInv CodeLife
CHECK_DEADLOCK FALSE
