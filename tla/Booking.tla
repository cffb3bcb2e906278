------------------------------- MODULE Booking -------------------------------
(***************************************************************************)
(* booking.service.ts for one booking code of one selection: its creation, *)
(* the Redis entry and the database row it is loaded from, the loads, the  *)
(* hourly job that marks expired rows (admin.service.ts), and the odds and *)
(* the market moving under them.  Time is counted in units of which a code *)
(* lives Life.                                                             *)
(***************************************************************************)
EXTENDS Integers, FiniteSets

CONSTANTS
    Loads,    \* loadBookingCode calls
    Life,     \* BOOKING_CODE_EXPIRY_HOURS
    Odds,     \* odds the selection may have
    EndTime,  \* the clock stops there (a bound of the model)
    None      \* no row, no entry, no value

ASSUME TimeAssumption == Life \in Nat \ {0} /\ EndTime \in Nat

\* The Booking row, and the cached booking with the time the entry goes.
Rows == [booked : Odds, expiresAt : Nat, expired : BOOLEAN]
Entries == [booked : Odds, gone : Nat]

ASSUME NoneAssumption == None \notin Nat \cup Rows \cup Entries /\ Odds \subseteq Nat

VARIABLES
    now,      \* the clock
    odds,     \* Selection.odds
    open,     \* the selection is not suspended and its market is OPEN
    row,      \* the Booking row
    cache,    \* booking:<code>: the booking and when the entry goes
    maker,    \* where createBookingCode is, and what it has computed
    pc,       \* where each load is
    local,    \* the local variables of each load
    slow,     \* history: time passed between expiresAt and the caching
    past      \* history: per load, the odds since it began, whether it began after
              \* the code was answered, and when it got or missed the booking

vars == <<now, odds, open, row, cache, maker, pc, local, slow, past>>

Loading == {"cache", "db", "enrich"}

\* The booking in hand, its answer and why there is none.
NoLocals == [booked |-> None, current |-> None, available |-> FALSE, refused |-> "no"]

NoPast == [odds |-> {}, known |-> FALSE, at |-> None]

Init ==
    /\ now = 0
    /\ odds \in Odds
    /\ open = TRUE
    /\ row = None
    /\ cache = None
    /\ maker = [at |-> "idle", booked |-> None, expiresAt |-> None]
    /\ pc = [l \in Loads |-> "idle"]
    /\ local = [l \in Loads |-> NoLocals]
    /\ slow = FALSE
    /\ past = [l \in Loads |-> NoPast]

Goto(l, s) == pc' = [pc EXCEPT ![l] = s]

world == <<now, odds, open>>
loads == <<pc, local, past>>

-------------------------------------------------------------------------------
\* createBookingCode

\* Faulty Compute: expiresAt lies in the past.
ComputeBackwards ==
    /\ maker.at = "idle" /\ now + Life < EndTime
    /\ maker' = [at |-> "row", booked |-> odds, expiresAt |-> now - Life]
    /\ UNCHANGED <<world, row, cache, slow, loads>>

\* selection.findMany, the checks and expiresAt.
Compute ==
    /\ maker.at = "idle" /\ now + Life < EndTime
    /\ maker' = IF open
                THEN [at |-> "row", booked |-> odds, expiresAt |-> now + Life]
                ELSE [maker EXCEPT !.at = "failed"]
    /\ UNCHANGED <<world, row, cache, slow, loads>>

\* booking.create: code is unique; a code drawn before is refused.
CreateRow ==
    /\ maker.at = "row"
    /\ row' = [booked |-> maker.booked, expiresAt |-> maker.expiresAt, expired |-> FALSE]
    /\ maker' = [maker EXCEPT !.at = "cache"]
    /\ UNCHANGED <<world, cache, slow, loads>>

\* redis.set with the TTL, which starts now.
CacheBooking ==
    /\ maker.at = "cache"
    /\ cache' = [booked |-> maker.booked, gone |-> now + Life]
    /\ maker' = [maker EXCEPT !.at = "done"]
    /\ slow' = (now + Life # maker.expiresAt)
    /\ UNCHANGED <<world, row, loads>>

\* A failed statement, a code that is taken, or a crash.
CreateFails ==
    /\ maker.at \in {"row", "cache"}
    /\ maker' = [maker EXCEPT !.at = "failed"]
    /\ UNCHANGED <<world, row, cache, slow, loads>>

-------------------------------------------------------------------------------
\* loadBookingCode

\* Whoever asks has the code: it was answered, or it is guessed or mistyped.
Load(l) ==
    /\ pc[l] = "idle"
    /\ Goto(l, "cache")
    /\ past' = [past EXCEPT ![l] = [NoPast EXCEPT !.odds = {odds}, !.known = maker.at = "done"]]
    /\ UNCHANGED <<world, row, cache, maker, slow, local>>

Got(l, booked) ==
    /\ local' = [local EXCEPT ![l] = [@ EXCEPT !.booked = booked]]
    /\ past' = [past EXCEPT ![l] = [@ EXCEPT !.at = now]]
    /\ Goto(l, "enrich")

Refuse(l, why) ==
    /\ local' = [local EXCEPT ![l] = [@ EXCEPT !.refused = why]]
    /\ past' = [past EXCEPT ![l] = [@ EXCEPT !.at = now]]
    /\ Goto(l, "done")

\* redis.get: an entry is served whatever the row says.
LoadCached(l) ==
    /\ pc[l] = "cache"
    /\ IF cache # None THEN Got(l, cache.booked) ELSE Goto(l, "db") /\ UNCHANGED <<local, past>>
    /\ UNCHANGED <<world, row, cache, maker, slow>>

\* Faulty LoadStored: a row that is not in the cache is taken for expired.
LoadNothing(l) ==
    /\ pc[l] = "db"
    /\ Refuse(l, IF row = None THEN "not found" ELSE "expired")
    /\ UNCHANGED <<world, row, cache, maker, slow>>

\* booking.findUnique and the expiry check.
LoadStored(l) ==
    /\ pc[l] = "db"
    /\ \/ row = None /\ Refuse(l, "not found")
       \/ row # None /\ (row.expired \/ row.expiresAt < now) /\ Refuse(l, "expired")
       \/ row # None /\ ~row.expired /\ row.expiresAt >= now /\ Got(l, row.booked)
    /\ UNCHANGED <<world, row, cache, maker, slow>>

\* _enrichBooking: selection.findUnique.
Enrich(l) ==
    /\ pc[l] = "enrich"
    /\ local' = [local EXCEPT ![l] = [@ EXCEPT !.current = odds, !.available = open]]
    /\ Goto(l, "done")
    /\ UNCHANGED <<world, row, cache, maker, slow, past>>

LoadFails(l) ==
    /\ pc[l] \in Loading
    /\ local' = [local EXCEPT ![l] = [@ EXCEPT !.refused = "error"]]
    /\ Goto(l, "done")
    /\ UNCHANGED <<world, row, cache, maker, slow, past>>

-------------------------------------------------------------------------------
\* The job, the operators and time.

\* expireOldBookings: it does not touch the cache.
ExpireOld ==
    /\ row # None /\ row.expiresAt < now /\ ~row.expired
    /\ row' = [row EXCEPT !.expired = TRUE]
    /\ UNCHANGED <<world, cache, maker, slow, loads>>

\* updateOdds
UpdateOdds ==
    /\ odds' \in Odds
    /\ past' = [l \in Loads |-> IF pc[l] \in Loading
                               THEN [past[l] EXCEPT !.odds = past[l].odds \cup {odds'}]
                               ELSE past[l]]
    /\ UNCHANGED <<now, open, row, cache, maker, slow, pc, local>>

ToggleMarket ==
    /\ open' = ~open
    /\ UNCHANGED <<now, odds, row, cache, maker, slow, loads>>

\* Redis drops the entry when its TTL is over.
Tick ==
    /\ now < EndTime
    /\ now' = now + 1
    /\ cache' = IF cache # None /\ cache.gone <= now' THEN None ELSE cache
    /\ UNCHANGED <<odds, open, row, maker, slow, loads>>

\* Redis loses the entry (memory, a restart without persistence).
Evict ==
    /\ cache # None
    /\ cache' = None
    /\ UNCHANGED <<world, row, maker, slow, loads>>

LoadStep(l) == LoadCached(l) \/ LoadStored(l) \/ Enrich(l) \/ LoadFails(l)

Next ==
    \/ Compute \/ CreateRow \/ CacheBooking \/ CreateFails
    \/ \E l \in Loads : Load(l) \/ LoadStep(l)
    \/ ExpireOld \/ UpdateOdds \/ ToggleMarket \/ Tick \/ Evict

Spec == Init /\ [][Next]_vars

-------------------------------------------------------------------------------
\* Properties.

\* The clock, the row, the entry and the calls keep their types.
TypeOK ==
    /\ now \in 0 .. EndTime
    /\ odds \in Odds
    /\ open \in BOOLEAN
    /\ row \in Rows \cup {None}
    /\ cache \in Entries \cup {None}
    /\ maker \in [at : {"idle", "row", "cache", "done", "failed"},
                  booked : Odds \cup {None}, expiresAt : Nat \cup {None}]
    /\ pc \in [Loads -> Loading \cup {"idle", "done"}]
    /\ local \in [Loads -> [booked : Odds \cup {None}, current : Odds \cup {None},
                            available : BOOLEAN,
                            refused : {"no", "not found", "expired", "error"}]]
    /\ slow \in BOOLEAN
    /\ past \in [Loads -> [odds : SUBSET Odds, known : BOOLEAN, at : Nat \cup {None}]]

\* A code loads exactly while it lives.  Once it was answered, loadBookingCode does
\* not refuse it before expiresAt is over, whether it is found in Redis, was
\* evicted, or is in the database only; and nobody gets it later, although a
\* cached booking is served without a look at expiresAt, unless the creation took
\* its time between computing expiresAt and starting the TTL.  What is shown are
\* odds the selection had while it loaded, not those it was booked or cached with.
CodeLife ==
    \A l \in Loads :
        /\ past[l].known /\ local[l].refused \in {"not found", "expired"} => past[l].at > row.expiresAt
        /\ local[l].booked # None /\ past[l].at > row.expiresAt => slow
        /\ local[l].current # None => local[l].current \in past[l].odds

\* The row is created once, with the expiresAt the code was made with, and marked
\* only after it; the entry comes last, and only its storing can be slow.
MadeInOrder ==
    /\ maker.at \in {"row", "cache"} => maker.booked \in Odds /\ maker.expiresAt \in Nat
    /\ maker.at \in {"idle", "row"} => row = None
    /\ maker.at \in {"cache", "done"} => row # None
    /\ row # None => row.expiresAt = maker.expiresAt /\ (row.expired => row.expiresAt < now)
    /\ maker.at # "done" => cache = None /\ ~slow

\* An entry that is there is not due yet, and is due at expiresAt unless it was slow.
EntryLives == cache # None => now < cache.gone /\ (slow \/ cache.gone = row.expiresAt)

\* What a load has at a step.
Carried(at, v, h) ==
    /\ h.known => maker.at = "done"
    /\ at \in {"idle", "cache", "db"} => v = NoLocals
    /\ at \in Loading => odds \in h.odds
    /\ v.booked # None => row # None

LoadsOK == \A l \in Loads : Carried(pc[l], local[l], past[l])

\* The inductive invariant: the types, the order in which a code is made, when its
\* entry goes, and what the loads carry.
IInv == TypeOK /\ MadeInOrder /\ EntryLives /\ LoadsOK /\ CodeLife

===============================================================================
