-------------------------------- MODULE BetBook --------------------------------
(***************************************************************************)
(* The book of bets: what bets are priced at when they are placed, the     *)
(* limits of assessBet they are compared with, what their rows say after   *)
(* cancellations, settlements and cashouts, and what the reports of admin, *)
(* user and cashout read out of those rows.                                *)
(*                                                                         *)
(* A placement is two steps: assessBet compares it with the rows there     *)
(* are, and later the transaction stores it; a third adds it to the        *)
(* exposure of its market.  The user's lock keeps a user's placements      *)
(* apart until it expires; nothing keeps the users apart.  The             *)
(* reservation between the steps is abstracted to its outcome (Drop):      *)
(* BetPlacement has it, with the key that lets only one of them through.   *)
(* Everything done to a stored bet is one step here; how those operations  *)
(* overlap is the subject of BetLifecycle.  Legs are never void: see       *)
(* BetLifecycle.  Other refusals of assessBet (exclusion, maximum stake,   *)
(* the user's exposure) stop a placement before it changes anything, and   *)
(* riskScore is 0 for ever, so the threshold of 90 is out of reach.        *)
(***************************************************************************)
EXTENDS Pricing, Sequences

CONSTANTS
    Users,
    Bets,          \* the ids of the bets that may be placed
    Legs,          \* selections
    MarketOf,      \* the market of a selection
    Prices,        \* the odds a selection may have
    Slips,         \* what users ask for: [type, legs, size, stake]
    DailyLimits,   \* what a user may set maxDailyLoss to
    MaxExposure,   \* maxExposure of every market
    MinOdds,       \* CASHOUT_MIN_ODDS, in 1/OddsUnit
    Parts,         \* the percentages of partial cashouts, of Whole
    MaxParts,      \* bound: the partial cashouts of a bet
    MaxChanges,    \* bound: how often prices, limits and the day change
    Quoted,        \* bound: the prices the format conversions are checked for, in 1/100
    Nobody         \* a lock key that does not exist

Markets == {MarketOf[l] : l \in Legs}

ASSUME SlipsAssumption ==
    \A s \in Slips :
        /\ s.stake \in Nat \ {0} /\ s.legs \in Seq(Legs)
        /\ s.type = "SINGLE" => Len(s.legs) = 1
        /\ s.type = "MULTI" => Len(s.legs) >= 2
        /\ s.size \in 0 .. Len(s.legs)
ASSUME PartsAssumption == Parts \subseteq 1 .. Whole - 1
ASSUME PricesAssumption ==
    \A l \in Legs :
        Prices[l] \subseteq Nat \ {0} /\ Prices[l] # {} /\ IsFiniteSet(Prices[l])
ASSUME LimitsAssumption ==
    /\ DailyLimits \subseteq Nat /\ DailyLimits # {} /\ IsFiniteSet(DailyLimits)
    /\ MaxExposure \in Nat
ASSUME BoundsAssumption ==
    IsFiniteSet(Bets) /\ MaxParts \in Nat /\ MaxChanges \in Nat

\* Only the agreement of quotes and formats depends on these: decimal odds count the
\* stake, so they are not below one, and a cashout needs odds above one by more
\* than the rounding of totalOdds can make up for.
ASSUME DecimalAssumption ==
    /\ \A l \in Legs : \A p \in Prices[l] : p >= OddsUnit
    /\ Quoted \subseteq {d \in Nat : d > 100}
ASSUME MinOddsAssumption ==
    /\ MinOdds \in Nat
    /\ OddsUnit * ((2 * TotalUnit + 1) * (2 * TotalUnit + 1))
         <= MinOdds * ((2 * TotalUnit) * (2 * TotalUnit))

\* The prices there are.
AnyPrice == UNION {Prices[l] : l \in Legs}

VARIABLES
    odds,      \* Selection.odds
    exposure,  \* Market.currentExposure
    limit,     \* User.maxDailyLoss
    day,       \* the day it is
    changes,   \* how often the world has changed
    lock,      \* bet:user:lock:<user>
    pc,        \* where each placement is
    bet,       \* the Bet row, from the moment it is priced, with its Cashout rows
    credited,  \* what the wallet was credited for the bet
    met        \* history: pairs of placements in flight together

vars == <<odds, exposure, limit, day, changes, lock, pc, bet, credited, met>>

bookVars == <<bet, credited>>
worldVars == <<odds, limit, day, changes>>

InFlight == {"assessed", "stored"}

Stored == {b \in Bets : pc[b] \in {"stored", "tracked", "untracked"}}

NoBet == [status |-> "NONE"]

Init ==
    /\ odds = [l \in Legs |-> Max(Prices[l])]
    /\ exposure = [m \in Markets |-> 0]
    /\ limit = [u \in Users |-> Max(DailyLimits)]
    /\ day = 0
    /\ changes = 0
    /\ lock = [u \in Users |-> Nobody]
    /\ pc = [b \in Bets |-> "idle"]
    /\ bet = [b \in Bets |-> NoBet]
    /\ credited = [b \in Bets |-> 0]
    /\ met = {}

Goto(b, l) == pc' = [pc EXCEPT ![b] = l]

LegOdds(legs) == [i \in 1 .. Len(legs) |-> odds[legs[i]]]

-------------------------------------------------------------------------------
\* Placement.

\* The row placeBet computes; it is stored later, on the day of that moment.
\* market is the one whose exposure the bet counts for, and limit the daily limit
\* it was compared with (history).
Priced(u, slip, m) ==
    LET o == LegOdds(slip.legs)
        total == TotalOdds(slip.type, slip.size, o)
    IN  [user |-> u, slip |-> slip, market |-> m, odds |-> o, status |-> "ACCEPTED",
         stake |-> slip.stake, total |-> Rounded(Scaled(TotalUnit, total)),
         win |-> Rounded(Scaled(slip.stake, total)), won |-> 0, cash |-> 0, sold |-> 0,
         parts |-> 0, day |-> day, limit |-> limit[u]]

\* What a report and a limit count: not cancelled, not void.
Counted(B) == {b \in B : bet[b].status \notin {"CANCELLED", "VOID"}}

Today(B) == {b \in B : bet[b].day = day}

StakesOf(B) == Total([b \in B |-> bet[b].stake], B)

\* Faulty WithinDailyLimit: the new stake is left out of the comparison.
WithinDailyLimitSoFar(u, stake) ==
    StakesOf({b \in Today(Counted(Stored)) : bet[b].user = u}) <= limit[u]

\* checkDailyLoss: today's stakes, as they are now, with the new one.
WithinDailyLimit(u, stake) ==
    StakesOf({b \in Today(Counted(Stored)) : bet[b].user = u}) + stake <= limit[u]

\* checkMarketExposure
WithinMarketLimit(m, win) == exposure[m] + win <= MaxExposure

\* acquireLock, the pricing and assessBet.  The market is that of selections[0],
\* and findMany returns the selections of the slip in any order.
Place(b, u, slip) ==
    /\ pc[b] = "idle" /\ lock[u] = Nobody
    /\ \E i \in 1 .. Len(slip.legs) :
          LET row == Priced(u, slip, MarketOf[slip.legs[i]])
          IN  /\ WithinDailyLimit(u, slip.stake)
              /\ WithinMarketLimit(row.market, row.win)
              /\ bet' = [bet EXCEPT ![b] = row]
    /\ lock' = [lock EXCEPT ![u] = b]
    /\ Goto(b, "assessed")
    /\ met' = met \cup {{b, c} : c \in {d \in Bets \ {b} : pc[d] \in InFlight}}
    /\ UNCHANGED <<exposure, worldVars, credited>>

\* finally: the lock, if it is still this placement's.
Unlock(b) ==
    lock' = [lock EXCEPT ![bet[b].user] = IF @ = b THEN Nobody ELSE @]

\* The reservation or the transaction fails: there is no bet, and its id is free.
Drop(b) ==
    /\ pc[b] = "assessed"
    /\ Unlock(b) /\ Goto(b, "idle")
    /\ bet' = [bet EXCEPT ![b] = NoBet]
    /\ met' = {p \in met : b \notin p}
    /\ UNCHANGED <<exposure, worldVars, credited>>

\* bet.create: createdAt is now.
Store(b) ==
    /\ pc[b] = "assessed"
    /\ bet' = [bet EXCEPT ![b].day = day]
    /\ Goto(b, "stored")
    /\ UNCHANGED <<exposure, worldVars, lock, credited, met>>

\* The potentialWin that placeBet computed: the row's changes with partial cashouts.
Promised(b) ==
    LET slip == bet[b].slip
    IN  Rounded(Scaled(slip.stake, TotalOdds(slip.type, slip.size, bet[b].odds)))

\* Faulty Track: the stake is added, as checkMarketExposure calls its argument.
TrackStake(b) ==
    /\ pc[b] = "stored"
    /\ exposure' = [exposure EXCEPT ![bet[b].market] = @ + bet[b].slip.stake]
    /\ Unlock(b) /\ Goto(b, "tracked")
    /\ UNCHANGED <<worldVars, bookVars, met>>

\* updateMarketExposure with the potentialWin of the placement.
Track(b) ==
    /\ pc[b] = "stored"
    /\ exposure' = [exposure EXCEPT ![bet[b].market] = @ + Promised(b)]
    /\ Unlock(b) /\ Goto(b, "tracked")
    /\ UNCHANGED <<worldVars, bookVars, met>>

\* It fails: the bet exists and its exposure is not counted.
TrackFails(b) ==
    /\ pc[b] = "stored"
    /\ Unlock(b) /\ Goto(b, "untracked")
    /\ UNCHANGED <<exposure, worldVars, bookVars, met>>

\* The TTL of the lock runs out.
Expire(u) ==
    /\ lock[u] # Nobody
    /\ lock' = [lock EXCEPT ![u] = Nobody]
    /\ UNCHANGED <<exposure, worldVars, pc, bookVars, met>>

-------------------------------------------------------------------------------
\* What happens to a stored bet.  The wallet is credited in the same transaction.

Write(b, row, pays) ==
    /\ b \in Stored /\ bet[b].status = "ACCEPTED"
    /\ bet' = [bet EXCEPT ![b] = row]
    /\ credited' = [credited EXCEPT ![b] = @ + pays]
    /\ UNCHANGED <<exposure, worldVars, lock, pc, met>>

CancelBet(b) ==
    Write(b, [bet[b] EXCEPT !.status = "CANCELLED"], bet[b].stake)

\* What settleBet pays a winner: the stake left, at the stored totalOdds.
ActualWin(b) == Rounded(Frac(bet[b].stake * bet[b].total, TotalUnit))

\* Faulty SettleBet: the wallet gets potentialWin, the row actualWin.
SettlePotential(b) ==
    \/ Write(b, [bet[b] EXCEPT !.status = "WON", !.won = ActualWin(b)], bet[b].win)
    \/ Write(b, [bet[b] EXCEPT !.status = "LOST"], 0)

SettleBet(b) ==
    \/ Write(b, [bet[b] EXCEPT !.status = "WON", !.won = ActualWin(b)], ActualWin(b))
    \/ Write(b, [bet[b] EXCEPT !.status = "LOST"], 0)

\* _getLiveOdds
LiveOdds(b) == LET o == LegOdds(bet[b].slip.legs) IN CombinedOdds(o, DOMAIN o)

\* What a cashout of the part pays now.
Value(b, part) == CashoutValue(bet[b].stake, part, bet[b].total, LiveOdds(b))

\* The odds are not too low and the value is not zero.
Worth(b, part) ==
    /\ LiveOdds(b).num * OddsUnit >= MinOdds * LiveOdds(b).den
    /\ Value(b, part).num > 0

Cashout(b) ==
    LET v == Rounded(Value(b, Whole))
    IN  /\ b \in Stored /\ Worth(b, Whole)
        /\ Write(b, [bet[b] EXCEPT !.status = "CASHED_OUT", !.cash = @ + v], v)

\* The columns round what is left and what is sold to cents, each on its own;
\* potentialWin becomes what is left at the live odds, totalOdds stays.
PartialCashout(b, part) ==
    LET v == Rounded(Value(b, part))
        left == Remaining(bet[b].stake, part)
        now == LiveOdds(b)
    IN  /\ b \in Stored /\ bet[b].parts < MaxParts /\ Worth(b, part)
        /\ Write(b, [bet[b] EXCEPT
                !.stake = Rounded(left), !.cash = @ + v, !.parts = @ + 1,
                !.sold = @ + Rounded(Remaining(bet[b].stake, Whole - part)),
                !.win = Rounded(Frac(left.num * now.num, left.den * now.den))],
              v)

-------------------------------------------------------------------------------
\* The world.

Change == changes < MaxChanges /\ changes' = changes + 1

UpdateOdds(l) ==
    /\ Change
    /\ \E o \in Prices[l] \ {odds[l]} : odds' = [odds EXCEPT ![l] = o]
    /\ UNCHANGED <<exposure, limit, day, lock, pc, bookVars, met>>

SetLimits(u) ==
    /\ Change
    /\ \E x \in DailyLimits \ {limit[u]} : limit' = [limit EXCEPT ![u] = x]
    /\ UNCHANGED <<odds, exposure, day, lock, pc, bookVars, met>>

\* A day ends.  resetDailyExposure clears RiskProfile.dailyStaked, which nothing
\* reads; neither it nor anything else lowers an exposure.
Midnight ==
    /\ Change /\ day' = day + 1
    /\ UNCHANGED <<odds, exposure, limit, lock, pc, bookVars, met>>

Next ==
    \/ \E b \in Bets :
          \/ \E u \in Users, slip \in Slips : Place(b, u, slip)
          \/ Drop(b) \/ Store(b) \/ Track(b) \/ TrackFails(b)
          \/ CancelBet(b) \/ SettleBet(b) \/ Cashout(b)
          \/ \E part \in Parts : PartialCashout(b, part)
    \/ \E u \in Users : Expire(u) \/ SetLimits(u)
    \/ \E l \in Legs : UpdateOdds(l)
    \/ Midnight

Spec == Init /\ [][Next]_vars

-------------------------------------------------------------------------------
\* The reports, as queries over the rows.

WonOf(B) == Total([b \in B |-> bet[b].won], {b \in B : bet[b].status = "WON"})

CashOf(B) == Total([b \in B |-> bet[b].cash], B)

\* getDashboardStats: the bets created today.
DashboardStats ==
    LET staked == StakesOf(Today(Counted(Stored)))
        won == WonOf(Today(Stored))
    IN  [stakedToday |-> staked, wonToday |-> won, ggr |-> staked - won]

\* getFinancialReport over all days.
FinancialReport ==
    LET staked == StakesOf(Stored)
        paidOut == Total([b \in Stored |-> bet[b].won], Stored)
    IN  [staked |-> staked, paidOut |-> paidOut, ggr |-> staked - paidOut,
         cashouts |-> CashOf(Stored)]

\* getUserBettingStats
UserBettingStats(u) ==
    LET B == {b \in Stored : bet[b].user = u}
    IN  [totalStaked |-> StakesOf(Counted(B)), totalWon |-> WonOf(B)]

\* getCashoutValue of an open bet: its legs are not settled, so their placement
\* odds stand for the current ones.
Quote(b) ==
    LET all == CombinedOdds(bet[b].odds, DOMAIN bet[b].odds)
        value == Frac(all.num * TotalUnit * bet[b].win * (Whole - Margin),
                      all.den * bet[b].total * Whole)
    IN  IF Rounded(value) < bet[b].win THEN Rounded(value) ELSE bet[b].win

-------------------------------------------------------------------------------
\* Properties.

Rows ==
    [user : Users, slip : Slips, market : Markets, odds : Seq(AnyPrice),
     status : {"ACCEPTED", "WON", "LOST", "CANCELLED", "CASHED_OUT"},
     stake : Nat, total : Nat, win : Nat, won : Nat, cash : Nat, sold : Nat,
     parts : 0 .. MaxParts, day : 0 .. MaxChanges, limit : DailyLimits]

TypeOK ==
    /\ odds \in [Legs -> Nat \ {0}] /\ \A l \in Legs : odds[l] \in Prices[l]
    /\ exposure \in [Markets -> Nat]
    /\ limit \in [Users -> DailyLimits]
    /\ changes \in 0 .. MaxChanges
    /\ day \in 0 .. changes
    /\ lock \in [Users -> Bets \cup {Nobody}]
    /\ pc \in [Bets -> InFlight \cup {"idle", "tracked", "untracked"}]
    /\ DOMAIN bet = Bets
    /\ \A b \in Bets :
          IF pc[b] = "idle" THEN bet[b] = NoBet
          ELSE /\ bet[b] \in Rows /\ Len(bet[b].odds) = Len(bet[b].slip.legs)
               /\ bet[b].stake <= bet[b].slip.stake /\ bet[b].day <= day
    /\ credited \in [Bets -> Nat]
    /\ met \subseteq SUBSET Bets

\* What a user has staked on one day fits one of the limits its bets of that day
\* were compared with, whatever was raised, lowered, cancelled, sold, or stored
\* after midnight: only two of them that were in flight together, as the lock of
\* the user expired, pass the same check.
DailyLimitHeld ==
    \A u \in Users, d \in 0 .. day :
        LET B == {b \in Counted(Stored) : bet[b].user = u /\ bet[b].day = d}
        IN  B # {} =>
                \/ StakesOf(B) <= Max({bet[b].limit : b \in B})
                \/ \E b, c \in B : {b, c} \in met

\* No two of the bets in B were in flight together.
Apart(B) == \A b, c \in B : {b, c} \notin met

\* What the stored bets of a market may win, as they were placed.
Liability(B) == Total([b \in B |-> Promised(b)], B)

\* The bets counted for a market can win more than its maximum only if two of
\* them were in flight together or the count of one of them failed.
MarketLimitHeld ==
    \A m \in Markets :
        LET B == {b \in Stored : bet[b].market = m}
        IN  Liability(B) > MaxExposure =>
                \/ \E b, c \in B : {b, c} \in met
                \/ \E b \in B : pc[b] = "untracked"

\* The sum of the products of k of the odds, by the recurrence on the last leg.
SumOfProducts(x, k) ==
    LET e[i \in 0 .. Cardinality(DOMAIN x)] ==
            [j \in 0 .. k |->
                IF j = 0 THEN 1 ELSE IF i = 0 THEN 0 ELSE e[i - 1][j] + x[i] * e[i - 1][j - 1]]
    IN  e[Cardinality(DOMAIN x)][k]

\* A single is the system of its one leg and a multi that of all its legs: a bet is
\* promised the products of its combinations, its stake divided by their number,
\* which is what the sum is when every leg is at even odds.
SystemIsSum ==
    \A b \in Stored :
        LET slip == bet[b].slip
            n == Len(slip.legs)
            k == IF slip.type = "SYSTEM" /\ slip.size > 0 THEN slip.size ELSE n
        IN  bet[b].parts = 0 =>
                bet[b].win = Rounded(Frac(slip.stake * SumOfProducts(bet[b].odds, k),
                                SumOfProducts([i \in 1 .. n |-> OddsUnit], k)))

\* A winner is paid its potentialWin: settleBet multiplies by the stored, rounded
\* totalOdds, which costs or yields half of its last digit per cent staked.
PaysAsPriced ==
    \A b \in Stored :
        bet[b].status = "WON" /\ bet[b].parts = 0 =>
            LET gap == bet[b].won - bet[b].win
            IN  2 * TotalUnit * (IF gap < 0 THEN -gap ELSE gap) <= 2 * TotalUnit + bet[b].stake

\* getCashoutValue never shows less than a cashout would pay now, up to a cent,
\* until a partial cashout has replaced potentialWin.
QuoteCovers ==
    \A b \in Stored :
        bet[b].status = "ACCEPTED" /\ bet[b].parts = 0 /\ Worth(b, Whole) =>
            Rounded(Value(b, Whole)) <= Quote(b) + 1

\* A price in hundredths survives the American format to the hundredth, and its
\* fraction is the price less the stake in lowest terms.
FormatsAgree ==
    \A d \in Quoted :
        LET back == AmericanToDecimal(DecimalToAmerican(d))
            f == DecimalToFractional(d)
        IN  /\ Rounded(Frac(back, 100)) = d
            /\ f.num * 100 = (d - 100) * f.den
            /\ \A g \in 2 .. 100 : ~(f.num % g = 0 /\ f.den % g = 0)

\* What bets are promised, quoted and paid agrees: system combinations, settlement
\* at rounded odds, cashout quotes, odds formats.
PricedRight == SystemIsSum /\ PaysAsPriced /\ QuoteCovers /\ FormatsAgree

\* What the house keeps of the stakes in the rows; parts sold are no longer in them.
House(B) == Total([b \in B |-> bet[b].stake - credited[b]], B)

\* The parts sold and what is left make up the stake, up to the cent that rounding
\* both halves up adds per partial cashout; nothing of a stake gets lost.
PartsAddUp ==
    \A b \in Stored :
        bet[b].stake + bet[b].sold - bet[b].slip.stake \in 0 .. bet[b].parts

\* The reports differ from the money in the bets by exactly what they leave out: the
\* financial report counts cancelled stakes, the dashboard and the user's
\* statistics miss cashouts, and none has the parts that were sold, which make up
\* the stakes with what is left.
ReportsReconcile ==
    LET B == Stored
        T == Today(B)
        ofUser(u) == {b \in B : bet[b].user = u}
    IN  /\ FinancialReport.ggr - FinancialReport.cashouts
             = House(B) + StakesOf({b \in B : bet[b].status = "CANCELLED"})
        /\ DashboardStats.ggr = House(T) + CashOf(T)
        /\ \A u \in Users :
              UserBettingStats(u).totalStaked - UserBettingStats(u).totalWon
                = House(ofUser(u)) + CashOf(ofUser(u))
        /\ PartsAddUp
-------------------------------------------------------------------------------
\* The inductive invariant.

\* met has every pair of placements that are in flight now, and none that is gone.
MetOK ==
    /\ \A b, c \in Bets :
          b # c /\ pc[b] \in InFlight /\ pc[c] \in InFlight => {b, c} \in met
    /\ \A p \in met : \A b \in p : pc[b] # "idle"

\* The counted bets of a user that were stored on day d.
OfDay(u, d) == {b \in Counted(Stored) : bet[b].user = u /\ bet[b].day = d}

\* A placement that was assessed has room among the bets of that day it was not in
\* flight with, and every bet stored on a later day was in flight with it.
DayRoom(b) ==
    LET beside == {c \in OfDay(bet[b].user, bet[b].day) : {b, c} \notin met}
    IN  /\ StakesOf(beside) + bet[b].stake <= bet[b].limit
        /\ \A c \in Stored : bet[c].day > bet[b].day => {b, c} \in met

\* Bets of a day of which no two were in flight together fit the limit of one of
\* them: the one assessed last.
DayFits ==
    \A u \in Users, d \in 0 .. day : \A C \in SUBSET OfDay(u, d) :
        C # {} /\ Apart(C) => \E b \in C : StakesOf(C) <= bet[b].limit

Assessed == {b \in Bets : pc[b] = "assessed"}

DayOK == DayFits /\ \A b \in Assessed : DayRoom(b)

Tracked(m) == {b \in Bets : pc[b] = "tracked" /\ bet[b].market = m}

\* The same for a market and its maximum.
MarketRoom(b) ==
    Liability({c \in Tracked(bet[b].market) : {b, c} \notin met}) + Promised(b) <= MaxExposure

MarketFits ==
    \A m \in Markets :
        \A C \in SUBSET {b \in Stored : bet[b].market = m /\ pc[b] # "untracked"} :
            Apart(C) => Liability(C) <= MaxExposure

\* The exposure of a market is what its tracked bets may win.
ExposureOK ==
    /\ \A m \in Markets : exposure[m] = Liability(Tracked(m))
    /\ MarketFits
    /\ \A b \in Assessed : MarketRoom(b)

\* What a row says was won and cashed out is what the wallet was credited, but for
\* the stake of a cancelled bet; what is left and sold makes up the stake, and until
\* a part is sold the row has the price of the placement.
RowOK(b) ==
    LET r == bet[b]
    IN  /\ r.stake + r.sold - r.slip.stake \in 0 .. r.parts
        /\ r.won = IF r.status = "WON" THEN ActualWin(b) ELSE 0
        /\ credited[b] = r.cash + r.won + (IF r.status = "CANCELLED" THEN r.stake ELSE 0)
        /\ r.parts = 0 => r.stake = r.slip.stake /\ r.win = Promised(b)
        /\ r.total = Rounded(Scaled(TotalUnit, TotalOdds(r.slip.type, r.slip.size, r.odds)))

MoneyOK ==
    /\ \A b \in Bets \ Stored : credited[b] = 0
    /\ \A b \in Assessed :
          bet[b].status = "ACCEPTED" /\ bet[b].parts = 0 /\ bet[b].sold = 0 /\ bet[b].cash = 0
    /\ \A b \in Assessed \cup Stored : RowOK(b)

\* What every reachable state satisfies and every step preserves.
IInv == TypeOK /\ MetOK /\ DayOK /\ ExposureOK /\ MoneyOK
===============================================================================
