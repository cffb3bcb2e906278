# A TLA+ verification of the betting backend

The repository is a NestJS server for sports betting: GraphQL resolvers call
services, the services keep their state in PostgreSQL (through Prisma) and in
Redis, and a socket.io gateway pushes what Redis pub/sub announces.  Every
service method is `async`, so any two requests interleave at every `await`, in
one process or in several.  That, and the steps that can fail between two
statements, is what this project is about, with the arithmetic that prices and
pays bets; formatting, most queries and request plumbing are left out.

Paths below are relative to the repository (`src/...` is its source directory).

## 1. The system

| Part | State | Operations | What is hard | What makes it correct |
|---|---|---|---|---|
| wallet (`src/wallet`) | `Wallet` (balance, reserved, version), `Transaction` rows with a unique `idempotencyKey` | `deposit`, `withdraw`, `credit`, `debit`, `reserveFunds`, `releaseReservation`, `rollback` | checks outside the transaction, concurrent Serializable transactions, retries, the same deposit delivered twice | the ledger explains the balance, nothing is spent twice or reversed twice, each call is one atomic operation or none |
| transactions (`src/prisma/prisma.service.ts`) | none | `executeTransaction` | serialization failures (P2034), bounded retry, every other error rethrown | a retry neither repeats nor loses an operation, and ends |
| bet placement (`src/bet`, `placeBet`) | `Bet`, the lock `lock:bet:<user>` in Redis, wallet and ledger | lock, validate, odds, risk, reserve, create, exposure, publish, catch, unlock | twelve awaits, a lock of 10 s around them, an error path that releases money, crashes | one placement per user at a time, a bet for each debit and a debit for each bet, what is reserved is held for somebody |
| settlement, cancellation, cashout (`src/bet`, `src/cashout`) | `Bet`, `Cashout`, wallet, ledger, the cashout lock | `settleBet`, `settleBetsByMarket`, `cancelBet`, `cashout`, `partialCashout` | status checked outside the transaction, a read of several SELECTs, READ COMMITTED cashouts, row locks, lock expiry, bets stored behind a settlement | a bet is paid once, no part of it is sold twice, the wallet stays with its ledger, a settlement agrees with the results, a sweep of a settled market closes its bets |
| odds (`src/odds`) | `Selection.odds`, `OddsHistory`, cache of 30 s, odds lock of 30 s | `getCurrentOdds`, `lockOdds`, `validateOddsAtPlacement`, `updateOdds` | cache filled with what an update just replaced, two reads per placement | a stale entry is explained, a placement's price is one of its own time, the history of a price is a chain |
| risk (`src/risk`) | exposure counter in Redis, `Market.currentExposure`, `RiskProfile` | `assessBet`, `trackUserExposure`, `releaseUserExposure`, `updateRiskProfile` | read-modify-write in separate Redis commands and SQL statements, limits compared before the bet is stored | an open bet stays counted, a closed one is released, the profile counts the settlements, only placements that overlap exceed a limit |
| auth (`src/auth`, two updates of `src/user`) | `User` (attempts, lock, refresh token), `UserSession`, session keys | `register`, `login`, `refreshTokens`, `logout` | concurrent attempts, refresh against logout, tokens that are equal within a second | a lock-out holds, a logout stays, attempts are counted |
| market (`src/market`) | `Event`, `Market`, `Selection` | `updateScore`, `updateEventStatus`, `suspendMarket`, `resumeMarket`, `settleMarket` | write, then publish; cancellation in two statements | bets read the columns they rely on, clients see the last value |
| booking (`src/booking`, the hourly job of `src/admin`) | `Booking` row, cache entry | `createBookingCode`, `loadBookingCode`, `expireOldBookings` | the two copies expire by different clocks | a code loads exactly while it lives |
| gateway, notifications, Redis pub/sub | connections, rooms, `userSockets` | connect, disconnect, subscribe, unsubscribe, bridge | at-most-once delivery, publication order, reconnects | clients are in step with the database, results reach their owner only |
| odds arithmetic (`src/common/utils`) | none | combined odds, system combinations, cashout values, odds formats | roundings at different places | what is promised, quoted and paid agrees |
| admin and user reports (`src/admin`, `src/user`), limits | `User.maxDailyLoss`, the rows of the others | `setLimits`, `getDashboardStats`, `getFinancialReport`, `getUserBettingStats`, the midnight reset | rows that cashouts and cancellations have changed | a report is the money in the rows, less what it is known to leave out |
| guards, filters, DTOs, wiring | — | — | — | not modelled |

Parts interact by calls (`placeBet` calls odds, risk, wallet, market), by shared
rows (wallet and bet), by Redis keys (locks, caches, counters) and by Redis
channels (services to the gateway).

## 2. The plan

In order of what a failure would cost:

1. `Ledger`, `AtomicWallet`, `WalletTx`: money, with proofs (done).
2. `BetPlacement`, which composes the atomic wallet with the lock and the error
   path; `BetLifecycle`, everything that can close a bet (done).
3. `OddsCache`, `Exposure`: Redis against the database (done).
4. `Session`, `Booking`, `Broadcast`: accounts, codes, delivery (done).
5. `Pricing` and `BetBook`: prices, limits, what the rows say and the reports read
   (done).  In the same step the sweep of a settled market and the moment a bet is
   stored joined `BetLifecycle`, and the history rows `OddsCache`.
6. Proofs of every safety property of the runs (done, section 5).
7. Once the shared reference `pre-check` is gone: reservations per bet, and with
   them several bets in `BetLifecycle`.

Two abstractions recur.  `AtomicWallet` is the specification of the wallet
that `WalletTx` is shown to implement and that `BetPlacement` then uses in its
place.  A *history* variable (named so where it is declared) records a race or a
failure, so that a property can say "unless exactly this happened"; it guards
nothing.

## 3. The modules and the code

A call is a process.  `pc` says which `await` it is at, a local record what it has
read, and one action is what the code does between two awaits, with every
early return and throw as a disjunct or another value of `pc`.  Operators whose
comment begins with "Faulty" are plausible wrong versions of the operator after
them; the specifications do not use them, they serve to see that each property
notices.

A name beginning with `S`, `E` or `G` (`SInit`, `ENext`, `GInv`) is what other modules call
without it: `Session`, `Exposure` and `Broadcast` each share a module of proofs with
another system, and so may not share its names; `callAt` and `requestAt` are their `pc`.

**`Totals`** has the sum and the product of a function over a finite set, exact fractions
and their rounding, on which `Ledger`, `BetLifecycle`, `Pricing` and `BetBook` build.

**`Ledger`** holds the data: `Wallet`, the `Transaction` rows (indexed by the call
that wrote them, as a call writes at most one), the balance arithmetic with its
`version` increment, and the keys of the unique index.

**`AtomicWallet`** is what the wallet promises: deposit, withdraw, reserve, release and
reverse are atomic on the current wallet and insert or mark rows in the same
step.

**`WalletTx`** is `wallet.service.ts` inside `executeTransaction`.  `Deposit`,
`Withdraw`, `ReserveFunds`, `ReleaseReservation`, `Rollback` start a call; `CheckKey`
and `CheckBalance` are the checks before the transaction; `Begin` takes the
snapshot; the `Commit...` actions are the bodies, enabled only if nothing the
snapshot read has changed (`Serializable`); `Refuse`, `KeyClash`, `Conflict`,
`Abort` are the exits, `Conflict` with the retry count.  PostgreSQL is modelled by
what the code relies on: snapshot reads, a conflict for a changed row, the unique
index.  `confirmBetDeduction` has no caller and is left out.

**`BetPlacement`** is `placeBet`: `Place` (lock), `Validate`, `LockOdds`, `Assess`,
`ReserveStake`, `CreateBet`, `AfterBet`, `CatchFault`, `Unlock`, and `Expire`,
`Crash`, `ToggleMarket`, `OtherWallet` around it.  What the checks look at is
abstracted to their verdict.  `ReserveStake` uses the reference `pre-check`, as the
code does.  The history `kept` has the placements that failed to release or died.

**`BetLifecycle`** takes one bet from the moment its stake is reserved: `StoreBet` or
`StoreFails`; `SettleRead`/`SettleLegs`/`SettleDecide` and `SettleCommit` or `VoidCommit`;
`CancelRead`/`CancelCommit`;
`CashoutLock`/`CashoutRead`/`CashoutDecide`/`CashoutOpen`/`CashoutCommit`/`Unlock`; `SweepFind` and
`SweepRefused` for a call of `settleBetsByMarket`, which looks for the accepted bets
of a market and then settles each.  The reads decide what will be paid, the commits
write by the bet's id without looking at its status again, as the code does.  A
cashout holds the row lock of the bet between `CashoutOpen` and its commit and
writes the balance it computed earlier; settlement and cancellation are
Serializable transactions on the current wallet.  A market row carries its
result, which `SettleMarket` may write again after a `ResumeMarket`.  There is
one bet because the reservation key lets a database have only one (finding 1).
The read of `settleBet` is three steps, because Prisma sends a `findUnique` with nested
includes as one SELECT per table and no transaction is around them: the bet, then
`isWinner` of its selections (`SettleLegs`), then the status of their markets
(`SettleDecide`).  `settleMarket` sets `isWinner` of every selection, so a leg is void
only to a settlement that read it before and its market after that transaction; the
history `raced` records which, and `Judge` has all three outcomes.  A partial cashout
sells a percentage and stores the part sold and the stake left each rounded to cents
(`PlanPartial`), so that they may make a cent more than the stake.

**`OddsCache`** is one selection: `Fetch`, `LockOdds`, `GetCached`, `GetStored`,
`Fill`, `Judge`, `Hold`, `ReleaseOddsLock` for a placement; `UpdateOdds` (reads
the old price), `Write` (price and history row), `Invalidate` for an operator.
The tolerance is the code's arithmetic on integers.  A placement calls `getCurrentOdds`
twice and judges the second answer.  The history `since` is how many changes there were when
it fetched the odds, `misled` whether that answer came from an entry that differed from
the database, for one of the reasons of `Explained`.

**`Exposure`** starts after the transaction of a placement: `TrackExists`,
`TrackZero`, `TrackIncr` are the three Redis commands (with the market's atomic
increment), `ReleaseGet`/`ReleaseSet` the two of a release, `ReadProfile`/
`SaveProfile` the two statements of `updateRiskProfile`.  There is one bet, so a release
cannot spoil the count of another.

**`Session`** is one account after `register` (with or without its last step):
`FindUser`, `Compare`, `CountAttempt` or `ResetAttempts`,
`SaveRefreshToken`, `CreateSession`, `CacheSession`; `Refresh`;
`Logout` with its three statements in any order.  A token is the second it was
signed in, because its payload is the user and `iat`.  The comparison of a refresh
token always succeeds for a token of the account: bcrypt looks at the first 72
bytes, which are the same in all of them, so rotation does not refuse an older
token.

**`Booking`** is one code with one selection: `Compute`, `CreateRow`,
`CacheBooking`; `LoadCached`, `LoadStored`, `Enrich`; the job `ExpireOld`; odds,
market and clock.

**`Broadcast`** is one event, its market and one bet: the services' write and
`Publish`, a FIFO `wire`, the gateway's `Handle`, the connections and their rooms.  The
bet is closed by calls that found it open (`FindBet`) and write it later: `SettleBet` and
`CloseBet` publish, `RefundBet` (cancelBet and `_voidBet`) does not.
`Lose` is the subscriber being disconnected.  `Reload` is the client: it queries a
topic when it begins to listen to it and forgets it when it stops.  A partial cashout
changes no result, and its message none that is shown.  Not modelled: `odds:update` (the gateway drops it, below), `bet:placed` and the
`notification:` channels (nothing depends on them).

**`Pricing`** is the arithmetic of `common/utils`, without state: `CombinedOdds`,
`Combinations`, `SystemOdds`, `CashoutValue`, `Remaining` and the odds formats, on
exact fractions; `Rounded` is where a column or `toDecimalPlaces` rounds.  Recursion, as
in `Combinations`, is a recursive function.

**`BetBook`** extends it with the rows: `Place` prices a bet and compares it with the
limits of `assessBet`, `Store` inserts it, `Track` adds it to its market's exposure,
each at a moment of its own; `CancelBet`, `SettleBet`, `Cashout`, `PartialCashout`
are one step each, because `BetLifecycle` has how they overlap and the subject here is
what they write; so no leg is void here.  `UpdateOdds`, `SetLimits`, `Midnight` change what the next bet is
compared with; `DashboardStats`, `FinancialReport`, `UserBettingStats` and `Quote` are
the reports as functions of the rows.  The reservation between `Place` and `Store` is its
outcome: with the key of finding 1 only one bet would ever be stored, and the
limits are about what several bets may do together.

The `MC*` modules only name values for the `.cfg` files.

## 4. The runs

| Run | Instance | What it shows |
|---|---|---|
| `WalletTx` | 3 calls, 2 users, 1 amount, 1 deposit reference, 2 attempts | `IInv`; `BalanceIsLedger`; `ReversedOnce`; `NoOverdraft`; `Termination`; `AtomicSpec` (it implements `AtomicWallet`) |
| `BetPlacement_safety` | 3 requests, 2 users | `NoDoubleSubmission`, `Solvent`, `StakeHeld`, `StakesCharged`, `DebitRecorded` |
| `BetLifecycle_safety` | 2 operations on one bet with two legs, 2 percentages, no sweeps | `ClosingsMet`, `StakeAccounted` (no part is sold twice or lost, to a cent per part), `ResultStands` (what a settlement pays is what the results say, but for markets settled between its reads), `DriftIsStaleCashout` |
| `BetLifecycle_live` | 2 operations on one bet with one leg, one of them may be a sweep; 2 results of the market | `Answered`, `SweepCloses` |
| `OddsCache` | 2 placements, 2 updates | `StaleExplained`, `PriceLived` (a price is of the time of its placement unless it came from a stale entry), `ChangesChain` |
| `Exposure` | 3 operations around a placement | `CounterFollowsBet` (an open bet is counted, releases by operations that all read the bet as placed leave nothing), `ProfileCounts` |
| `Session` | 3 calls, 2 seconds, 2 attempts | `LockHolds`, `AttemptsCounted`, `SessionEnded`, `SignedOutStays` |
| `Booking` | 1 load, life 2, clock to 6 | `CodeLife` |
| `Broadcast` | 2 updates, 2 connections | `InStep` (with a cancelled event's markets closed; what is never published is excepted) |
| `BetBook` | 2 bets, 2 users, 3 legs, a multi and a system slip, 1 partial cashout per bet, 2 changes of prices, limits or the day | `DailyLimitHeld`, `MarketLimitHeld`, `PricedRight`, `ReportsReconcile` |
| `BetPlacement_duplicate` | 2 requests | finding 1 |
| `BetLifecycle_balance` | 2 operations | finding 2 |

Each module has one type invariant besides.  It is a part of the inductive invariant
(`IInv`, `SInv`, `EInv` or `GInv`), which the run checks in its stead: so TLC has seen on
the small instance what the proofs of section 5 rest on.

*Why the bounds are enough.*  The hazards are pairwise (a check and a writer, a
lock and its successor, a read and an invalidation); where a run has three calls, a third
can finish between the two, and a lock pass to a successor whose holder then
ends.  `BetLifecycle_safety` has two, because two legs let a settlement see some of the results
and miss others, and a stake of 2 sold by halves or three quarters rounds both ways; what a
third operation adds (a lock with a second successor, three parts) is covered by the theorems,
which hold for any number of operations and markets.  One amount is enough where amounts only have to be available or not: two
users with 3 and 2 units and stakes of 2 make the second reservation of a wallet
fail.  Two attempts cover "retried" and "given up".  In `OddsCache` 19 is within
five percent of 20 and 10 is not; in `Exposure` a partial cashout may lower or
raise `potentialWin`, or rewrite it at live odds to what it was; in `Session` two failures lock, two seconds give equal and
different tokens, and the account may start with the tokens of `register`;
in `BetBook` two stakes of 3 and 4 pass a limit of 6 alone and not together, the
maximum of a market (13) admits either slip and not both, and the stakes and prices
do not divide evenly, so every rounding happens (`MaxParts`, `MaxChanges` bound
partial cashouts and changes of the world); `MaxSettles` bounds the results of a market
and `Sweepers` the calls that may be sweeps in `BetLifecycle`;
in `Booking` loads write nothing, so one is as good as many, and the clock passes the life of a code whenever it is made.  Symmetry is used only
for interchangeable calls and connections, and never in a run with a temporal
property other than a box.  Deadlock checking is off in every run: calls are
finite in number and a system that has answered them all stops.

*Fairness* is assumed in `WalletTx` and in `BetLifecycle_live`.  `WF` of a call's own
steps stands for the event loop, PostgreSQL and Redis answering or failing: each
step of a call is either taken or replaced by a failure of it, and nothing obliges
a call to *succeed*.  `WF` of `Expire` stands for a Redis TTL.  Nothing is assumed
about users, operators or crashes, and no strong fairness is used: a step that waits
for a row lock waits for a holder that itself ends.  `SweepCloses` therefore speaks
of a sweep that was called; that somebody calls one is nobody's duty in the code.

## 5. What is proved

Every invariant and every action property that a passing run checks is a theorem, and so
is the refinement of `AtomicWallet`.  They hold for all values of the constants that the
assumptions below allow, sets of calls, users and amounts of any size among them.  For each
system `Invariance` (`Spec => []IInv`) and `TypeCorrect` (`Spec => []TypeOK`) are proved,
with the name of the system in front where a module has two; the others are:

| Module | About | Theorem | States |
|---|---|---|---|
| `WalletTxProofs` | `WalletTx` | `FreshSnapshots`, `SingleReversal`, `LedgerExplains` | `SnapshotsFresh`, `ReversedOnce`, `BalanceIsLedger` |
| | | `Overdraft` | the action property `NoOverdraft` |
| | | `Implementation` | `Spec => AtomicSpec`: `WalletTx` implements `AtomicWallet` |
| `BetPlacementProofs` | `BetPlacement` | `OneAtATime`, `Solvency`, `Holding`, `Charging`, `Recording` | `NoDoubleSubmission`, `Solvent`, `StakeHeld`, `StakesCharged`, `DebitRecorded` |
| `BetLifecycleProofs` | `BetLifecycle` | `OnePayout`, `StakeAccounting`, `Results` | `ClosingsMet`, `StakeAccounted`, `ResultStands` |
| | | `OnlyStaleCashoutsDrift` | the action property `DriftIsStaleCashout` |
| `RedisProofs` | `Exposure` | `CounterRight`, `ProfileRight` | `CounterFollowsBet`, `ProfileCounts` |
| | `OddsCache` | `StaleOnlyWhenExplained`, `PricesLived`, `HistoryChains` | `StaleExplained`, `PriceLived`, `ChangesChain` |
| `UserProofs` | `BetBook` | `DailyLimit`, `MarketLimit`, `ReportsAddUp`, `BetsPricedRight` | `DailyLimitHeld`, `MarketLimitHeld`, `ReportsReconcile`, `PricedRight` |
| | `Pricing` | `CombinationsComplete` | `Combinations` yields exactly the sets of *k* legs |
| | `Session` | `LogoutEnds`, `AttemptsAreMisses` | `SessionEnded`, `AttemptsCounted` |
| | | `LockOpensRightly`, `SignedOutRightly` | the action properties `LockHolds`, `SignedOutStays` |
| `ClientProofs` | `Broadcast` | `ClientsInStep` | `InStep` |
| | `Booking` | `LoadsWhileItLives` | `CodeLife` |

`TotalsProofs` has the lemmas about sums and products, `LedgerProofs` those about the rows
of a ledger.  `RedisProofs`, `UserProofs` and `ClientProofs` extend two systems each, whose
constants and variables are disjoint: a theorem is about the one whose specification it
names, and says nothing of the other.

*Assumptions.*  All are about constants, named, in the module that declares them: amounts
and opening balances are naturals; at least one attempt is made, a lock-out needs at least
one failure, a code lives at least one unit; a stake, a price and the potential win are
positive; the bet of `BetLifecycle` belongs to a user who could pay its stake, as placement
has checked; the tolerance is a natural; the markets of a bet are finitely many, with odds of at least one
unit, and the percentages of a partial cashout are between nothing and all; no score is the word
for an open or a refunded bet; a slip has
legs of its number and a positive stake, the prices of a leg and the daily limits are
finite, nonempty sets, and the bets of the book are finitely many; the values that stand
for "nobody" and "none" are none of the values they stand beside.  Only `PricedRight` needs
the next two.  `DecimalAssumption`: decimal odds count the stake, so no price is below one,
and the prices whose formats are converted are above it, where `decimalToAmerican` does not
divide by zero.  `MinOddsAssumption`: the least odds of a cashout exceed one by more than the
rounding of `totalOdds` can make up for, that is by a factor of at least the square of
1 + 1/(2 x `TotalUnit`); with four decimals that is about 1.0001, and `CASHOUT_MIN_ODDS` is
1.05 unless it is set.  The bounds of section 4
(`MaxParts`, `MaxChanges`, `EndTime`, `LastSecond`, `MaxSettles`) are constants of any value
here: what the runs see with two or three calls is proved for any number of them, around
the one bet, selection, account, event or code that a module is about, and in `BetBook`
around any number of bets.

*Sums.*  `Total(f, S)` adds a function over a finite set with the fold of the
community modules.  `TotalsProofs` shows that it is zero on the empty set, takes any
element off (`TotalSplit`), looks at nothing outside the set (`TotalSame`), is monotone
(`TotalMonotone`) and linear (`TotalAdd`), and counts a part of the set as the rest were
zero (`TotalFilter`), and that a sum can be taken in parts (`TotalUnion`), over other names
of its elements (`TotalShift`), or multiplied at once (`TotalScale`).  `ProductSplit`,
`ProductConstant` and `ProductGrows` say what is needed of products.  The
library's induction theorems take an operator as a parameter, which the provers cannot
instantiate; so `SumsExist` and the lemmas after it take a smallest set for which the claim
would be false, by `WFMin` on the well-founded order of subsets, and contradict it.
`CombinationsComplete` goes the same way, over the number of legs.  `Gcd` and
`SumOfProducts` are recursive functions; that they satisfy their recursion has to be proved
too, by naming a function that does.  The
`Moved...` lemmas say what inserting a row, marking rows, or both do to the money a ledger
moved; they carry `LedgerExplains`, `Charging` and `OnlyStaleCashoutsDrift`.

*The arguments.*  In every module the type invariant alone is not inductive, because an
action writes what an earlier one read.  `IInv` adds what a call carries at each value of
`pc`, and how that relates to the shared state now.

- `WalletTx`: a commit writes what the snapshot says, so `SnapshotsFresh` (while the
  version is current, so is the wallet that was seen), `CallsOK` and `RowsSeen` (what the
  rows of a snapshot are, and that none is missing while the version is current).
  `Committed` collects what all commits have in common.  `LedgerInv` is a second
  invariant: keys are unique, a `ROLLBACK` row has the key of the row it names,
  reservations are never negative; `SingleReversal` and `Overdraft` follow.
  `Implementation` maps the variables by name: with the conflict check and `IInv` the
  snapshot equals the wallet and the rows, so each commit is the operation of `AtomicWallet`,
  and every other step stutters.
- `BetPlacement`: `LockKept` (a placement in flight holds the lock of its user, or has
  lapsed) gives `OneAtATime`.  `RowsOK` says which row a placement has at each `pc` and
  that keys are unique; the key of a reservation being one for all, there is at most one
  reservation (`OneReservation`), hence `HeldOnce`: what is reserved belongs to one placement.
  That is what `CatchFault` and `OtherWallet` need to keep `Solvent` and `StakeHeld`.
  `Charging` adds the sum lemmas: a bet's debit and the bet come in the same step.
- `BetLifecycle`: `MetOK` says that whoever is in flight together has met, and whoever has
  read an open bet has met all that closed it since; `LockKept` and `StakeRead` say
  that a cashout works on the current stake or overlapped another behind an expired lock.
  `PartsOK` says that a partial cashout divides the stake it read to a cent (lemma `Shares` of
  `TotalsProofs`, about rounding two parts of a number).
  `OnePayout` and `StakeAccounting` follow; `SeenOK` (a wallet whose version is the
  one a cashout read has the balance it read) says that a cashout which is not stale adds
  to the current balance, and `OnlyStaleCashoutsDrift` goes through the actions with
  the `Moved` lemmas.  `LegsOK` says that a result read is still the market's, or
  the market was settled since, and `ResultsOK` that what was decided from them agrees with the
  results, up to the markets in `raced`.
- `OddsCache`: `ShownCurrent` says that the odds an update will record as old are the
  current ones or were replaced by an update it met; a new row of the history then
  links to the last one.  `ReadingsOK` says that what a placement carries from one await to the
  next was the selection's odds at some moment since its fetch: a reading of the database is,
  and stays so whatever is written (`WriteTimely`), and an entry is what the database has
  unless that is explained (`StaleExplained`); `PricesLived` follows.
- `Exposure`: `TrackOK` and `ReleaseOK` say where the counter is between the separate Redis
  commands, `ProfileOK` that a settlement about to write the profile has read what is
  counted, or raced.
- `Session`: `CallsOK` says what a login, refresh or logout has passed: a count is
  current unless logins crossed, an admitted login precedes the lock, a refresh that will
  write has seen the token or overlapped the logout.
- `Broadcast`: a call in flight whose topic nobody has written since bears what the
  database has, and there is at most one (`BearersOK`); what nobody bears, and was not lost
  or overtaken, is the last message of its topic on the wire (`Coming`) or is shown by all who
  hear of it (`Arrived`).  `WireOK` says so at every moment, and at rest it is `InStep`.
- `BetBook`: `MetOK` records which placements were in flight together.  `DayRoom` says that
  a placement, once assessed, has room under its limit beside all bets of the day that it has
  not met; so of bets no two of which met, the one assessed last bounds the sum (`DayFits`),
  as stakes only shrink and a limit is compared as it was read.  `MarketRoom`, `MarketFits`
  and `ExposureOK` say the same of a market, whose counter is what its tracked bets may win.
  `RowOK` relates the columns of a row to what was credited for it; `ReportsAddUp` is its
  sum over the rows, by the linearity of `Total`.  `BetsPricedRight` has a lemma for each of
  its parts.  `SumsRight`: the combinations with the last leg and those without it make the
  sum over combinations obey the recurrence of `SumOfProducts`, and a recurrence has one
  solution (`OddsAreSums`).  `WinnersRight`: rounding the odds and then the win stays within a
  cent and half of the last digit of the odds per cent staked of rounding once
  (`RoundedTwice`).  `QuotesRight`: the promised odds are at least one and within half a digit
  of the stored ones (`PricedAt`, `RoundedOdds`); the quote is the smaller of
  `potentialWin`, which a cashout does not exceed (`CashoutBelowWin`), and a value that
  differs from the cashout by the roundings alone (`NearQuote`).  `FormatsRight`: `Gcd` keeps the set of common
  divisors (`EuclidDivisors`, `GcdIs`), so what it divides by leaves none (`LowestTerms`).
- `Booking`: `MadeInOrder` and `EntryLives` say how the row's expiry, the entry's TTL and
  the clock relate; `LoadsOK` what a load has read of them.

*Only model-checked.*  The liveness properties `Termination`, `Answered` and `SweepCloses`:
liveness under fairness is beyond the prover.

## 6. Findings

1. **One reservation per database** (`BetPlacement_duplicate`).  `placeBet` reserves
   under the bet id `'pre-check'` (`src/bet/bet.service.ts:172`), so the unique key of every
   reservation is `reserve:pre-check`.  After the first one every placement of every
   user fails with a unique violation.  `README.md:248` promises idempotency keys that
   make retries safe.
2. **A cashout overwrites the wallet** (`BetLifecycle_balance`).  `_executeCashout` writes
   balance := read + amount in a transaction without an isolation level
   (`src/cashout/cashout.service.ts:164`), so a deposit, withdrawal or settlement committed
   since the read is lost; `README.md:245` promises Serializable transactions.
   `DriftIsStaleCashout` shows that this is the only way the balance leaves its ledger.

Other disagreements between code and text, part of the models but without a run:

- `rollback` refuses only `ROLLED_BACK` rows (`wallet.service.ts:287`), so it "reverses" a
  PENDING reservation and credits money never taken; its comment (line 277) and
  `README.md:125` speak of completed transactions.
- `releaseReservation` marks the PENDING rows of the reference, of any user
  (`wallet.service.ts:270`); the bet of another user is then created without its ledger
  row (`README.md:117`).  `DebitRecorded` says when.
- The catch block of `placeBet` swallows the failure of the release
  (`bet.service.ts:264`): the stake of a failed placement stays reserved.
- `settleBet`, `cancelBet` and the cashouts check the status before their transaction and
  update by id: overlapping ones both pay.  `ClosingsMet` says that only
  overlapping ones do.
- `settleBet` reads the bet, its selections and their markets by separate SELECTs
  (`bet.service.ts:398`).  A market settled between the last two is `SETTLED` with a result
  read as null, so its leg counts as void (lines 424-448; `README.md:128` speaks of void
  and partial void): a single is refunded, and a multi with a lost leg can be paid without it.
  `ResultStands` shows that this race is the only way a settlement disagrees with the
  results.  `_voidBet` then releases no exposure and leaves the risk profile alone.
- `settleMarket` settles no bets (`README.md:128` says it does): somebody has to call
  `settleBet` or `settleBetsByMarket`.
- `updateOdds` does not look at the odds lock, and a placement that does not get the lock
  goes on (`README.md:249` says the lock holds the price).
- `getCurrentOdds` may fill the cache after the invalidation of the update that replaced
  its value; `StaleExplained` names the cases.
- `releaseUserExposure` rewrites the counter without a TTL, and a cashout releases nothing, so
  the counter of a user without open bets can stay above zero (`README.md:123`).
- `updateOdds` publishes `odds:update` without a `marketId`, and the gateway broadcasts it
  only if there is one (`websocket.gateway.ts:221`): the `odds:updated` of `README.md:212` is
  never emitted.  No channel `notification:<user>` has a subscriber, and `bet:placed` and
  `market:resumed` go to every connection.
- `userSockets` maps a user to a set that is never filled, so the first disconnection removes
  the user (`websocket.gateway.ts:99`); nothing but a count reads it.
- Cancelling an event suspends its markets without publishing it, and `cancelBet` and
  `_voidBet` close a bet without publishing it, so other connections of its owner go on
  showing it open until they load it again (`InStep` excepts both).
- A system bet is priced by its combinations and settled like an accumulator: one losing
  leg loses all of it (`bet.service.ts:425`).
- A partial cashout sets `potentialWin` from the odds of that moment
  (`cashout.service.ts:172`), while settlement pays the stored `totalOdds`; and
  `partialCashoutStake` is overwritten, so it holds the last part only.
- `getCashoutValue` shows about 95 % of `potentialWin` at unchanged odds
  (`cashout.service.ts:304`), a cashout pays about 95 % of the stake (line 158).
  `QuoteCovers` says the quote is never the lower one before a partial cashout.
- Both halves of an odd cent round up, so a stake of one cent can be sold by halves for as
  long as the bet is open; `StakeAccounted` and `PartsAddUp` allow that cent per partial
  cashout.
- `Market.currentExposure` only grows and is a column, not a key in Redis (`README.md:123`); the
  market that is charged for a multi is that of the first row `findMany` returns.
  `resetDailyExposure` and its weekly sister clear columns nothing reads, and nothing ever
  sets `riskScore`, so its threshold of 90 in `assessBet` is out of reach.
- `getFinancialReport` counts cancelled stakes as staked, no report has the parts that were
  sold, and each report is several statements, not one snapshot.  `ReportsReconcile` has
  the amounts for rows that stand still.
- `convertOdds` from `FRACTIONAL` parses a number as `a/b` and returns `NaN`.

## 7. Not modelled

Lists and other queries, the audit log, configuration rows, guards, filters and DTOs have
no protocol.  `createEvent`, `createMarket`, `suspendSelections`, `flagForReview` and the
weekly reset are single statements.  `confirmBetDeduction` and several Redis helpers
have no caller.  Ids and references are random and stand as model values.  That a
report is computed from several statements at different moments is not modelled; nothing
says what it should then show.  Floats in the middle of a computation are exact
fractions in `Pricing`: where the code goes through `number`, an error in the last
binary digit could move a value that lies exactly on half a cent.  GraphQL subscriptions use an in-process `PubSub` after the
service call and carry no state.  Zero amounts are refused by `wallet.service.ts` and are
covered by the proofs (amounts are any naturals) but not by the instance of `WalletTx`.
