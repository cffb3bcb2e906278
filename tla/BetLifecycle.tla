----------------------------- MODULE BetLifecycle -----------------------------
(***************************************************************************)
(* The life of a bet: the transaction of placeBet that stores it,          *)
(* settleBet, settleBetsByMarket and cancelBet of bet.service.ts, cashout  *)
(* and partialCashout of cashout.service.ts, with the markets and the      *)
(* clock moving under them, other operations on the owner's wallet, lock   *)
(* expiry and crashes.                                                     *)
(*                                                                         *)
(* Every operation reads the bet, checks it and computes what to pay       *)
(* outside any transaction; its transaction then writes the bet by id      *)
(* only.  The read itself is a findUnique or findFirst with nested         *)
(* includes, which Prisma sends as one SELECT per table: first the Bet,    *)
(* then its BetSelections (which stay as they are), the Selections and the *)
(* Markets, each SELECT on what is committed by then.  settleBet uses      *)
(* isWinner of the third and the status of the fourth, a cashout           *)
(* isSuspended of the fourth; cancelBet uses the bet and the start of its  *)
(* events, which only lets less pass when it is read later: reading both   *)
(* at the first instant is the same call with a later start.               *)
(*                                                                         *)
(* settleBet, _voidBet and cancelBet use executeTransaction, whose         *)
(* Serializable transactions happen at one instant (theorem Implementation *)
(* of WalletTxProofs); a retry runs the same closure again on the bet read *)
(* before, so it is the same instant later.  A cashout uses $transaction   *)
(* with the database's default, READ COMMITTED: it updates the bet, which  *)
(* locks its row, then reads the wallet, then writes balance := read +     *)
(* amount over whatever was committed in between.                          *)
(*                                                                         *)
(* One bet: placeBet's reservation key can be inserted once (run           *)
(* BetPlacement_duplicate), so a database has at most one.  The odds of    *)
(* its legs stay fixed; the value of a cashout is some amount of           *)
(* CashValues.                                                             *)
(***************************************************************************)
EXTENDS AtomicWallet

CONSTANTS
    TheBet,      \* the request that placed the bet, and so its id
    Owner,       \* who placed it
    Stake,       \* what it staked
    TotalOdds,   \* at which odds
    Markets,     \* the markets of its selections
    LegOdds,     \* the odds of the selection in each
    CashValues,  \* what a cashout may be worth
    Whole,       \* the units of a percentage, so 100 percent
    Parts,       \* the percentages a client may cash out
    Sweepers,    \* bound: the requests that may be calls of settleBetsByMarket
    MaxSettles,  \* bound: how often a market is settled
    Nobody       \* a lock key that does not exist

ASSUME BetAssumption ==
    /\ TheBet \in Requests /\ Owner \in Users
    /\ Stake \in Nat \ {0} /\ TotalOdds \in Nat \ {0}
    /\ Stake <= Opening[Owner]
ASSUME MarketsAssumption ==
    /\ IsFiniteSet(Markets) /\ Markets # {}
    /\ LegOdds \in [Markets -> Nat \ {0}]
ASSUME CashAssumption ==
    /\ CashValues \subseteq Nat
    /\ Whole \in Nat \ {0} /\ Parts \subseteq 1 .. Whole - 1
ASSUME SweepersAssumption == Sweepers \subseteq Requests /\ MaxSettles \in Nat
ASSUME NobodyAssumption == Nobody \notin Requests

VARIABLES
    bet,      \* the Bet row: its status and stake
    partials, \* the requests that recorded a partial cashout
    sold,     \* Cashout.partialStake of that cashout
    market,   \* status, isSuspended, isWinner of the bet's selection, and how often
              \* it was settled (history)
    started,  \* an event of the bet has started
    lock,     \* cashout:lock:<bet>: the request whose token is stored
    pc,       \* where each request is
    plan,     \* what each request read of the bet, and decided
    legs,     \* isWinner of the bet's selections, as each settleBet in progress read it
    seen,     \* the wallet each open cashout transaction read
    met,      \* history: pairs of requests that were in flight together
    lapsed,   \* history: cashouts whose lock expired while they were in flight
    raced,    \* history: <<p, m>> where m was settled while the settleBet of request p
              \* had read its selection and not yet the market
    swept     \* history: the sweeps that looked for the stored bet after its last
              \* market was settled

betVars == <<bet, partials, sold>>
worldVars == <<market, started, raced, swept>>
ownVars == <<legs, seen>>
vars == <<wallet, ledger, bet, partials, sold, market, started, lock, pc, plan, legs, seen,
          met, lapsed, raced, swept>>

\* Requests that have read the bet, or are about to under its cashout lock.
Acting == {"legs", "markets", "settling", "voiding", "cancelling",
           "locked", "checking", "cashing", "paying", "unlock"}

\* Those that have read it, and those between the lock and the finally of a cashout.
Decided == Acting \ {"locked", "unlock"}
Cashing == {"locked", "checking", "cashing", "paying", "unlock"}

InFlight == Acting \cup {"create", "sweeping"}

Ended == {"done", "failed", "crashed"}

\* What the request read, status ACCEPTED and the stake; and when it has decided, what
\* it will write: the bet's new status (ACCEPTED for a partial cashout, which leaves the
\* column alone), the stake it leaves, the part it sells and what it pays.
Plan == [status : {"ACCEPTED", "WON", "LOST", "VOID", "CANCELLED", "CASHED_OUT"},
         stake : Nat, left : Nat, part : Nat, pays : Nat]

NoPlan == [status |-> "NONE"]

\* The selections without a result, as Init has them.
NoLegs == [m \in Markets |-> "null"]

NoWallet == [balance |-> 0]

\* Bet.status, NONE while there is no row; no step makes a bet PENDING or REJECTED.
BetStatuses == {"NONE", "ACCEPTED", "WON", "LOST", "VOID", "CANCELLED", "CASHED_OUT"}

NoBet == [status |-> "NONE", stake |-> Stake]

\* placeBet has checked the markets and reserved the stake.
Init ==
    /\ wallet = [u \in Users |->
          IF u = Owner THEN SetReserved(OpeningWallet(u), Stake) ELSE OpeningWallet(u)]
    /\ ledger = [EmptyLedger EXCEPT ![TheBet] =
          ReserveRow(Owner, Stake, Opening[Owner], PreCheck)]
    /\ bet = NoBet
    /\ partials = {}
    /\ sold = [p \in Requests |-> 0]
    /\ market = [m \in Markets |-> [status |-> "OPEN", suspended |-> FALSE, won |-> "null",
                                settled |-> 0]]
    /\ started = FALSE
    /\ lock = Nobody
    /\ pc = [p \in Requests |-> IF p = TheBet THEN "create" ELSE "idle"]
    /\ plan = [p \in Requests |-> NoPlan]
    /\ legs = [p \in Requests |-> NoLegs]
    /\ seen = [p \in Requests |-> NoWallet]
    /\ met = {}
    /\ lapsed = {}
    /\ raced = {}
    /\ swept = {}

Goto(p, l) == pc' = [pc EXCEPT ![p] = l]

\* p reads the row of the bet.
ReadBet(p) ==
    plan' = [plan EXCEPT ![p] =
        [status |-> bet.status, stake |-> bet.stake, left |-> bet.stake, part |-> 0,
         pays |-> 0]]

\* It decides to close the bet.
Decide(p, status, pays) ==
    plan' = [plan EXCEPT ![p] = [@ EXCEPT !.status = status, !.pays = pays]]

\* History: p comes into flight among the others.
Meet(p) == met' = met \cup {{p, q} : q \in {r \in Requests \ {p} : pc[r] \in Acting}}

\* An open cashout transaction holds the row lock of the bet.
RowLocked == \E p \in Requests : pc[p] = "paying"

-------------------------------------------------------------------------------
\* placeBet, from step 10 on

\* The transaction that creates the bet; it looks at no market again.
StoreBet(p) ==
    LET w == wallet[Owner]
    IN  /\ pc[p] = "create" /\ w.reserved >= Stake
        /\ wallet' = [wallet EXCEPT ![Owner] =
              [balance |-> w.balance - Stake, reserved |-> w.reserved - Stake,
               version |-> w.version + 1]]
        /\ ledger' = [t \in Requests |->
              IF t \in Reservations(ledger, PreCheck) /\ ledger[t].user = Owner
              THEN [ledger[t] EXCEPT !.ref = p, !.status = "COMPLETED",
                                     !.after = w.balance - Stake]
              ELSE ledger[t]]
        /\ bet' = [bet EXCEPT !.status = "ACCEPTED"]
        /\ Goto(p, "done")
        /\ UNCHANGED <<partials, sold, worldVars, lock, plan, ownVars, met, lapsed>>

\* It is refused or fails, and the catch block releases the stake if it can.
StoreFails(p) ==
    /\ pc[p] = "create"
    /\ Release(Owner, Stake) \/ UNCHANGED <<wallet, ledger>>
    /\ Goto(p, "failed")
    /\ UNCHANGED <<betVars, worldVars, lock, plan, ownVars, met, lapsed>>

-------------------------------------------------------------------------------
\* settleBet, settleBetsByMarket

AllSettled(mk) == \A m \in Markets : mk[m].status = "SETTLED"

\* Faulty SweepFind: the bets that are PENDING, which none ever is.
SweepPending(p) ==
    /\ pc[p] = "idle" /\ p \in Sweepers
    /\ Goto(p, IF bet.status = "PENDING" THEN "sweeping" ELSE "done")
    /\ swept' = IF bet.status = "ACCEPTED" /\ AllSettled(market) THEN swept \cup {p} ELSE swept
    /\ UNCHANGED <<wallet, ledger, betVars, market, started, raced, lock, plan, ownVars, met,
                   lapsed>>

\* settleBetsByMarket for one of the bet's markets finds the ACCEPTED bets, and
\* will call settleBet for each.
SweepFind(p) ==
    /\ pc[p] = "idle" /\ p \in Sweepers
    /\ Goto(p, IF bet.status = "ACCEPTED" THEN "sweeping" ELSE "done")
    /\ swept' = IF bet.status = "ACCEPTED" /\ AllSettled(market) THEN swept \cup {p} ELSE swept
    /\ UNCHANGED <<wallet, ledger, betVars, market, started, raced, lock, plan, ownVars, met,
                   lapsed>>

\* settleBet reads the bet, which must be ACCEPTED.
SettleRead(p) ==
    /\ pc[p] \in {"idle", "sweeping"}
    /\ bet.status = "ACCEPTED"
    /\ ReadBet(p)
    /\ Goto(p, "legs") /\ Meet(p)
    /\ UNCHANGED <<wallet, ledger, betVars, worldVars, lock, ownVars, lapsed>>

\* The next SELECT: isWinner of its selections.
SettleLegs(p) ==
    /\ pc[p] = "legs"
    /\ legs' = [legs EXCEPT ![p] = [m \in Markets |-> market[m].won]]
    /\ Goto(p, "markets")
    /\ UNCHANGED <<wallet, ledger, betVars, worldVars, lock, plan, seen, met, lapsed>>

\* The odds of the legs in S: those of the bet, or calculateCombinedOdds of the legs
\* that are not void.
OddsOf(S) == IF S = Markets THEN TotalOdds ELSE Product(LegOdds, S)

\* What the results p read make of the bet: it is lost with one leg; a leg without a
\* result is void and does not count; all void, the stake goes back.
Judge(p) ==
    LET yes == {m \in Markets : legs[p][m] = "yes"}
        void == {m \in Markets : legs[p][m] = "null"}
    IN  \/ /\ yes \cup void # Markets
           /\ Decide(p, "LOST", 0) /\ Goto(p, "settling")
        \/ /\ void = Markets
           /\ Decide(p, "VOID", plan[p].stake) /\ Goto(p, "voiding")
        \/ /\ yes \cup void = Markets /\ void # Markets
           /\ Decide(p, "WON", plan[p].stake * OddsOf(yes)) /\ Goto(p, "settling")

\* Faulty SettleDecide: the statuses of the markets are not checked.
SettleDecideEarly(p) ==
    /\ pc[p] = "markets" /\ Judge(p)
    /\ legs' = [legs EXCEPT ![p] = NoLegs]
    /\ UNCHANGED <<wallet, ledger, betVars, worldVars, lock, seen, met, lapsed>>

\* The last SELECT: every market must be SETTLED; then the results that were read
\* before decide, or else settleBet refuses.
SettleDecide(p) ==
    /\ pc[p] = "markets"
    /\ \/ AllSettled(market) /\ Judge(p)
       \/ ~AllSettled(market) /\ Goto(p, "done") /\ UNCHANGED plan
    /\ legs' = [legs EXCEPT ![p] = NoLegs]
    /\ UNCHANGED <<wallet, ledger, betVars, worldVars, lock, seen, met, lapsed>>

\* settleBet refuses; settleBetsByMarket counts it as failed and answers.
SweepRefused(p) ==
    /\ pc[p] = "sweeping"
    /\ bet.status # "ACCEPTED"
    /\ Goto(p, "done")
    /\ UNCHANGED <<wallet, ledger, betVars, worldVars, lock, plan, ownVars, met, lapsed>>

\* The Serializable transaction: bet.update by id; a winner is credited.
SettleCommit(p) ==
    /\ pc[p] = "settling" /\ ~RowLocked
    /\ bet' = [bet EXCEPT !.status = plan[p].status]
    /\ IF plan[p].pays > 0
       THEN Move(p, ledger, Owner, "BET_WIN", plan[p].pays, TheBet, RandomKey(p))
       ELSE UNCHANGED <<wallet, ledger>>
    /\ Goto(p, "done")
    /\ UNCHANGED <<partials, sold, worldVars, lock, plan, ownVars, met, lapsed>>

\* _voidBet's transaction: bet.update by id, and the stake goes back.
VoidCommit(p) ==
    /\ pc[p] = "voiding" /\ ~RowLocked
    /\ bet' = [bet EXCEPT !.status = plan[p].status]
    /\ Move(p, ledger, Owner, "BET_REFUND", plan[p].pays, TheBet, RandomKey(p))
    /\ Goto(p, "done")
    /\ UNCHANGED <<partials, sold, worldVars, lock, plan, ownVars, met, lapsed>>

-------------------------------------------------------------------------------
\* cancelBet

\* The bet is read, and its stake will go back.
PlanCancel(p) ==
    plan' = [plan EXCEPT ![p] =
        [status |-> "CANCELLED", stake |-> bet.stake, left |-> bet.stake, part |-> 0,
         pays |-> bet.stake]]

\* Faulty CancelRead: the status of the bet is not checked.
CancelReadAny(p) ==
    /\ pc[p] = "idle" /\ ~started /\ bet.status # "NONE"
    /\ PlanCancel(p)
    /\ Goto(p, "cancelling") /\ Meet(p)
    /\ UNCHANGED <<wallet, ledger, betVars, worldVars, lock, ownVars, lapsed>>

CancelRead(p) ==
    /\ pc[p] = "idle"
    /\ bet.status \in {"PENDING", "ACCEPTED"}
    /\ ~started
    /\ PlanCancel(p)
    /\ Goto(p, "cancelling") /\ Meet(p)
    /\ UNCHANGED <<wallet, ledger, betVars, worldVars, lock, ownVars, lapsed>>

\* Faulty CancelCommit: the refund is not written to the ledger.
CancelUnrecorded(p) ==
    /\ pc[p] = "cancelling" /\ ~RowLocked
    /\ bet' = [bet EXCEPT !.status = plan[p].status]
    /\ wallet' = [wallet EXCEPT ![Owner] = SetBalance(@, @.balance + plan[p].pays)]
    /\ Goto(p, "done")
    /\ UNCHANGED <<ledger, partials, sold, worldVars, lock, plan, ownVars, met, lapsed>>

CancelCommit(p) ==
    /\ pc[p] = "cancelling" /\ ~RowLocked
    /\ bet' = [bet EXCEPT !.status = plan[p].status]
    /\ Move(p, ledger, Owner, "BET_REFUND", plan[p].pays, TheBet, RandomKey(p))
    /\ Goto(p, "done")
    /\ UNCHANGED <<partials, sold, worldVars, lock, plan, ownVars, met, lapsed>>

-------------------------------------------------------------------------------
\* cashout, partialCashout

\* acquireLock(cashout:lock:<bet>, 10000): a held key is refused.
CashoutLock(p) ==
    /\ pc[p] = "idle" /\ bet.status # "NONE"
    /\ IF lock = Nobody
       THEN lock' = p /\ Goto(p, "locked") /\ Meet(p)
       ELSE Goto(p, "failed") /\ UNCHANGED <<lock, met>>
    /\ UNCHANGED <<wallet, ledger, betVars, worldVars, plan, ownVars, lapsed>>

\* The read of the bet, and the first check of _isCashoutEligible.
CashoutRead(p) ==
    /\ pc[p] = "locked"
    /\ IF bet.status = "ACCEPTED"
       THEN ReadBet(p) /\ Goto(p, "checking")
       ELSE Goto(p, "unlock") /\ UNCHANGED plan
    /\ UNCHANGED <<wallet, ledger, betVars, worldVars, lock, ownVars, met, lapsed>>

\* _isCashoutEligible looks at isSuspended of the markets, not at their status; a stake
\* of nothing has no value.
Eligible(p) == plan[p].stake > 0 /\ \A m \in Markets : ~market[m].suspended

\* A full cashout closes the bet.
PlanFull(p, cash) == Decide(p, "CASHED_OUT", cash)

\* calculatePartialCashoutValue of a stake: the part sold and the rest, which the columns
\* round each to cents.
PlanPartial(p, stake, part, cash) ==
    plan' = [plan EXCEPT ![p] =
        [@ EXCEPT !.left = Rounded(Frac(stake * (Whole - part), Whole)),
                  !.part = Rounded(Frac(stake * part, Whole)), !.pays = cash]]

\* Faulty CashoutDecide: the part is one of the stake the bet was placed with.
CashoutDecideInitial(p) ==
    /\ pc[p] = "checking"
    /\ IF Eligible(p)
       THEN /\ \E cash \in CashValues :
                  \/ PlanFull(p, cash)
                  \/ \E part \in Parts : PlanPartial(p, Stake, part, cash)
            /\ Goto(p, "cashing")
       ELSE Goto(p, "unlock") /\ UNCHANGED plan
    /\ UNCHANGED <<wallet, ledger, betVars, worldVars, lock, ownVars, met, lapsed>>

\* The read of the markets, the checks and the value.
CashoutDecide(p) ==
    /\ pc[p] = "checking"
    /\ IF Eligible(p)
       THEN /\ \E cash \in CashValues :
                  \/ PlanFull(p, cash)
                  \/ \E part \in Parts : PlanPartial(p, plan[p].stake, part, cash)
            /\ Goto(p, "cashing")
       ELSE Goto(p, "unlock") /\ UNCHANGED plan
    /\ UNCHANGED <<wallet, ledger, betVars, worldVars, lock, ownVars, met, lapsed>>

\* tx.bet.update waits for the row lock and takes it; cashout.create;
\* wallet.findUnique reads the last committed wallet.
CashoutOpen(p) ==
    /\ pc[p] = "cashing" /\ ~RowLocked
    /\ seen' = [seen EXCEPT ![p] = wallet[Owner]]
    /\ Goto(p, "paying")
    /\ UNCHANGED <<wallet, ledger, betVars, worldVars, lock, plan, legs, met, lapsed>>

\* wallet.update over the current row, transaction.create, commit.
CashoutCommit(p) ==
    LET d == plan[p]
    IN  /\ pc[p] = "paying"
        /\ IF d.status = "CASHED_OUT"
           THEN bet' = [bet EXCEPT !.status = d.status] /\ UNCHANGED <<partials, sold>>
           ELSE /\ bet' = [bet EXCEPT !.stake = d.left]
                /\ partials' = partials \cup {p}
                /\ sold' = [sold EXCEPT ![p] = d.part]
        /\ wallet' = [wallet EXCEPT ![Owner] = SetBalance(@, seen[p].balance + d.pays)]
        /\ Insert(p, ledger, MoveRow(Owner, "CASHOUT", d.pays, seen[p].balance, p,
                                     RandomKey(p)))
        /\ Goto(p, "unlock")
        /\ seen' = [seen EXCEPT ![p] = NoWallet]
        /\ UNCHANGED <<worldVars, lock, plan, legs, met, lapsed>>

\* Faulty Unlock: DEL without comparing the token.
UnlockAny(p) ==
    /\ pc[p] = "unlock"
    /\ lock' = Nobody
    /\ Goto(p, IF ledger[p] # NoRow THEN "done" ELSE "failed")
    /\ UNCHANGED <<wallet, ledger, betVars, worldVars, plan, ownVars, met, lapsed>>

\* Faulty Unlock: tries again until it deletes its own key.
UnlockOwn(p) ==
    /\ pc[p] = "unlock" /\ lock = p
    /\ lock' = Nobody
    /\ Goto(p, IF ledger[p] # NoRow THEN "done" ELSE "failed")
    /\ UNCHANGED <<wallet, ledger, betVars, worldVars, plan, ownVars, met, lapsed>>

\* finally: releaseLock deletes the key only if it still holds this token.
Unlock(p) ==
    /\ pc[p] = "unlock"
    /\ lock' = IF lock = p THEN Nobody ELSE lock
    /\ Goto(p, IF ledger[p] # NoRow THEN "done" ELSE "failed")
    /\ UNCHANGED <<wallet, ledger, betVars, worldVars, plan, ownVars, met, lapsed>>

-------------------------------------------------------------------------------
\* Failures and the environment.

Forget(p) ==
    /\ legs' = [legs EXCEPT ![p] = NoLegs]
    /\ seen' = [seen EXCEPT ![p] = NoWallet]

\* Retries exhausted, a timeout, a lost connection, odds too low: nothing of the
\* transaction is written; a cashout still runs its finally.
Fail(p) ==
    /\ \/ pc[p] \in {"sweeping"} \cup (Acting \ Cashing) /\ Goto(p, "failed")
       \/ pc[p] \in Cashing \ {"unlock"} /\ Goto(p, "unlock")
    /\ Forget(p)
    /\ UNCHANGED <<wallet, ledger, betVars, worldVars, lock, plan, met, lapsed>>

\* The process dies: the database rolls its transaction back, the key stays.
Crash(p) ==
    /\ pc[p] \in InFlight
    /\ Goto(p, "crashed")
    /\ Forget(p)
    /\ UNCHANGED <<wallet, ledger, betVars, worldVars, lock, plan, met, lapsed>>

\* The TTL of the cashout lock runs out.
Expire ==
    /\ lock # Nobody
    /\ lock' = Nobody
    /\ lapsed' = lapsed \cup {p \in {lock} : pc[p] \in InFlight}
    /\ UNCHANGED <<wallet, ledger, betVars, worldVars, pc, plan, ownVars, met>>

WriteMarket(m, columns) ==
    /\ market' = [market EXCEPT ![m] = columns]
    /\ swept' = IF AllSettled(market') THEN swept ELSE {}
    /\ UNCHANGED <<wallet, ledger, betVars, started, lock, pc, plan, ownVars, met, lapsed>>

SuspendMarket(m) ==
    /\ WriteMarket(m, [market[m] EXCEPT !.status = "SUSPENDED", !.suspended = TRUE])
    /\ UNCHANGED raced

\* Whatever the status was; isWinner keeps its value.
ResumeMarket(m) ==
    /\ WriteMarket(m, [market[m] EXCEPT !.status = "OPEN", !.suspended = FALSE])
    /\ UNCHANGED raced

\* One transaction for the status and the results.  No check that the market is not
\* SETTLED yet; isSuspended keeps its value.
SettleMarket(m) ==
    /\ market[m].settled < MaxSettles
    /\ \E won \in {"yes", "no"} :
          WriteMarket(m, [market[m] EXCEPT !.status = "SETTLED", !.won = won,
                                           !.settled = @ + 1])
    /\ raced' = raced \cup {<<p, m>> : p \in {q \in Requests : pc[q] = "markets"}}

\* startTime passes.
Kickoff ==
    /\ ~started /\ started' = TRUE
    /\ UNCHANGED <<wallet, ledger, betVars, market, raced, swept, lock, pc, plan, ownVars, met,
                   lapsed>>

\* deposit, withdraw, rollback (also of the rows of the bet).
OtherWallet(p) ==
    /\ pc[p] = "idle"
    /\ \/ \E a \in Amounts : Debit(p, Owner, a)
       \/ \E a \in Amounts, r \in DepositRefs : Credit(p, Owner, a, r)
       \/ \E t \in Requests : Reverse(p, t)
    /\ Goto(p, "done")
    /\ UNCHANGED <<betVars, worldVars, lock, plan, ownVars, met, lapsed>>

Advance(p) ==
    \/ StoreBet(p) \/ StoreFails(p)
    \/ SweepRefused(p) \/ SettleLegs(p) \/ SettleDecide(p)
    \/ SettleCommit(p) \/ VoidCommit(p) \/ CancelCommit(p)
    \/ CashoutRead(p) \/ CashoutDecide(p) \/ CashoutOpen(p) \/ CashoutCommit(p)
    \/ Unlock(p) \/ Fail(p)

Next ==
    \/ \E p \in Requests :
          \/ SweepFind(p) \/ SettleRead(p) \/ CancelRead(p) \/ CashoutLock(p)
          \/ Advance(p) \/ Crash(p) \/ OtherWallet(p)
    \/ Expire
    \/ \E m \in Markets : SuspendMarket(m) \/ ResumeMarket(m) \/ SettleMarket(m)
    \/ Kickoff

Spec == Init /\ [][Next]_vars

\* A live server keeps serving what it accepted; Redis expires keys.
FairSpec ==
    /\ Spec /\ WF_vars(Expire)
    /\ \A p \in Requests : WF_vars(Advance(p) \/ (pc[p] = "sweeping" /\ SettleRead(p)))

-------------------------------------------------------------------------------
\* Properties.

TypeOK ==
    /\ wallet \in [Users -> Wallet]
    /\ ledger \in Ledgers
    /\ bet \in [status : BetStatuses, stake : 0 .. Stake]
    /\ partials \subseteq Requests
    /\ sold \in [Requests -> 0 .. Stake]
    /\ market \in [Markets -> [status : {"OPEN", "SUSPENDED", "SETTLED"},
                               suspended : BOOLEAN, won : {"null", "yes", "no"},
                               settled : 0 .. MaxSettles]]
    /\ started \in BOOLEAN
    /\ lock \in Requests \cup {Nobody}
    /\ pc \in [Requests -> InFlight \cup Ended \cup {"idle"}]
    /\ plan \in [Requests -> Plan \cup {NoPlan}]
    /\ legs \in [Requests -> [Markets -> {"null", "yes", "no"}]]
    /\ seen \in [Requests -> Wallet \cup {NoWallet}]
    /\ met \subseteq SUBSET Requests
    /\ lapsed \subseteq Requests
    /\ raced \subseteq Requests \X Markets
    /\ swept \subseteq Sweepers

\* The rows that closed the bet: winnings, refunds and full cashouts.
Closings ==
    {t \in Posted(ledger) :
        \/ ledger[t].type \in {"BET_WIN", "BET_REFUND"}
        \/ ledger[t].type = "CASHOUT" /\ t \notin partials}

\* Two operations pay the bet out only if they were in flight together: one that
\* starts after another has closed the bet is refused.
ClosingsMet == \A p, q \in Closings : p # q => {p, q} \in met

\* The parts that were cashed out and what is left make up the stake, and at most a cent
\* more for each part, because both are rounded: no part is sold twice and none gets
\* lost, whatever settles, cancels, fails or crashes in between, unless two cashouts sold
\* while they were in flight together, and that only because the lock of one of them
\* expired under it.
StakeAccounted ==
    \/ bet.stake + Total(sold, partials) - Stake \in 0 .. Cardinality(partials)
    \/ \E p \in partials \cap lapsed, q \in partials : p # q /\ {p, q} \in met

\* The request that places the bet is the only one that may still create it.
CreateOK == \A p \in Requests : pc[p] = "create" => p = TheBet /\ bet.status = "NONE"

\* What a request that has read the bet is about to write.
PlansOK ==
    \A p \in Requests : pc[p] \in Decided =>
        /\ bet.status # "NONE"
        /\ plan[p] \in Plan /\ plan[p].stake \in 0 .. Stake
        /\ pc[p] \in {"legs", "markets", "checking"} => plan[p].status = "ACCEPTED"
        /\ pc[p] = "settling" => plan[p].status \in {"WON", "LOST"}
        /\ pc[p] = "voiding" => plan[p].status = "VOID"
        /\ pc[p] = "cancelling" => plan[p].status = "CANCELLED"
        /\ pc[p] \in {"cashing", "paying"} => plan[p].status \in {"ACCEPTED", "CASHED_OUT"}

\* A partial cashout divides the stake it read, to a cent.
Divides(d) == d.left <= d.stake /\ d.part <= d.stake /\ d.left + d.part - d.stake \in 0 .. 1

PartsOK ==
    \A p \in Requests :
        pc[p] \in {"cashing", "paying"} /\ plan[p].status = "ACCEPTED" => Divides(plan[p])

\* Whoever is in flight together has met, and whoever has read an open bet has met
\* all that closed it since.
MetOK ==
    /\ \A p, q \in Requests : p # q /\ pc[p] \in Acting /\ pc[q] \in Acting => {p, q} \in met
    /\ Closings # {} => bet.status \notin {"NONE", "ACCEPTED"}
    /\ \A p \in Requests, q \in Closings : p # q /\ pc[p] \in Decided => {p, q} \in met

\* A cashout holds its lock until its finally, unless the key expired.
LockKept == \A p \in Requests : pc[p] \in Cashing => lock = p \/ p \in lapsed

\* Two cashouts were in flight together when the lock of one had expired.
Overlapped(p, q) == p # q /\ {p, q} \in met /\ (p \in lapsed \/ q \in lapsed)

\* A cashout works on the current stake, unless it overlapped one that sold.
StakeRead ==
    /\ partials \subseteq Posted(ledger)
    /\ \A p \in Requests : pc[p] \in {"checking", "cashing", "paying"} =>
          plan[p].stake = bet.stake \/ \E q \in partials : Overlapped(p, q)

\* A wallet whose version is the one a cashout read has the balance it read.
SeenOK ==
    \A p \in Requests : pc[p] = "paying" =>
        /\ seen[p] \in Wallet
        /\ seen[p].version <= wallet[Owner].version
        /\ seen[p].version = wallet[Owner].version => seen[p].balance = wallet[Owner].balance

\* What settleBet decided is what the results say.  Just the markets that were settled
\* between its two reads, of the selections and of the markets, counted as void: a bet is
\* refunded if that happened to all of its legs, and wins without those it happened to.
Agrees(p) ==
    LET missed == {m \in Markets : <<p, m>> \in raced}
    IN  /\ plan[p].status = "LOST" => \E m \in Markets \ missed : market[m].won = "no"
        /\ plan[p].status = "VOID" => missed = Markets
        /\ plan[p].status = "WON" =>
              /\ missed # Markets /\ \A m \in Markets \ missed : market[m].won = "yes"
              /\ plan[p].pays = plan[p].stake * OddsOf(Markets \ missed)

\* No market got a result twice.
SettledOnce == \A m \in Markets : market[m].settled <= 1

\* A settled bet agrees with the results, whatever was suspended, resumed or settled
\* around it: a settleBet that ended says so, and it counted no market as void but those
\* settled between its reads; unless a market got a result twice, since settlements are
\* not reconsidered then.
ResultStands ==
    bet.status \in {"WON", "LOST", "VOID"} /\ SettledOnce =>
        \E p \in Requests : pc[p] = "done" /\ plan[p].status = bet.status /\ Agrees(p)

\* A market has a result once it was settled.
MarketsOK ==
    \A m \in Markets :
        /\ market[m].won = "null" <=> market[m].settled = 0
        /\ market[m].status = "SETTLED" => market[m].settled > 0

\* A result that was read is that of the market, or the market was settled since.
LegsOK ==
    \A p \in Requests, m \in Markets :
        /\ <<p, m>> \in raced =>
              market[m].settled > 0 /\ pc[p] \notin {"idle", "create", "sweeping", "legs"}
        /\ pc[p] = "markets" /\ legs[p][m] = "null" =>
              market[m].settled = 0 \/ <<p, m>> \in raced
        /\ pc[p] = "markets" /\ legs[p][m] # "null" =>
              \/ market[m].settled > 1
              \/ /\ market[m].settled = 1 /\ legs[p][m] = market[m].won
                 /\ <<p, m>> \notin raced

\* Once settleBet has decided, all markets have a result.
Resulted(p) == (\A m \in Markets : market[m].settled > 0) /\ (SettledOnce => Agrees(p))

ResultsOK ==
    /\ \A p \in Requests : pc[p] \in {"settling", "voiding"} => Resulted(p)
    /\ bet.status \in {"WON", "LOST", "VOID"} =>
          \E p \in Requests : pc[p] = "done" /\ plan[p].status = bet.status /\ Resulted(p)

\* The inductive invariant: the types, and what the requests in flight know of the
\* bet, the wallet and one another at every line of settle, cancel and cashout.
IInv ==
    /\ TypeOK /\ IsFiniteSet(Posted(ledger))
    /\ CreateOK /\ PlansOK /\ PartsOK /\ MetOK /\ LockKept /\ StakeRead /\ SeenOK
    /\ MarketsOK /\ LegsOK /\ ResultsOK
    /\ ClosingsMet /\ StakeAccounted

\* What the wallet and the ledger disagree by.
Drift ==
    wallet[Owner].balance + (IF bet.status = "NONE" THEN 0 ELSE Stake)
        - Opening[Owner] - Moved(ledger, Owner)

\* The wallet leaves its ledger only where a cashout overwrites a wallet that
\* changed since it read it: every other operation, in any interleaving, adds to
\* the current balance what its row says.
DriftIsStaleCashout ==
    [][Drift' # Drift =>
          \E p \in Requests : /\ pc[p] = "paying" /\ ledger'[p] # ledger[p]
                              /\ seen[p].version # wallet[Owner].version]_vars

\* Every operation ends, although it may wait for the row lock of the bet.
Answered == \A p \in Requests : pc[p] \in InFlight ~> pc[p] \in Ended

\* A call of settleBetsByMarket that looks for the bet when it is stored and its
\* markets are settled leaves it closed, unless the call fails or dies or a market
\* is reopened under it: neither a bet stored after its market was settled nor a
\* cashout in between is forgotten by the next such call.
SweepCloses ==
    \A p \in Requests :
        p \in swept ~> \/ bet.status # "ACCEPTED"
                      \/ pc[p] \in {"failed", "crashed"} \/ p \notin swept

\* "Serializable transactions - prevents race conditions on wallet balance"
\* (README.md:245): the balance is what the ledger says.
BalanceIsLedger == Drift = 0
===============================================================================
