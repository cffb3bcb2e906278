----------------------------- MODULE BetPlacement -----------------------------
(***************************************************************************)
(* bet.service.ts placeBet: the per-user Redis lock, the checks, the       *)
(* reservation, the transaction that creates the bet, what follows it, and *)
(* the error path, with other wallet operations, market suspensions, lock  *)
(* expiry and crashes interleaved at every await.                          *)
(*                                                                         *)
(* The wallet operations are those of AtomicWallet: each Serializable      *)
(* transaction is one atomic step (theorem Implementation of               *)
(* WalletTxProofs).  Exposure, odds and risk scores are abstracted to the  *)
(* outcome of their checks.  A bet's id is the request that created it.    *)
(***************************************************************************)
EXTENDS AtomicWallet

CONSTANT Nobody   \* a lock key that does not exist

ASSUME NobodyAssumption == Nobody \notin Requests

VARIABLES
    lock,    \* bet:user:lock:<user>: the request whose token is stored
    open,    \* the market of the slips accepts bets
    slip,    \* who places how much
    pc,      \* where each request is
    fault,   \* why a placement is being refused
    bets,    \* the requests whose bet row exists (status ACCEPTED)
    lapsed,  \* history: requests whose lock expired while they were in flight
    kept     \* history: requests that reserved and could not release

vars == <<wallet, ledger, lock, open, slip, pc, fault, bets, lapsed, kept>>

InFlight == {"validate", "odds", "assess", "reserve", "create", "after", "catch", "unlock"}

Faults == {"none", "busy", "rejected", "funds", "duplicate", "error"}

NoSlip == [stake |-> 0]

Init ==
    /\ AInit
    /\ lock = [u \in Users |-> Nobody]
    /\ open = TRUE
    /\ slip = [p \in Requests |-> NoSlip]
    /\ pc = [p \in Requests |-> "idle"]
    /\ fault = [p \in Requests |-> "none"]
    /\ bets = {}
    /\ lapsed = {}
    /\ kept = {}

Goto(p, l) == pc' = [pc EXCEPT ![p] = l]

\* The request goes on to l, because of f unless f is "none".
Leave(p, l, f) ==
    /\ Goto(p, l)
    /\ fault' = [fault EXCEPT ![p] = f]

-------------------------------------------------------------------------------
\* placeBet

\* acquireLock(bet:user:lock:<user>, 10000): SET NX with a fresh token.
Place(p, u, a) ==
    /\ pc[p] = "idle" /\ a > 0
    /\ slip' = [slip EXCEPT ![p] = [user |-> u, stake |-> a]]
    /\ IF lock[u] = Nobody
       THEN lock' = [lock EXCEPT ![u] = p] /\ Leave(p, "validate", "none")
       ELSE UNCHANGED lock /\ Leave(p, "failed", "busy")
    /\ UNCHANGED <<wallet, ledger, open, bets, lapsed, kept>>

\* Selections, market status, cut-off, limits.  A refusal here is thrown before
\* the try block: only the lock is released.
Validate(p) ==
    /\ pc[p] = "validate"
    /\ \/ open /\ Leave(p, "odds", "none")
       \/ Leave(p, "unlock", "rejected")
    /\ UNCHANGED <<wallet, ledger, lock, open, slip, bets, lapsed, kept>>

\* Odds locks and odds policy; from here on a failure is caught.
LockOdds(p) ==
    /\ pc[p] = "odds"
    /\ \/ Leave(p, "assess", "none")
       \/ Leave(p, "catch", "rejected")
    /\ UNCHANGED <<wallet, ledger, lock, open, slip, bets, lapsed, kept>>

\* assessBet: approved, or refused by one of its limits; "rejected" stands for a
\* failing read too, here and above.
Assess(p) ==
    /\ pc[p] = "assess"
    /\ \/ Leave(p, "reserve", "none")
       \/ Leave(p, "catch", "rejected")
    /\ UNCHANGED <<wallet, ledger, lock, open, slip, bets, lapsed, kept>>

\* reserveFunds(userId, stake, 'pre-check')
ReserveStake(p) ==
    /\ pc[p] = "reserve"
    /\ \/ Reserve(p, slip[p].user, slip[p].stake) /\ Leave(p, "create", "none")
       \/ /\ UNCHANGED <<wallet, ledger>>
          /\ \/ Available(wallet[slip[p].user]) < slip[p].stake /\ Leave(p, "catch", "funds")
             \/ KeyTaken(ledger, ReserveKey(PreCheck)) /\ Leave(p, "catch", "duplicate")
             \/ Leave(p, "catch", "error")
    /\ UNCHANGED <<lock, open, slip, bets, lapsed, kept>>

\* The user's own reservations: this updateMany names the userId.
OwnReservations(u) ==
    {t \in Posted(ledger) : /\ ledger[t].ref = PreCheck /\ ledger[t].user = u
                            /\ ledger[t].status = "PENDING"}

\* Faulty CreateBet: the update of the reservation's row is forgotten.
CreateUnlinked(p) ==
    LET u == slip[p].user
        a == slip[p].stake
    IN  /\ pc[p] = "create" /\ wallet[u].reserved >= a
        /\ wallet' = [wallet EXCEPT ![u] =
              [balance |-> @.balance - a, reserved |-> @.reserved - a,
               version |-> @.version + 1]]
        /\ bets' = bets \cup {p}
        /\ Leave(p, "after", "none")
        /\ UNCHANGED <<ledger, lock, open, slip, lapsed, kept>>

\* The transaction that creates the bet and turns the reservation into a debit.
CreateBet(p) ==
    LET u == slip[p].user
        w == wallet[u]
        a == slip[p].stake
    IN  /\ pc[p] = "create"
        /\ \/ /\ w.reserved >= a
              /\ wallet' = [wallet EXCEPT ![u] =
                    [balance |-> w.balance - a, reserved |-> w.reserved - a,
                     version |-> w.version + 1]]
              /\ ledger' = [t \in Requests |->
                    IF t \in OwnReservations(u)
                    THEN [ledger[t] EXCEPT !.ref = p, !.status = "COMPLETED",
                                           !.after = w.balance - a]
                    ELSE ledger[t]]
              /\ bets' = bets \cup {p}
              /\ Leave(p, "after", "none")
           \/ /\ w.reserved < a /\ Leave(p, "catch", "funds")
              /\ UNCHANGED <<wallet, ledger, bets>>
           \/ /\ Leave(p, "catch", "error")
              /\ UNCHANGED <<wallet, ledger, bets>>
        /\ UNCHANGED <<lock, open, slip, lapsed, kept>>

\* Exposure counters, odds locks, the bet:placed message: still in the try block.
AfterBet(p) ==
    /\ pc[p] = "after"
    /\ \/ Leave(p, "unlock", "none")
       \/ Leave(p, "catch", "error")
    /\ UNCHANGED <<wallet, ledger, lock, open, slip, bets, lapsed, kept>>

\* Faulty CatchFault: the stake is credited back, although the bet may exist.
CatchRefund(p) ==
    /\ pc[p] = "catch"
    /\ wallet' = [wallet EXCEPT ![slip[p].user] = SetBalance(@, @.balance + slip[p].stake)]
    /\ Goto(p, "unlock")
    /\ UNCHANGED <<ledger, lock, open, slip, fault, bets, lapsed, kept>>

\* Faulty CatchFault: the release is forgotten.
CatchKeeps(p) ==
    /\ pc[p] = "catch"
    /\ Goto(p, "unlock")
    /\ UNCHANGED <<wallet, ledger, lock, open, slip, fault, bets, lapsed, kept>>

\* The catch block: releaseReservation(userId, stake, 'pre-check'), whether or not
\* this request reserved anything; its own failure is swallowed.
CatchFault(p) ==
    /\ pc[p] = "catch"
    /\ \/ Release(slip[p].user, slip[p].stake) /\ UNCHANGED kept
       \/ kept' = kept \cup ({p} \cap Posted(ledger)) /\ UNCHANGED <<wallet, ledger>>
    /\ Goto(p, "unlock")
    /\ UNCHANGED <<lock, open, slip, fault, bets, lapsed>>

\* Faulty Unlock: DEL without comparing the token.
UnlockAny(p) ==
    /\ pc[p] = "unlock"
    /\ lock' = [lock EXCEPT ![slip[p].user] = Nobody]
    /\ Goto(p, IF fault[p] = "none" THEN "placed" ELSE "failed")
    /\ UNCHANGED <<wallet, ledger, open, slip, fault, bets, lapsed, kept>>

\* finally: releaseLock deletes the key only if it still holds this token.
Unlock(p) ==
    LET u == slip[p].user
    IN  /\ pc[p] = "unlock"
        /\ lock' = [lock EXCEPT ![u] = IF @ = p THEN Nobody ELSE @]
        /\ Goto(p, IF fault[p] = "none" THEN "placed" ELSE "failed")
        /\ UNCHANGED <<wallet, ledger, open, slip, fault, bets, lapsed, kept>>

\* Redis does not answer the release: the caller gets the error, the key stays.
UnlockError(p) ==
    /\ pc[p] = "unlock"
    /\ Leave(p, "failed", "error")
    /\ UNCHANGED <<wallet, ledger, lock, open, slip, bets, lapsed, kept>>

-------------------------------------------------------------------------------
\* The environment.

\* The TTL of the lock runs out; a placement takes up to three 15 s transactions.
Expire(u) ==
    /\ lock[u] # Nobody
    /\ lock' = [lock EXCEPT ![u] = Nobody]
    /\ lapsed' = lapsed \cup {p \in {lock[u]} : pc[p] \in InFlight}
    /\ UNCHANGED <<wallet, ledger, open, slip, pc, fault, bets, kept>>

\* The process serving the request dies.
Crash(p) ==
    /\ pc[p] \in InFlight
    /\ Goto(p, "crashed")
    /\ UNCHANGED <<wallet, ledger, lock, open, slip, fault, bets, lapsed, kept>>

\* suspendMarket, resumeMarket
ToggleMarket ==
    /\ open' = ~open
    /\ UNCHANGED <<wallet, ledger, lock, slip, pc, fault, bets, lapsed, kept>>

\* deposit, withdraw, rollback by other requests.
OtherWallet(p) ==
    /\ pc[p] = "idle"
    /\ \/ \E u \in Users, a \in Amounts : Debit(p, u, a)
       \/ \E u \in Users, a \in Amounts, r \in DepositRefs : Credit(p, u, a, r)
       \/ \E t \in Requests : Reverse(p, t)
    /\ Goto(p, "done")
    /\ UNCHANGED <<lock, open, slip, fault, bets, lapsed, kept>>

Advance(p) ==
    \/ Validate(p) \/ LockOdds(p) \/ Assess(p) \/ ReserveStake(p) \/ CreateBet(p)
    \/ AfterBet(p) \/ CatchFault(p) \/ Unlock(p) \/ UnlockError(p)

Next ==
    \/ \E p \in Requests :
          \/ \E u \in Users, a \in Amounts : Place(p, u, a)
          \/ Advance(p) \/ Crash(p) \/ OtherWallet(p)
    \/ \E u \in Users : Expire(u)
    \/ ToggleMarket

Spec == Init /\ [][Next]_vars

-------------------------------------------------------------------------------
\* Properties.

TypeOK ==
    /\ wallet \in [Users -> [balance : Int, reserved : Nat, version : Nat]]
    /\ ledger \in Ledgers
    /\ lock \in [Users -> Requests \cup {Nobody}]
    /\ open \in BOOLEAN
    /\ slip \in [Requests -> [user : Users, stake : Nat] \cup {NoSlip}]
    /\ pc \in [Requests -> InFlight \cup {"idle", "placed", "failed", "crashed", "done"}]
    /\ fault \in [Requests -> Faults]
    /\ bets \subseteq Requests
    /\ lapsed \subseteq Requests
    /\ kept \subseteq Requests

\* A placement in flight still holds the lock of its user, unless it expired.
LockKept ==
    \A p \in Requests :
        pc[p] \in InFlight => lock[slip[p].user] = p \/ p \in lapsed

\* A placement that has begun has a slip, and begins once.
SlipsOK ==
    \A p \in Requests :
        /\ pc[p] \notin {"idle", "done"} => slip[p].stake > 0
        /\ p \in lapsed => pc[p] # "idle"

\* What a ledger row says about the request that inserted it.  A reservation's
\* row, and no other, is PENDING; only a bet completes it.
RowsOK ==
    /\ \A s, t \in Posted(ledger) : ledger[s].key = ledger[t].key => s = t
    /\ \A t \in Posted(ledger) :
          IF ledger[t].type = "BET_PLACEMENT"
          THEN /\ ledger[t].key = ReserveKey(PreCheck)
               /\ ledger[t].user = slip[t].user
               /\ ledger[t].status = "PENDING" => ledger[t].ref = PreCheck
               /\ ledger[t].status = "COMPLETED" => t \in bets
          ELSE ledger[t].status # "PENDING"
    /\ \A p \in Requests :
          /\ pc[p] \in {"idle", "validate", "odds", "assess", "reserve"} => p \notin Posted(ledger)
          /\ pc[p] = "done" /\ p \in Posted(ledger) => ledger[p].type # "BET_PLACEMENT"
          /\ pc[p] = "create" =>
                p \in Posted(ledger) \ bets /\ ledger[p].type = "BET_PLACEMENT"
          /\ p \in bets => p \in Posted(ledger) /\ ledger[p].type = "BET_PLACEMENT"
    /\ IsFiniteSet(Posted(ledger))

\* Two placements of one user are in flight together only if the lock of one of
\* them expired under it: an overdue placement that ends must not free the lock
\* its successor holds.
NoDoubleSubmission ==
    \A p, q \in Requests :
        /\ p # q /\ pc[p] \in InFlight /\ pc[q] \in InFlight
        /\ slip[p].user = slip[q].user
        => p \in lapsed \/ q \in lapsed

\* What is reserved is covered by the balance, as long as no administrator took
\* credited money back: neither withdrawals nor failed, crashed or doubled
\* placements can spend the stake of a bet that is being placed.
Solvent ==
    \A u \in Users :
        \/ wallet[u].reserved <= wallet[u].balance
        \/ \E t \in Posted(ledger) :
              ledger[t].type = "ROLLBACK" /\ ledger[t].user = u /\ ledger[t].amount < 0

\* The stakes that placements of u have reserved and neither charged nor released.
Held(u) ==
    {p \in Posted(ledger) \ bets :
        /\ ledger[p].type = "BET_PLACEMENT" /\ ledger[p].user = u
        /\ pc[p] \in {"create", "catch", "crashed"} \/ p \in kept}

\* Between the reservation and the bet the stake stays reserved: only another
\* placement of the same user that overran its lock can release it.
StakeCovered ==
    \A p \in Requests :
        pc[p] = "create" =>
            \/ wallet[slip[p].user].reserved >= slip[p].stake
            \/ \E q \in lapsed : slip[q].user = slip[p].user

\* What is reserved belongs to one placement that holds at least as much: there is
\* only one reservation, because its key is the same for every placement.
HeldOnce ==
    \A u \in Users :
        wallet[u].reserved > 0 => \E p \in Held(u) : wallet[u].reserved <= slip[p].stake

Stakes == [p \in Requests |-> slip[p].stake]

\* Between the reservation and the bet the stake stays reserved (StakeCovered), and
\* nothing is reserved for longer, unless the placement died or its release failed.
StakeHeld ==
    /\ StakeCovered
    /\ \A u \in Users : wallet[u].reserved <= Total(Stakes, Held(u))

\* A wallet has lost exactly the stakes of the bets that exist, whatever failed,
\* crashed or was retried: no bet without its debit, no debit without its bet.
StakesCharged ==
    \A u \in Users :
        wallet[u].balance =
            Opening[u] + Moved(ledger, u) - Total(Stakes, {p \in bets : slip[p].user = u})

\* Every bet has the ledger row of its stake, unless a reservation's row was rolled
\* back before the bet's transaction looked for it: by another user's release,
\* whose updateMany names no user, or by an administrator.
DebitRecorded ==
    \A p \in bets :
        \E t \in Posted(ledger) :
            /\ ledger[t].type = "BET_PLACEMENT"
            /\ ledger[t].ref = p \/ ledger[t].status = "ROLLED_BACK"

\* The inductive invariant the proofs rest on.
IInv ==
    /\ TypeOK /\ LockKept /\ SlipsOK /\ RowsOK
    /\ Solvent /\ StakeCovered /\ HeldOnce /\ StakesCharged /\ DebitRecorded

\* "Idempotency keys - deduplicates transactions" (README.md:248): a placement is
\* refused as a duplicate only because its own user already reserved.
DuplicateIsOwn ==
    \A p \in Requests :
        fault[p] = "duplicate" =>
            \E t \in Posted(ledger) :
                ledger[t].type = "BET_PLACEMENT" /\ ledger[t].user = slip[p].user
===============================================================================
