-------------------------------- MODULE Ledger --------------------------------
(***************************************************************************)
(* The money tables of the database, Wallet and Transaction, as data: the  *)
(* sets of wallets and ledger rows, the column updates and the row         *)
(* constructors that the services' transactions are made of.  No variable  *)
(* lives here; WalletTx, AtomicWallet, BetPlacement and BetLifecycle keep  *)
(* the tables and use these operators.                                     *)
(*                                                                         *)
(* Money is an integer number of cents: the columns are Decimal(18,2) and  *)
(* every amount the services store went through toDecimalPlaces(2).        *)
(*                                                                         *)
(* A service call inserts at most one ledger row, so the row is named by   *)
(* the call that inserted it: a ledger is a function from calls (Requests) *)
(* to rows, NoRow where the call has inserted none.                        *)
(***************************************************************************)
EXTENDS Totals

CONSTANTS
    Users,       \* owners of a wallet (one wallet each)
    Requests,    \* calls of the services, and so the ids of ledger rows
    DepositRefs, \* references a deposit may carry
    Amounts,     \* amounts clients ask for
    Opening      \* the balance each wallet starts with (registration, seed)

ASSUME AmountsAssumption == Amounts \subseteq Nat
ASSUME OpeningAssumption == Opening \in [Users -> Nat]

-------------------------------------------------------------------------------
\* Wallet rows.

Wallet == [balance : Int, reserved : Int, version : Nat]

OpeningWallet(u) == [balance |-> Opening[u], reserved |-> 0, version |-> 0]

Available(w) == w.balance - w.reserved

\* Faulty SetBalance: the increment of version is forgotten.
SetBalanceOnly(w, b) ==
    [balance |-> b, reserved |-> w.reserved, version |-> w.version]

\* wallet.update({ data: { balance, version: { increment: 1 } } }): only the
\* columns named in data are written.
SetBalance(w, b) ==
    [balance |-> b, reserved |-> w.reserved, version |-> w.version + 1]

SetReserved(w, r) ==
    [balance |-> w.balance, reserved |-> r, version |-> w.version + 1]

\* Faulty ClampedSub: no maximum with zero.
PlainSub(r, a) == r - a

\* Decimal.max(0, reserved - amount)
ClampedSub(r, a) == IF r > a THEN r - a ELSE 0

-------------------------------------------------------------------------------
\* Idempotency keys: a prefix and what the code interpolates after it.

PreCheck == "pre-check"   \* the bet id placeBet passes while it has no bet yet
NoRef == "none"

DepositKey(r) == <<"deposit", r>>
ReserveKey(b) == <<"reserve", b>>
RollbackKey(t) == <<"rollback", t>>
RandomKey(p) == <<"random", p>>   \* generateIdempotencyKey(), fresh per call

-------------------------------------------------------------------------------
\* Ledger rows.

Statuses == {"PENDING", "COMPLETED", "ROLLED_BACK"}

Types == {"DEPOSIT", "WITHDRAWAL", "BET_PLACEMENT", "BET_WIN", "BET_REFUND",
          "CASHOUT", "ROLLBACK"}

Refs == DepositRefs \cup Requests \cup {PreCheck, NoRef}

Keys == {"deposit", "reserve", "rollback", "random"} \X Refs

Row == [user : Users, type : Types, status : Statuses, amount : Int,
        before : Int, after : Int, ref : Refs, key : Keys]

NoRow == [status |-> "NONE"]

Ledgers == [Requests -> Row \cup {NoRow}]

EmptyLedger == [t \in Requests |-> NoRow]

Posted(l) == {t \in Requests : l[t].status # "NONE"}

KeyTaken(l, k) == \E t \in Posted(l) : l[t].key = k

\* A row of an operation that moves the balance from b by a.
MoveRow(u, type, a, b, ref, key) ==
    [user |-> u, type |-> type, status |-> "COMPLETED", amount |-> a,
     before |-> b, after |-> b + a, ref |-> ref, key |-> key]

\* The PENDING row of a reservation: the balance does not move.
ReserveRow(u, a, b, ref) ==
    [user |-> u, type |-> "BET_PLACEMENT", status |-> "PENDING", amount |-> -a,
     before |-> b, after |-> b, ref |-> ref, key |-> ReserveKey(ref)]

\* The rows the updateMany of releaseReservation selects: no userId in it.
Reservations(l, ref) ==
    {t \in Posted(l) : /\ l[t].ref = ref
                       /\ l[t].status = "PENDING"
                       /\ l[t].type = "BET_PLACEMENT"}

\* Faulty MarkRolledBack: the update of the rows is forgotten.
MarkNothing(l, R) == l

MarkRolledBack(l, R) ==
    [t \in Requests |-> IF t \in R THEN [l[t] EXCEPT !.status = "ROLLED_BACK"]
                                   ELSE l[t]]

\* What the rows of a user that moved the balance add up to.
Moved(l, u) ==
    Total([t \in Posted(l) |-> l[t].amount],
          {t \in Posted(l) : l[t].user = u /\ l[t].type # "BET_PLACEMENT"})
===============================================================================
