----------------------------- MODULE AtomicWallet -----------------------------
(***************************************************************************)
(* What wallet.service promises: every operation that succeeds happens at  *)
(* one instant on the current wallet, under a key no earlier row carries.  *)
(* There are no calls in progress, snapshots or retries here.  WalletTx    *)
(* implements this specification.                                          *)
(***************************************************************************)
EXTENDS Ledger

VARIABLES wallet, ledger

aVars == <<wallet, ledger>>

AInit ==
    /\ wallet = [u \in Users |-> OpeningWallet(u)]
    /\ ledger = EmptyLedger

Insert(p, l, row) ==
    /\ p \notin Posted(ledger)
    /\ ~KeyTaken(ledger, row.key)
    /\ ledger' = [l EXCEPT ![p] = row]

\* The balance of u moves by a, and row p says from what to what.
Move(p, l, u, type, a, ref, key) ==
    /\ wallet' = [wallet EXCEPT ![u] = SetBalance(@, @.balance + a)]
    /\ Insert(p, l, MoveRow(u, type, a, wallet[u].balance, ref, key))

Credit(p, u, a, r) ==
    /\ a > 0
    /\ Move(p, ledger, u, "DEPOSIT", a, r, DepositKey(r))

\* Faulty Debit: what is reserved counts as spendable.
DebitReserved(p, u, a) ==
    /\ a > 0 /\ a <= wallet[u].balance
    /\ Move(p, ledger, u, "WITHDRAWAL", -a, NoRef, RandomKey(p))

\* Never more than is available.
Debit(p, u, a) ==
    /\ a > 0 /\ a <= Available(wallet[u])
    /\ Move(p, ledger, u, "WITHDRAWAL", -a, NoRef, RandomKey(p))

Reserve(p, u, a) ==
    /\ a > 0 /\ a <= Available(wallet[u])
    /\ wallet' = [wallet EXCEPT ![u] = SetReserved(@, @.reserved + a)]
    /\ Insert(p, ledger, ReserveRow(u, a, wallet[u].balance, PreCheck))

\* The user's own reservations end, and maybe those of others.
Release(u, a) ==
    /\ a > 0
    /\ wallet' = [wallet EXCEPT ![u] = SetReserved(@, ClampedSub(@.reserved, a))]
    /\ \E R \in SUBSET Reservations(ledger, PreCheck) :
          /\ {t \in Reservations(ledger, PreCheck) : ledger[t].user = u} \subseteq R
          /\ ledger' = MarkRolledBack(ledger, R)

\* A row is reversed once.
Reverse(p, t) ==
    /\ t \in Posted(ledger) /\ ledger[t].status # "ROLLED_BACK"
    /\ Move(p, MarkRolledBack(ledger, {t}), ledger[t].user, "ROLLBACK",
            -ledger[t].amount, t, RollbackKey(t))

ANext ==
    \/ \E p \in Requests, u \in Users, a \in Amounts :
          \/ \E r \in DepositRefs : Credit(p, u, a, r)
          \/ Debit(p, u, a)
          \/ Reserve(p, u, a)
    \/ \E u \in Users, a \in Amounts : Release(u, a)
    \/ \E p, t \in Requests : Reverse(p, t)

ASpec == AInit /\ [][ANext]_aVars
===============================================================================
