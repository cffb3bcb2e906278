------------------------------- MODULE WalletTx -------------------------------
(***************************************************************************)
(* wallet.service.ts over prisma.service.ts executeTransaction: the wallet *)
(* operations as concurrent Serializable transactions.                     *)
(*                                                                         *)
(* A call first does what precedes its transaction (the argument check,    *)
(* the idempotency or balance check outside the transaction), then opens   *)
(* the transaction, which reads from one snapshot, and ends it by a        *)
(* business error, a commit, a serialization failure (P2034, retried at    *)
(* most MaxRetries - 1 times), a duplicate idempotency key (P2002, not     *)
(* retried) or any other error (timeout, lost connection).  What a commit  *)
(* writes is computed from the snapshot, as the services do; that a row    *)
(* changed since the snapshot cannot be overwritten is the database's      *)
(* Serializable isolation.                                                 *)
(***************************************************************************)
EXTENDS Ledger

CONSTANT MaxRetries   \* executeTransaction's attempts

ASSUME MaxRetriesAssumption == MaxRetries \in Nat \ {0}

VARIABLES
    wallet,   \* the Wallet table
    ledger,   \* the Transaction table
    req,      \* the arguments of each call
    pc,       \* where each call is
    seen,     \* the snapshot of each open transaction
    tries     \* the failed attempts of each call

vars == <<wallet, ledger, req, pc, seen, tries>>

Ops == {"deposit", "withdraw", "reserve", "release", "rollback"}

Req == [op : Ops, user : Users, amount : Nat, ref : Refs]

NoReq == [op |-> "none"]

\* The wallet the snapshot shows and the ledger rows the transaction updates.
Snapshot == [wallet : Wallet, rows : SUBSET Requests]

NoSnapshot == [rows |-> {}]

Ended == {"done", "failed"}

Init ==
    /\ wallet = [u \in Users |-> OpeningWallet(u)]
    /\ ledger = EmptyLedger
    /\ req = [p \in Requests |-> NoReq]
    /\ pc = [p \in Requests |-> "idle"]
    /\ seen = [p \in Requests |-> NoSnapshot]
    /\ tries = [p \in Requests |-> 0]

Goto(p, l) == pc' = [pc EXCEPT ![p] = l]

-------------------------------------------------------------------------------
\* A call arrives.

Call(p, op, u, a, ref, l) ==
    /\ pc[p] = "idle"
    /\ req' = [req EXCEPT ![p] = [op |-> op, user |-> u, amount |-> a, ref |-> ref]]
    /\ Goto(p, l)
    /\ UNCHANGED <<wallet, ledger, seen, tries>>

\* A non-positive amount is refused before anything is read.
Deposit(p, u, a, r) == Call(p, "deposit", u, a, r, IF a > 0 THEN "check" ELSE "failed")

Withdraw(p, u, a) == Call(p, "withdraw", u, a, NoRef, IF a > 0 THEN "check" ELSE "failed")

\* placeBet validates the stake before it reserves or releases it.
ReserveFunds(p, u, a) == a > 0 /\ Call(p, "reserve", u, a, PreCheck, "ready")

ReleaseReservation(p, u, a) == a > 0 /\ Call(p, "release", u, a, PreCheck, "ready")

\* The administrator names a row t; the wallet is the one of the row's user.
Rollback(p, t) ==
    /\ t \in Posted(ledger)
    /\ Call(p, "rollback", ledger[t].user, 0, t, "ready")

-------------------------------------------------------------------------------
\* The check outside the transaction.

\* credit: a row with this key exists, so it is returned and nothing is done.
CheckKey(p) ==
    /\ pc[p] = "check" /\ req[p].op = "deposit"
    /\ Goto(p, IF KeyTaken(ledger, DepositKey(req[p].ref)) THEN "done" ELSE "ready")
    /\ UNCHANGED <<wallet, ledger, req, seen, tries>>

\* withdraw: the balance check before debit; debit's key is fresh.
CheckBalance(p) ==
    /\ pc[p] = "check" /\ req[p].op = "withdraw"
    /\ Goto(p, IF Available(wallet[req[p].user]) < req[p].amount THEN "failed" ELSE "ready")
    /\ UNCHANGED <<wallet, ledger, req, seen, tries>>

-------------------------------------------------------------------------------
\* The transaction.

\* The rows the transaction will mark ROLLED_BACK, as its snapshot shows them.
Touched(p) ==
    CASE req[p].op = "release" -> Reservations(ledger, req[p].ref)
      [] req[p].op = "rollback" ->
            {t \in {req[p].ref} : ledger[t].status # "ROLLED_BACK"}
      [] OTHER -> {}

Begin(p) ==
    /\ pc[p] = "ready"
    /\ seen' = [seen EXCEPT ![p] = [wallet |-> wallet[req[p].user], rows |-> Touched(p)]]
    /\ Goto(p, "open")
    /\ UNCHANGED <<wallet, ledger, req, tries>>

End(p, l) ==
    /\ Goto(p, l)
    /\ seen' = [seen EXCEPT ![p] = NoSnapshot]

\* Faulty Refused: debit trusts the balance check withdraw made before it.
RefusedUnlessWithdraw(p) ==
    \/ /\ req[p].op = "reserve"
       /\ Available(seen[p].wallet) < req[p].amount
    \/ /\ req[p].op = "rollback"
       /\ seen[p].rows = {}

\* The business errors thrown inside a transaction.
Refused(p) ==
    \/ /\ req[p].op \in {"withdraw", "reserve"}
       /\ Available(seen[p].wallet) < req[p].amount
    \/ /\ req[p].op = "rollback"
       /\ seen[p].rows = {}

\* Faulty Serializable: the wallet may have changed since the snapshot, as under
\* READ COMMITTED.
ReadCommitted(p) ==
    \A t \in seen[p].rows : ledger[t].status # "ROLLED_BACK"

\* Serializable isolation: no row the transaction writes has changed since its
\* snapshot.  Every write of a wallet increments version, and ROLLED_BACK is
\* the only status another transaction gives a row.
Serializable(p) ==
    /\ seen[p].wallet.version = wallet[req[p].user].version
    /\ \A t \in seen[p].rows : ledger[t].status # "ROLLED_BACK"

Committing(p, op) ==
    /\ pc[p] = "open" /\ req[p].op = op
    /\ ~Refused(p)
    /\ Serializable(p)
    /\ End(p, "done")
    /\ UNCHANGED <<req, tries>>

\* The wallet column is written from the snapshot.
WriteBalance(p, b) ==
    wallet' = [wallet EXCEPT ![req[p].user] = SetBalance(@, b)]

WriteReserved(p, r) ==
    wallet' = [wallet EXCEPT ![req[p].user] = SetReserved(@, r)]

\* Faulty Insert: no unique index.
InsertAnyKey(p, l, row) == ledger' = [l EXCEPT ![p] = row]

\* transaction.create under the unique index on idempotencyKey.
Insert(p, l, row) ==
    /\ ~KeyTaken(ledger, row.key)
    /\ ledger' = [l EXCEPT ![p] = row]

CommitDeposit(p) ==
    LET w == seen[p].wallet
        a == req[p].amount
    IN  /\ Committing(p, "deposit")
        /\ WriteBalance(p, w.balance + a)
        /\ Insert(p, ledger, MoveRow(req[p].user, "DEPOSIT", a, w.balance,
                                     req[p].ref, DepositKey(req[p].ref)))

CommitWithdraw(p) ==
    LET w == seen[p].wallet
        a == req[p].amount
    IN  /\ Committing(p, "withdraw")
        /\ WriteBalance(p, w.balance - a)
        /\ Insert(p, ledger, MoveRow(req[p].user, "WITHDRAWAL", -a, w.balance,
                                     NoRef, RandomKey(p)))

CommitReserve(p) ==
    LET w == seen[p].wallet
        a == req[p].amount
    IN  /\ Committing(p, "reserve")
        /\ WriteReserved(p, w.reserved + a)
        /\ Insert(p, ledger, ReserveRow(req[p].user, a, w.balance, req[p].ref))

CommitRelease(p) ==
    /\ Committing(p, "release")
    /\ WriteReserved(p, ClampedSub(seen[p].wallet.reserved, req[p].amount))
    /\ ledger' = MarkRolledBack(ledger, seen[p].rows)

\* The reversal takes back the amount of the row, whatever the row's status was.
CommitRollback(p) ==
    LET w == seen[p].wallet
        t == req[p].ref
        a == ledger[t].amount
    IN  /\ Committing(p, "rollback")
        /\ WriteBalance(p, w.balance - a)
        /\ Insert(p, MarkRolledBack(ledger, seen[p].rows),
                  MoveRow(req[p].user, "ROLLBACK", -a, w.balance, t, RollbackKey(t)))

Commit(p) ==
    \/ CommitDeposit(p) \/ CommitWithdraw(p) \/ CommitReserve(p)
    \/ CommitRelease(p) \/ CommitRollback(p)

Refuse(p) ==
    /\ pc[p] = "open" /\ Refused(p)
    /\ End(p, "failed")
    /\ UNCHANGED <<wallet, ledger, req, tries>>

KeyOf(p) ==
    CASE req[p].op = "deposit" -> DepositKey(req[p].ref)
      [] req[p].op = "reserve" -> ReserveKey(req[p].ref)
      [] req[p].op = "rollback" -> RollbackKey(req[p].ref)
      [] OTHER -> RandomKey(p)

\* P2002: the insert meets the unique index; executeTransaction rethrows it.
KeyClash(p) ==
    /\ pc[p] = "open" /\ ~Refused(p) /\ Serializable(p)
    /\ req[p].op # "release" /\ KeyTaken(ledger, KeyOf(p))
    /\ End(p, "failed")
    /\ UNCHANGED <<wallet, ledger, req, tries>>

\* Faulty Conflict: retried for ever, the counter is not incremented.
ConflictUncounted(p) ==
    /\ pc[p] = "open"
    /\ End(p, "ready")
    /\ UNCHANGED <<wallet, ledger, req, tries>>

\* P2034: a write conflict, a deadlock or a false positive of the database;
\* the callback is run again, on a new snapshot, while attempts are left.
Conflict(p) ==
    /\ pc[p] = "open"
    /\ IF tries[p] < MaxRetries - 1
       THEN End(p, "ready") /\ tries' = [tries EXCEPT ![p] = @ + 1]
       ELSE End(p, "failed") /\ UNCHANGED tries
    /\ UNCHANGED <<wallet, ledger, req>>

\* maxWait or timeout exceeded, connection lost: any other error is rethrown, and
\* nothing was written.
Abort(p) ==
    /\ pc[p] \in {"check", "ready", "open"}
    /\ End(p, "failed")
    /\ UNCHANGED <<wallet, ledger, req, tries>>

Arrive(p) ==
    \/ \E u \in Users, a \in Amounts :
          \/ \E r \in DepositRefs : Deposit(p, u, a, r)
          \/ Withdraw(p, u, a)
          \/ ReserveFunds(p, u, a)
          \/ ReleaseReservation(p, u, a)
    \/ \E t \in Requests : Rollback(p, t)

Advance(p) ==
    \/ CheckKey(p) \/ CheckBalance(p) \/ Begin(p) \/ Commit(p)
    \/ Refuse(p) \/ KeyClash(p) \/ Conflict(p) \/ Abort(p)

Next == \E p \in Requests : Arrive(p) \/ Advance(p)

Spec == Init /\ [][Next]_vars

\* The server keeps executing a call it has accepted, and the database answers.
FairSpec == Spec /\ \A p \in Requests : WF_vars(Advance(p))

-------------------------------------------------------------------------------
\* Properties.

TypeOK ==
    /\ wallet \in [Users -> Wallet]
    /\ ledger \in Ledgers
    /\ req \in [Requests -> Req \cup {NoReq}]
    /\ pc \in [Requests -> {"idle", "check", "ready", "open"} \cup Ended]
    /\ seen \in [Requests -> Snapshot \cup {NoSnapshot}]
    /\ tries \in [Requests -> 0 .. MaxRetries - 1]

\* The version column is what makes a snapshot trustworthy: while the version a
\* transaction saw is still current, so are the balance and the reservation it
\* saw (every writer of the wallet increments version in the same update).
SnapshotsFresh ==
    \A p \in Requests :
        pc[p] = "open" =>
            LET w == wallet[req[p].user]
            IN  /\ seen[p].wallet.version <= w.version
                /\ seen[p].wallet.version = w.version => seen[p].wallet = w

\* What each call carries: its arguments fit its operation, it has no row before
\* it commits, and a rollback names a row of the user whose wallet it uses.
CallsOK ==
    \A p \in Requests :
        /\ pc[p] = "idle" <=> req[p] = NoReq
        /\ pc[p] \notin Ended => ledger[p] = NoRow
        /\ pc[p] \in {"check", "ready", "open"} =>
              \/ req[p].op = "deposit" /\ req[p].amount \in Amounts \ {0}
                                       /\ req[p].ref \in DepositRefs
              \/ req[p].op = "withdraw" /\ req[p].amount \in Amounts \ {0}
              \/ req[p].op \in {"reserve", "release"}
                    /\ req[p].amount \in Amounts \ {0} /\ req[p].ref = PreCheck
              \/ req[p].op = "rollback" /\ req[p].ref \in Posted(ledger)
                    /\ req[p].user = ledger[req[p].ref].user

\* What the rows of a snapshot are: a rollback's is the row it names, a
\* release's are reservations (maybe rolled back since), and while the version
\* is current no reservation of the user is missing from them.
RowsSeen ==
    \A p \in Requests :
        pc[p] = "open" =>
            /\ seen[p] \in Snapshot
            /\ req[p].op = "rollback" => seen[p].rows \subseteq {req[p].ref}
            /\ req[p].op = "release" =>
                  /\ \A t \in seen[p].rows :
                        /\ t \in Posted(ledger) /\ ledger[t].type = "BET_PLACEMENT"
                        /\ ledger[t].ref = PreCheck
                        /\ ledger[t].status \in {"PENDING", "ROLLED_BACK"}
                  /\ seen[p].wallet.version = wallet[req[p].user].version =>
                        \A t \in Reservations(ledger, PreCheck) :
                            ledger[t].user = req[p].user => t \in seen[p].rows

\* The inductive invariant the proofs rest on.
IInv == TypeOK /\ CallsOK /\ SnapshotsFresh /\ RowsSeen

\* A row is reversed by at most one ROLLBACK row, and a row that moved the
\* balance says ROLLED_BACK exactly when such a row exists: two administrators
\* rolling back the same row, or a retried rollback, cannot pay twice.
ReversedOnce ==
    /\ \A s, t \in Posted(ledger) :
          /\ ledger[s].type = "ROLLBACK" /\ ledger[t].type = "ROLLBACK"
          /\ ledger[s].ref = ledger[t].ref
          => s = t
    /\ \A t \in Posted(ledger) :
          LET reversed == \E s \in Posted(ledger) :
                             ledger[s].type = "ROLLBACK" /\ ledger[s].ref = t
          IN  /\ reversed => ledger[t].status = "ROLLED_BACK"
              /\ ledger[t].type # "BET_PLACEMENT" /\ ledger[t].status = "ROLLED_BACK"
                    => reversed

\* What ReversedOnce and NoOverdraft rest on: the unique index, what a ROLLBACK
\* row refers to, and that the clamp keeps reservations from going negative.
LedgerInv ==
    /\ \A s, t \in Posted(ledger) : ledger[s].key = ledger[t].key => s = t
    /\ \A t \in Posted(ledger) :
          ledger[t].type = "ROLLBACK" =>
              ledger[t].key = RollbackKey(ledger[t].ref) /\ ledger[t].ref \in Posted(ledger)
    /\ ReversedOnce
    /\ \A u \in Users : wallet[u].reserved >= 0

\* The ledger explains the balance of every wallet, whatever the interleaving,
\* the retries and the failures: no committed write was lost or applied twice.
BalanceIsLedger ==
    \A u \in Users : wallet[u].balance = Opening[u] + Moved(ledger, u)

\* Two withdrawals or reservations that each saw enough money cannot together
\* take more than there is: only a rollback (a reversed deposit) lowers what is
\* available below zero.
NoOverdraft ==
    [][\A u \in Users :
          \/ Available(wallet'[u]) >= Available(wallet[u])
          \/ Available(wallet'[u]) >= 0
          \/ \E t \in Posted(ledger') \ Posted(ledger) :
                ledger'[t].type = "ROLLBACK" /\ ledger'[t].user = u]_vars

\* Every call implements one atomic operation on the current wallet, or none.
Atomic == INSTANCE AtomicWallet WITH wallet <- wallet, ledger <- ledger

AtomicSpec == Atomic!ASpec

\* Every call ends: retries are bounded and every failure is answered.
Termination == \A p \in Requests : pc[p] # "idle" ~> pc[p] \in Ended
===============================================================================
