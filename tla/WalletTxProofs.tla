---------------------------- MODULE WalletTxProofs ----------------------------
(***************************************************************************)
(* Proofs about WalletTx for every set of users, calls, references and     *)
(* amounts: the inductive invariant, the single reversal of a row, the     *)
(* absence of overdrafts, and that WalletTx implements AtomicWallet.       *)
(***************************************************************************)
EXTENDS WalletTx, LedgerProofs

-------------------------------------------------------------------------------
\* The inductive invariant.

USE DEF Ended

\* The database starts with the opening balances, an empty ledger and no call.
LEMMA InitIInv == Init => IInv
<1> SUFFICES ASSUME Init PROVE IInv
  OBVIOUS
<1>1. wallet \in [Users -> Wallet]
  BY OpeningAssumption DEF Init, OpeningWallet, Wallet
<1>2. TypeOK
  BY <1>1, MaxRetriesAssumption DEF Init, TypeOK, EmptyLedger, Ledgers
<1>3. CallsOK
  BY DEF Init, CallsOK, EmptyLedger
<1>4. SnapshotsFresh /\ RowsSeen
  BY DEF Init, SnapshotsFresh, RowsSeen
<1> QED BY <1>2, <1>3, <1>4 DEF IInv

\* A call that arrives with well-formed arguments, or is refused at once.
LEMMA CallIInv ==
    ASSUME IInv, NEW p \in Requests, NEW op \in Ops, NEW u \in Users, NEW a \in Nat,
           NEW r \in Refs, NEW l \in {"check", "ready", "failed"},
           Call(p, op, u, a, r, l),
           l # "failed" =>
              \/ op = "deposit" /\ a \in Amounts \ {0} /\ r \in DepositRefs
              \/ op = "withdraw" /\ a \in Amounts \ {0}
              \/ op \in {"reserve", "release"} /\ a \in Amounts \ {0} /\ r = PreCheck
              \/ op = "rollback" /\ r \in Posted(ledger) /\ u = ledger[r].user
    PROVE  IInv'
<1> DEFINE new == [op |-> op, user |-> u, amount |-> a, ref |-> r]
<1>1. new \in Req /\ new # NoReq
  BY DEF Req, NoReq, Ops
<1>2. /\ req' = [req EXCEPT ![p] = new] /\ pc' = [pc EXCEPT ![p] = l]
      /\ pc[p] = "idle"
      /\ UNCHANGED <<wallet, ledger, seen, tries>>
  BY DEF Call, Goto
<1>3. TypeOK'
  BY <1>1, <1>2 DEF IInv, TypeOK
<1>4. CallsOK'
  BY <1>1, <1>2 DEF IInv, TypeOK, CallsOK, Posted
<1>5. SnapshotsFresh'
  BY <1>2 DEF IInv, TypeOK, SnapshotsFresh
<1>6. RowsSeen'
  BY <1>2 DEF IInv, TypeOK, RowsSeen, Posted, Reservations
<1> QED BY <1>3, <1>4, <1>5, <1>6 DEF IInv

\* The checks outside the transaction only move the call on.
LEMMA CheckIInv ==
    ASSUME IInv, NEW p \in Requests, CheckKey(p) \/ CheckBalance(p)
    PROVE  IInv'
<1> PICK l \in {"ready", "done", "failed"} :
       /\ pc' = [pc EXCEPT ![p] = l] /\ pc[p] = "check"
       /\ UNCHANGED <<wallet, ledger, req, seen, tries>>
  BY DEF CheckKey, CheckBalance, Goto
<1>1. TypeOK'
  BY DEF IInv, TypeOK
<1>2. CallsOK'
  BY DEF IInv, TypeOK, CallsOK, Posted
<1>3. SnapshotsFresh' /\ RowsSeen'
  BY DEF IInv, TypeOK, SnapshotsFresh, RowsSeen, Posted, Reservations
<1> QED BY <1>1, <1>2, <1>3 DEF IInv

\* A new snapshot is fresh and shows the rows the transaction will update.
LEMMA BeginIInv ==
    ASSUME IInv, NEW p \in Requests, Begin(p)
    PROVE  IInv'
<1> DEFINE new == [wallet |-> wallet[req[p].user], rows |-> Touched(p)]
<1>1. /\ pc' = [pc EXCEPT ![p] = "open"] /\ pc[p] = "ready"
      /\ seen' = [seen EXCEPT ![p] = new]
      /\ UNCHANGED <<wallet, ledger, req, tries>>
  BY DEF Begin, Goto
<1>2. req[p] \in Req
  BY <1>1 DEF IInv, TypeOK, CallsOK
<1>3. /\ Touched(p) \in SUBSET Requests
      /\ req[p].op = "rollback" => Touched(p) \subseteq {req[p].ref}
      /\ req[p].op = "release" => Touched(p) = Reservations(ledger, PreCheck)
  BY <1>1, <1>2 DEF Touched, Reservations, Posted, IInv, CallsOK
<1>4. new \in Snapshot
  BY <1>2, <1>3 DEF Snapshot, Req, IInv, TypeOK
<1>5. TypeOK'
  BY <1>1, <1>4 DEF IInv, TypeOK
<1>6. CallsOK'
  BY <1>1 DEF IInv, TypeOK, CallsOK, Posted
<1>7. SnapshotsFresh'
  <2> SUFFICES ASSUME NEW q \in Requests, pc'[q] = "open"
               PROVE  LET w == wallet[req[q].user]
                      IN  /\ seen'[q].wallet.version <= w.version
                          /\ seen'[q].wallet.version = w.version => seen'[q].wallet = w
    BY <1>1 DEF SnapshotsFresh
  <2>1. CASE q = p
    BY <1>1, <1>2, <2>1 DEF IInv, TypeOK, Req, Wallet
  <2>2. CASE q # p
    BY <1>1, <2>2 DEF IInv, TypeOK, SnapshotsFresh
  <2> QED BY <2>1, <2>2
<1>8. RowsSeen'
  <2> SUFFICES ASSUME NEW q \in Requests, pc'[q] = "open"
               PROVE  /\ seen'[q] \in Snapshot
                      /\ req[q].op = "rollback" => seen'[q].rows \subseteq {req[q].ref}
                      /\ req[q].op = "release" =>
                          /\ \A t \in seen'[q].rows :
                                /\ t \in Posted(ledger) /\ ledger[t].type = "BET_PLACEMENT"
                                /\ ledger[t].ref = PreCheck
                                /\ ledger[t].status \in {"PENDING", "ROLLED_BACK"}
                          /\ seen'[q].wallet.version = wallet[req[q].user].version =>
                                \A t \in Reservations(ledger, PreCheck) :
                                    ledger[t].user = req[q].user => t \in seen'[q].rows
    BY <1>1 DEF RowsSeen, Posted, Reservations
  <2>1. CASE q = p
    BY <1>1, <1>3, <1>4, <2>1 DEF IInv, TypeOK, Reservations
  <2>2. CASE q # p
    BY <1>1, <2>2 DEF IInv, TypeOK, RowsSeen
  <2> QED BY <2>1, <2>2
<1> QED BY <1>5, <1>6, <1>7, <1>8 DEF IInv

\* A transaction that ends without a commit.
LEMMA NoCommitIInv ==
    ASSUME IInv, NEW p \in Requests, Refuse(p) \/ KeyClash(p) \/ Conflict(p) \/ Abort(p)
    PROVE  IInv'
<1>1. PICK l \in {"ready", "failed"} :
         /\ pc' = [pc EXCEPT ![p] = l] /\ pc[p] \in {"check", "ready", "open"}
         /\ seen' = [seen EXCEPT ![p] = NoSnapshot]
         /\ UNCHANGED <<wallet, ledger, req>>
         /\ tries' \in [Requests -> 0 .. MaxRetries - 1]
  <2>1. CASE Conflict(p)
    BY <2>1, MaxRetriesAssumption DEF Conflict, End, Goto, IInv, TypeOK
  <2>2. CASE Refuse(p) \/ KeyClash(p) \/ Abort(p)
    BY <2>2 DEF Refuse, KeyClash, Abort, End, Goto, IInv, TypeOK
  <2> QED BY <2>1, <2>2
<1>2. TypeOK'
  BY <1>1 DEF IInv, TypeOK
<1>3. CallsOK'
  BY <1>1 DEF IInv, TypeOK, CallsOK, Posted
<1>4. SnapshotsFresh'
  BY <1>1 DEF IInv, TypeOK, SnapshotsFresh
<1>5. RowsSeen'
  BY <1>1 DEF IInv, TypeOK, RowsSeen, Posted, Reservations
<1> QED BY <1>2, <1>3, <1>4, <1>5 DEF IInv

\* What every commit of call p does to the tables: it writes one wallet and its
\* version, inserts at most row p, and only ever moves a status to ROLLED_BACK.
Committed(p) ==
    /\ pc[p] = "open"
    /\ pc' = [pc EXCEPT ![p] = "done"]
    /\ seen' = [seen EXCEPT ![p] = NoSnapshot]
    /\ UNCHANGED <<req, tries>>
    /\ \E w \in Wallet :
          /\ w.version = wallet[req[p].user].version + 1
          /\ wallet' = [wallet EXCEPT ![req[p].user] = w]
    /\ ledger' \in Ledgers
    /\ Posted(ledger) \subseteq Posted(ledger')
    /\ Posted(ledger') \subseteq Posted(ledger) \cup {p}
    /\ p \in Posted(ledger') => ledger'[p].user = req[p].user
    /\ \A t \in Posted(ledger) :
          /\ ledger'[t].user = ledger[t].user
          /\ ledger'[t].type = ledger[t].type
          /\ ledger'[t].ref = ledger[t].ref
          /\ ledger'[t].key = ledger[t].key
          /\ ledger'[t].status \in {ledger[t].status, "ROLLED_BACK"}

\* A commit keeps the inductive invariant: the other open snapshots of the same
\* wallet are stale from then on, and those of other wallets are untouched.
LEMMA CommittedIInv ==
    ASSUME IInv, NEW p \in Requests, Committed(p)
    PROVE  IInv'
<1> USE DEF Committed
<1>1. req[p] \in Req /\ req[p].user \in Users
  BY DEF IInv, TypeOK, CallsOK, Req
<1>2. PICK w \in Wallet : /\ w.version = wallet[req[p].user].version + 1
                          /\ wallet' = [wallet EXCEPT ![req[p].user] = w]
  OBVIOUS
<1>3. TypeOK'
  BY <1>2 DEF IInv, TypeOK
<1>4. CallsOK'
  <2> SUFFICES ASSUME NEW q \in Requests
               PROVE  /\ pc'[q] = "idle" <=> req[q] = NoReq
                      /\ pc'[q] \notin Ended => ledger'[q] = NoRow
                      /\ pc'[q] \in {"check", "ready", "open"} =>
                          \/ req[q].op = "deposit" /\ req[q].amount \in Amounts \ {0}
                                                   /\ req[q].ref \in DepositRefs
                          \/ req[q].op = "withdraw" /\ req[q].amount \in Amounts \ {0}
                          \/ req[q].op \in {"reserve", "release"}
                                /\ req[q].amount \in Amounts \ {0} /\ req[q].ref = PreCheck
                          \/ req[q].op = "rollback" /\ req[q].ref \in Posted(ledger')
                                /\ req[q].user = ledger'[req[q].ref].user
    BY DEF CallsOK
  <2>1. CASE q = p
    BY <2>1 DEF IInv, TypeOK, CallsOK
  <2>2. CASE q # p
    <3>1. pc'[q] = pc[q]
      BY <2>2 DEF IInv, TypeOK
    <3>2. pc[q] \notin Ended => ledger'[q] = NoRow
      BY <2>2, PostedRow DEF IInv, TypeOK, CallsOK
    <3> QED BY <3>1, <3>2 DEF IInv, CallsOK
  <2> QED BY <2>1, <2>2
<1>5. SnapshotsFresh'
  <2> SUFFICES ASSUME NEW q \in Requests, pc'[q] = "open"
               PROVE  LET x == wallet'[req[q].user]
                      IN  /\ seen'[q].wallet.version <= x.version
                          /\ seen'[q].wallet.version = x.version => seen'[q].wallet = x
    BY DEF SnapshotsFresh
  <2>1. q # p /\ pc[q] = "open" /\ seen'[q] = seen[q]
    BY DEF IInv, TypeOK
  <2>2. seen[q] \in Snapshot /\ req[q] \in Req
    BY <2>1 DEF IInv, TypeOK, CallsOK, RowsSeen
  <2>3. CASE req[q].user = req[p].user
    BY <1>1, <1>2, <2>1, <2>2, <2>3 DEF IInv, TypeOK, SnapshotsFresh, Snapshot, Wallet
  <2>4. CASE req[q].user # req[p].user
    BY <1>1, <1>2, <2>1, <2>2, <2>4 DEF IInv, TypeOK, SnapshotsFresh, Req
  <2> QED BY <2>3, <2>4
<1>6. RowsSeen'
  <2> SUFFICES ASSUME NEW q \in Requests, pc'[q] = "open"
               PROVE  /\ seen'[q] \in Snapshot
                      /\ req[q].op = "rollback" => seen'[q].rows \subseteq {req[q].ref}
                      /\ req[q].op = "release" =>
                          /\ \A t \in seen'[q].rows :
                                /\ t \in Posted(ledger') /\ ledger'[t].type = "BET_PLACEMENT"
                                /\ ledger'[t].ref = PreCheck
                                /\ ledger'[t].status \in {"PENDING", "ROLLED_BACK"}
                          /\ seen'[q].wallet.version = wallet'[req[q].user].version =>
                                \A t \in Reservations(ledger', PreCheck) :
                                    ledger'[t].user = req[q].user => t \in seen'[q].rows
    BY DEF RowsSeen
  <2>1. q # p /\ pc[q] = "open" /\ seen'[q] = seen[q]
    BY DEF IInv, TypeOK
  <2>2. /\ seen[q] \in Snapshot /\ req[q] \in Req
        /\ req[q].op = "rollback" => seen[q].rows \subseteq {req[q].ref}
        /\ seen[q].wallet.version <= wallet[req[q].user].version
    BY <2>1 DEF IInv, TypeOK, CallsOK, RowsSeen, SnapshotsFresh
  <2>3. ASSUME req[q].op = "release", NEW t \in seen[q].rows
        PROVE  /\ t \in Posted(ledger') /\ ledger'[t].type = "BET_PLACEMENT"
               /\ ledger'[t].ref = PreCheck
               /\ ledger'[t].status \in {"PENDING", "ROLLED_BACK"}
    <3>1. /\ t \in Posted(ledger) /\ ledger[t].type = "BET_PLACEMENT"
          /\ ledger[t].ref = PreCheck
          /\ ledger[t].status \in {"PENDING", "ROLLED_BACK"}
      BY <2>1, <2>3 DEF IInv, RowsSeen
    <3> QED BY <3>1
  <2>4. ASSUME req[q].op = "release",
               seen[q].wallet.version = wallet'[req[q].user].version,
               NEW t \in Reservations(ledger', PreCheck), ledger'[t].user = req[q].user
        PROVE  t \in seen[q].rows
    <3>1. req[q].user # req[p].user
      BY <1>1, <1>2, <2>2, <2>4 DEF IInv, TypeOK, Snapshot, Wallet
    <3>2. seen[q].wallet.version = wallet[req[q].user].version
      BY <1>1, <1>2, <2>2, <2>4, <3>1 DEF IInv, TypeOK, Req
    <3>3. t \in Posted(ledger) /\ ledger[t].user = req[q].user
      BY <2>4, <3>1 DEF Reservations
    <3>4. t \in Reservations(ledger, PreCheck)
      BY <2>4, <3>3 DEF Reservations
    <3> QED BY <2>1, <2>4, <3>2, <3>3, <3>4 DEF IInv, RowsSeen
  <2> QED BY <2>1, <2>2, <2>3, <2>4
<1> QED BY <1>3, <1>4, <1>5, <1>6 DEF IInv

-------------------------------------------------------------------------------
\* The commits.

\* A transaction that may commit has seen the wallet as it is now.
LEMMA CommittingFacts ==
    ASSUME IInv, NEW p \in Requests, NEW op \in Ops, Committing(p, op)
    PROVE  /\ pc[p] = "open" /\ req[p].op = op
           /\ pc' = [pc EXCEPT ![p] = "done"]
           /\ seen' = [seen EXCEPT ![p] = NoSnapshot]
           /\ UNCHANGED <<req, tries>>
           /\ req[p] \in Req /\ req[p].user \in Users /\ req[p].amount \in Nat
           /\ req[p].ref \in Refs
           /\ seen[p].wallet = wallet[req[p].user]
           /\ wallet[req[p].user] \in Wallet
           /\ ledger \in Ledgers
           /\ ledger[p] = NoRow /\ p \notin Posted(ledger)
           /\ ~Refused(p) /\ Serializable(p)
<1>1. /\ pc[p] = "open" /\ req[p].op = op
      /\ pc' = [pc EXCEPT ![p] = "done"]
      /\ seen' = [seen EXCEPT ![p] = NoSnapshot]
      /\ UNCHANGED <<req, tries>>
      /\ ~Refused(p) /\ Serializable(p)
  BY DEF Committing, End, Goto
<1>2. req[p] \in Req /\ ledger \in Ledgers /\ ledger[p] = NoRow
  BY <1>1 DEF IInv, TypeOK, CallsOK
<1>3. seen[p].wallet = wallet[req[p].user]
  BY <1>1 DEF IInv, SnapshotsFresh, Serializable
<1>4. p \notin Posted(ledger)
  BY <1>2, PostedRow
<1>5. wallet[req[p].user] \in Wallet
  BY <1>2 DEF IInv, TypeOK, Req
<1> QED BY <1>1, <1>2, <1>3, <1>4, <1>5 DEF Req

\* A commit that inserts a row, possibly after marking others, is a commit.
LEMMA InsertCommitted ==
    ASSUME IInv, NEW p \in Requests, NEW op \in Ops, Committing(p, op),
           NEW R \in SUBSET Posted(ledger), NEW row \in Row, row.user = req[p].user,
           ledger' = [MarkRolledBack(ledger, R) EXCEPT ![p] = row],
           NEW w \in Wallet, w.version = wallet[req[p].user].version + 1,
           wallet' = [wallet EXCEPT ![req[p].user] = w]
    PROVE  /\ Committed(p)
           /\ Posted(ledger') = Posted(ledger) \cup {p}
           /\ ledger'[p] = row
           /\ \A t \in Posted(ledger) : ledger'[t] = MarkRolledBack(ledger, R)[t]
<1>1. MarkRolledBack(ledger, R) \in Ledgers
      /\ Posted(MarkRolledBack(ledger, R)) = Posted(ledger)
  BY MarkedLedger, CommittingFacts
<1>2. ledger' \in Ledgers /\ Posted(ledger') = Posted(ledger) \cup {p}
  BY <1>1, InsertedLedger
<1>3. ledger'[p] = row /\ p \notin Posted(ledger)
  BY <1>1, CommittingFacts DEF Ledgers
<1>4. ASSUME NEW t \in Posted(ledger)
      PROVE  ledger'[t] = MarkRolledBack(ledger, R)[t]
  BY <1>1, <1>3 DEF Ledgers, Posted
<1>5. ASSUME NEW t \in Posted(ledger)
      PROVE  /\ ledger'[t].user = ledger[t].user
             /\ ledger'[t].type = ledger[t].type
             /\ ledger'[t].ref = ledger[t].ref
             /\ ledger'[t].key = ledger[t].key
             /\ ledger'[t].status \in {ledger[t].status, "ROLLED_BACK"}
  <2>1. ledger \in Ledgers
    BY CommittingFacts
  <2> QED BY <1>4, <2>1, MarkedKeeps
<1>6. Committed(p)
  BY <1>2, <1>3, <1>5, CommittingFacts DEF Committed
<1> QED BY <1>2, <1>3, <1>4, <1>6

\* A commit that moves the balance by d: deposits, withdrawals, rollbacks.
LEMMA MoveCommitted ==
    ASSUME IInv, NEW p \in Requests, NEW op \in Ops, Committing(p, op),
           NEW R \in SUBSET Posted(ledger), NEW ty \in Types, NEW d \in Int,
           NEW r \in Refs, NEW k \in Keys,
           WriteBalance(p, seen[p].wallet.balance + d),
           Insert(p, MarkRolledBack(ledger, R),
                  MoveRow(req[p].user, ty, d, seen[p].wallet.balance, r, k))
    PROVE  /\ Committed(p)
           /\ Posted(ledger') = Posted(ledger) \cup {p}
           /\ ~KeyTaken(ledger, k)
           /\ ledger'[p] = MoveRow(req[p].user, ty, d, wallet[req[p].user].balance, r, k)
           /\ \A t \in Posted(ledger) : ledger'[t] = MarkRolledBack(ledger, R)[t]
           /\ ledger' = [MarkRolledBack(ledger, R) EXCEPT ![p] = ledger'[p]]
           /\ wallet' = [wallet EXCEPT ![req[p].user] = SetBalance(@, @.balance + d)]
<1> DEFINE u == req[p].user
           row == MoveRow(u, ty, d, wallet[u].balance, r, k)
           w == SetBalance(wallet[u], wallet[u].balance + d)
<1>1. /\ seen[p].wallet = wallet[u] /\ u \in Users /\ wallet[u] \in Wallet
  BY CommittingFacts
<1>2. row \in Row /\ row.user = u /\ row.key = k
  <2>1. wallet[u].balance \in Int
    BY <1>1 DEF Wallet
  <2>2. row \in Row
    BY <1>1, <2>1, MoveRowType
  <2> QED BY <2>2 DEF MoveRow
<1>3. w \in Wallet /\ w.version = wallet[u].version + 1
  <2>1. wallet[u].balance + d \in Int
    BY <1>1 DEF Wallet
  <2> QED BY <1>1, <2>1, WalletType
<1>4. /\ ledger' = [MarkRolledBack(ledger, R) EXCEPT ![p] = row]
      /\ ~KeyTaken(ledger, k)
  BY <1>1, <1>2 DEF Insert
<1>5. wallet' = [wallet EXCEPT ![u] = w]
  BY <1>1 DEF WriteBalance
<1>6. wallet' = [wallet EXCEPT ![u] = SetBalance(@, @.balance + d)]
  BY <1>1, <1>5
<1> HIDE DEF row, w
<1>7. /\ Committed(p)
      /\ Posted(ledger') = Posted(ledger) \cup {p}
      /\ ledger'[p] = row
      /\ \A t \in Posted(ledger) : ledger'[t] = MarkRolledBack(ledger, R)[t]
  BY <1>2, <1>3, <1>4, <1>5, InsertCommitted
<1> QED BY <1>4, <1>6, <1>7 DEF row

\* credit: the deposit's row and the new balance.
LEMMA DepositCommitted ==
    ASSUME IInv, NEW p \in Requests, CommitDeposit(p)
    PROVE  LET u == req[p].user
               a == req[p].amount
               r == req[p].ref
           IN  /\ a \in Amounts \ {0} /\ r \in DepositRefs /\ u \in Users
               /\ Committed(p)
               /\ Posted(ledger') = Posted(ledger) \cup {p}
               /\ ~KeyTaken(ledger, DepositKey(r))
               /\ ledger'[p] = MoveRow(u, "DEPOSIT", a, wallet[u].balance, r, DepositKey(r))
               /\ \A t \in Posted(ledger) : ledger'[t] = MarkRolledBack(ledger, {})[t]
               /\ ledger' = [MarkRolledBack(ledger, {}) EXCEPT ![p] = ledger'[p]]
               /\ wallet' = [wallet EXCEPT ![u] = SetBalance(@, @.balance + a)]
<1>1. Committing(p, "deposit") /\ "deposit" \in Ops
  BY DEF CommitDeposit, Ops
<1>2. /\ req[p].amount \in Amounts \ {0} /\ req[p].ref \in DepositRefs
      /\ req[p].amount \in Int /\ req[p].ref \in Refs /\ req[p].user \in Users
  BY <1>1, CommittingFacts DEF IInv, CallsOK
<1>3. /\ DepositKey(req[p].ref) \in Keys /\ "DEPOSIT" \in Types
  BY <1>2 DEF DepositKey, Keys, Types
<1>4. /\ WriteBalance(p, seen[p].wallet.balance + req[p].amount)
      /\ Insert(p, MarkRolledBack(ledger, {}),
                MoveRow(req[p].user, "DEPOSIT", req[p].amount, seen[p].wallet.balance,
                        req[p].ref, DepositKey(req[p].ref)))
  BY <1>1, MarkNone, CommittingFacts DEF CommitDeposit
<1> QED BY <1>1, <1>2, <1>3, <1>4, MoveCommitted

\* debit: only what is available is withdrawn.
LEMMA WithdrawCommitted ==
    ASSUME IInv, NEW p \in Requests, CommitWithdraw(p)
    PROVE  LET u == req[p].user
               a == req[p].amount
           IN  /\ a \in Amounts \ {0} /\ u \in Users
               /\ a <= Available(wallet[u])
               /\ Committed(p)
               /\ Posted(ledger') = Posted(ledger) \cup {p}
               /\ ~KeyTaken(ledger, RandomKey(p))
               /\ ledger'[p] = MoveRow(u, "WITHDRAWAL", -a, wallet[u].balance, NoRef, RandomKey(p))
               /\ \A t \in Posted(ledger) : ledger'[t] = MarkRolledBack(ledger, {})[t]
               /\ ledger' = [MarkRolledBack(ledger, {}) EXCEPT ![p] = ledger'[p]]
               /\ wallet' = [wallet EXCEPT ![u] = SetBalance(@, @.balance + (-a))]
<1>1. Committing(p, "withdraw") /\ "withdraw" \in Ops
  BY DEF CommitWithdraw, Ops
<1>2. /\ req[p].amount \in Amounts \ {0} /\ req[p].user \in Users
      /\ req[p].amount \in Int /\ -req[p].amount \in Int /\ NoRef \in Refs
      /\ seen[p].wallet = wallet[req[p].user] /\ wallet[req[p].user] \in Wallet
      /\ req[p].op = "withdraw"
  BY <1>1, CommittingFacts DEF IInv, CallsOK, Refs
<1>3. RandomKey(p) \in Keys /\ "WITHDRAWAL" \in Types
  BY DEF RandomKey, Keys, Types, Refs
<1>4. req[p].amount <= Available(wallet[req[p].user])
  BY <1>1, <1>2, CommittingFacts DEF Refused, Available, Wallet
<1>5. seen[p].wallet.balance - req[p].amount = seen[p].wallet.balance + (-req[p].amount)
  BY <1>2 DEF Wallet
<1>6. /\ WriteBalance(p, seen[p].wallet.balance + (-req[p].amount))
      /\ Insert(p, MarkRolledBack(ledger, {}),
                MoveRow(req[p].user, "WITHDRAWAL", -req[p].amount, seen[p].wallet.balance,
                        NoRef, RandomKey(p)))
  BY <1>1, <1>5, MarkNone, CommittingFacts DEF CommitWithdraw
<1> QED BY <1>1, <1>2, <1>3, <1>4, <1>6, MoveCommitted

\* rollback: the row it names was posted and not yet reversed.
LEMMA RollbackCommitted ==
    ASSUME IInv, NEW p \in Requests, CommitRollback(p)
    PROVE  LET t == req[p].ref
               u == ledger[t].user
               d == -ledger[t].amount
           IN  /\ t \in Posted(ledger) /\ ledger[t].status # "ROLLED_BACK"
               /\ t # p
               /\ u = req[p].user /\ u \in Users
               /\ Committed(p)
               /\ Posted(ledger') = Posted(ledger) \cup {p}
               /\ ~KeyTaken(ledger, RollbackKey(t))
               /\ ledger'[p] = MoveRow(u, "ROLLBACK", d, wallet[u].balance, t, RollbackKey(t))
               /\ \A s \in Posted(ledger) : ledger'[s] = MarkRolledBack(ledger, {t})[s]
               /\ ledger' = [MarkRolledBack(ledger, {t}) EXCEPT ![p] = ledger'[p]]
               /\ wallet' = [wallet EXCEPT ![u] = SetBalance(@, @.balance + d)]
<1> DEFINE t == req[p].ref
           d == -ledger[t].amount
<1>1. Committing(p, "rollback") /\ "rollback" \in Ops
  BY DEF CommitRollback, Ops
<1>2. /\ req[p].op = "rollback" /\ pc[p] = "open" /\ req[p].user \in Users
      /\ t \in Posted(ledger) /\ req[p].user = ledger[t].user
      /\ t # p
      /\ seen[p].wallet = wallet[req[p].user] /\ wallet[req[p].user] \in Wallet
  BY <1>1, CommittingFacts DEF IInv, CallsOK
<1>3. seen[p].rows = {t} /\ ledger[t].status # "ROLLED_BACK"
  BY <1>1, <1>2, CommittingFacts DEF IInv, RowsSeen, Refused, Serializable
<1>4. ledger[t] \in Row /\ t \in Requests
  BY <1>2, PostedRow DEF IInv, TypeOK, Posted
<1>5. d \in Int /\ t \in Refs /\ RollbackKey(t) \in Keys /\ "ROLLBACK" \in Types
  BY <1>4 DEF Row, Refs, RollbackKey, Keys, Types
<1>6. seen[p].wallet.balance - ledger[t].amount = seen[p].wallet.balance + d
  BY <1>2, <1>4 DEF Wallet, Row
<1>7. /\ WriteBalance(p, seen[p].wallet.balance + d)
      /\ Insert(p, MarkRolledBack(ledger, {t}),
                MoveRow(req[p].user, "ROLLBACK", d, seen[p].wallet.balance, t, RollbackKey(t)))
  BY <1>3, <1>6 DEF CommitRollback
<1>8. {t} \in SUBSET Posted(ledger)
  BY <1>2
<1> DEFINE k == RollbackKey(t)
           R == {t}
<1>10. k \in Keys /\ R \in SUBSET Posted(ledger) /\ t \in Refs
  BY <1>5, <1>8
<1>11. Insert(p, MarkRolledBack(ledger, R),
              MoveRow(req[p].user, "ROLLBACK", d, seen[p].wallet.balance, t, k))
  BY <1>7
<1> HIDE DEF d, k, R, t
<1>9. /\ Committed(p)
      /\ Posted(ledger') = Posted(ledger) \cup {p}
      /\ ~KeyTaken(ledger, k)
      /\ ledger'[p] = MoveRow(req[p].user, "ROLLBACK", d, wallet[req[p].user].balance, t, k)
      /\ \A s \in Posted(ledger) : ledger'[s] = MarkRolledBack(ledger, R)[s]
      /\ ledger' = [MarkRolledBack(ledger, R) EXCEPT ![p] = ledger'[p]]
      /\ wallet' = [wallet EXCEPT ![req[p].user] = SetBalance(@, @.balance + d)]
  BY <1>1, <1>5, <1>7, <1>10, <1>11, MoveCommitted
<1> QED BY <1>2, <1>3, <1>9 DEF d, k, R, t

\* reserveFunds: only what is available is reserved, under reserve:pre-check.
LEMMA ReserveCommitted ==
    ASSUME IInv, NEW p \in Requests, CommitReserve(p)
    PROVE  LET u == req[p].user
               a == req[p].amount
           IN  /\ a \in Amounts \ {0} /\ u \in Users
               /\ a <= Available(wallet[u])
               /\ Committed(p)
               /\ Posted(ledger') = Posted(ledger) \cup {p}
               /\ ~KeyTaken(ledger, ReserveKey(PreCheck))
               /\ ledger'[p] = ReserveRow(u, a, wallet[u].balance, PreCheck)
               /\ \A t \in Posted(ledger) : ledger'[t] = MarkRolledBack(ledger, {})[t]
               /\ ledger' = [MarkRolledBack(ledger, {}) EXCEPT ![p] = ledger'[p]]
               /\ wallet' = [wallet EXCEPT ![u] = SetReserved(@, @.reserved + a)]
<1> DEFINE u == req[p].user
           a == req[p].amount
           row == ReserveRow(u, a, wallet[u].balance, PreCheck)
           w == SetReserved(wallet[u], wallet[u].reserved + a)
           R == {}
<1>1. Committing(p, "reserve") /\ "reserve" \in Ops
  BY DEF CommitReserve, Ops
<1>2. /\ a \in Amounts \ {0} /\ u \in Users /\ a \in Int
      /\ req[p].ref = PreCheck /\ req[p].op = "reserve"
      /\ seen[p].wallet = wallet[u] /\ wallet[u] \in Wallet
      /\ ledger \in Ledgers
  BY <1>1, CommittingFacts DEF IInv, CallsOK
<1>3. a <= Available(wallet[u])
  BY <1>1, <1>2, CommittingFacts DEF Refused, Available, Wallet
<1>4. row \in Row /\ row.user = u /\ row.key = ReserveKey(PreCheck)
  <2>1. row \in Row
    BY <1>2, ReserveRowType DEF Wallet
  <2> QED BY <2>1 DEF ReserveRow
<1>5. w \in Wallet /\ w.version = wallet[u].version + 1
  <2>1. wallet[u].reserved + a \in Int
    BY <1>2 DEF Wallet
  <2> QED BY <1>2, <2>1, WalletType
<1>6. R \in SUBSET Posted(ledger) /\ MarkRolledBack(ledger, R) = ledger
  BY <1>2, MarkNone
<1>7. /\ ledger' = [ledger EXCEPT ![p] = row]
      /\ ~KeyTaken(ledger, ReserveKey(PreCheck))
      /\ wallet' = [wallet EXCEPT ![u] = w]
  BY <1>2, <1>4 DEF CommitReserve, Insert, WriteReserved
<1>8. wallet' = [wallet EXCEPT ![u] = SetReserved(@, @.reserved + a)]
  BY <1>2, <1>7
<1> HIDE DEF row, w, R
<1>9. /\ Committed(p)
      /\ Posted(ledger') = Posted(ledger) \cup {p}
      /\ ledger'[p] = row
      /\ \A t \in Posted(ledger) : ledger'[t] = MarkRolledBack(ledger, R)[t]
  BY <1>1, <1>4, <1>5, <1>6, <1>7, InsertCommitted
<1> QED BY <1>2, <1>3, <1>6, <1>7, <1>8, <1>9 DEF row, R

\* releaseReservation: the user's own reservations end, maybe others' too, and
\* no row is inserted.
LEMMA ReleaseCommitted ==
    ASSUME IInv, NEW p \in Requests, CommitRelease(p)
    PROVE  LET u == req[p].user
               a == req[p].amount
               R == seen[p].rows
           IN  /\ a \in Amounts \ {0} /\ u \in Users
               /\ Committed(p)
               /\ R \in SUBSET Posted(ledger)
               /\ R \in SUBSET Reservations(ledger, PreCheck)
               /\ \A t \in Reservations(ledger, PreCheck) : ledger[t].user = u => t \in R
               /\ Posted(ledger') = Posted(ledger)
               /\ ledger' = MarkRolledBack(ledger, R)
               /\ wallet' = [wallet EXCEPT ![u] = SetReserved(@, ClampedSub(@.reserved, a))]
<1> DEFINE u == req[p].user
           a == req[p].amount
           w == SetReserved(wallet[u], ClampedSub(wallet[u].reserved, a))
           R == seen[p].rows
<1>1. Committing(p, "release") /\ "release" \in Ops
  BY DEF CommitRelease, Ops
<1>2. /\ a \in Amounts \ {0} /\ u \in Users /\ a \in Int
      /\ req[p].op = "release" /\ pc[p] = "open"
      /\ seen[p].wallet = wallet[u] /\ wallet[u] \in Wallet
      /\ ledger \in Ledgers /\ Serializable(p)
  BY <1>1, CommittingFacts DEF IInv, CallsOK
<1>3. /\ R \in SUBSET Reservations(ledger, PreCheck)
      /\ \A t \in Reservations(ledger, PreCheck) : ledger[t].user = u => t \in R
  BY <1>2 DEF IInv, RowsSeen, Reservations, Serializable, Snapshot
<1>4. R \in SUBSET Posted(ledger)
  BY <1>3 DEF Reservations
<1>5. w \in Wallet /\ w.version = wallet[u].version + 1
  <2>1. ClampedSub(wallet[u].reserved, a) \in Int
    BY <1>2 DEF ClampedSub, Wallet
  <2> QED BY <1>2, <2>1, WalletType
<1>6. /\ ledger' = MarkRolledBack(ledger, R)
      /\ wallet' = [wallet EXCEPT ![u] = w]
  BY <1>2 DEF CommitRelease, WriteReserved
<1>7. wallet' = [wallet EXCEPT ![u] = SetReserved(@, ClampedSub(@.reserved, a))]
  BY <1>2, <1>6
<1> HIDE DEF R
<1>8. ledger' \in Ledgers /\ Posted(ledger') = Posted(ledger)
  BY <1>2, <1>4, <1>6, MarkedLedger
<1>9. ASSUME NEW t \in Posted(ledger)
      PROVE  /\ ledger'[t].user = ledger[t].user
             /\ ledger'[t].type = ledger[t].type
             /\ ledger'[t].ref = ledger[t].ref
             /\ ledger'[t].key = ledger[t].key
             /\ ledger'[t].status \in {ledger[t].status, "ROLLED_BACK"}
  BY <1>2, <1>4, <1>6, MarkedKeeps
<1>10. p \notin Posted(ledger')
  BY <1>1, <1>8, CommittingFacts
<1> HIDE DEF w
<1>11. Committed(p)
  BY <1>1, <1>5, <1>6, <1>8, <1>9, <1>10, CommittingFacts DEF Committed
<1> QED BY <1>2, <1>3, <1>4, <1>6, <1>7, <1>8, <1>11 DEF R

\* Every arrival is a well-formed call or a call refused at once.
LEMMA ArriveIInv ==
    ASSUME IInv, NEW p \in Requests, Arrive(p)
    PROVE  IInv'
<1>1. /\ NoRef \in Refs /\ PreCheck \in Refs /\ DepositRefs \subseteq Refs
      /\ Requests \subseteq Refs /\ 0 \in Nat
      /\ {"deposit", "withdraw", "reserve", "release", "rollback"} \subseteq Ops
  BY DEF Refs, Ops
<1>2. ASSUME NEW u \in Users, NEW a \in Amounts, NEW r \in DepositRefs, Deposit(p, u, a, r)
      PROVE  IInv'
  BY <1>1, <1>2, AmountsAssumption, CallIInv DEF Deposit
<1>3. ASSUME NEW u \in Users, NEW a \in Amounts, Withdraw(p, u, a)
      PROVE  IInv'
  BY <1>1, <1>3, AmountsAssumption, CallIInv DEF Withdraw
<1>4. ASSUME NEW u \in Users, NEW a \in Amounts,
             ReserveFunds(p, u, a) \/ ReleaseReservation(p, u, a)
      PROVE  IInv'
  BY <1>1, <1>4, AmountsAssumption, CallIInv DEF ReserveFunds, ReleaseReservation
<1>5. ASSUME NEW t \in Requests, Rollback(p, t)
      PROVE  IInv'
  <2>1. ledger[t].user \in Users
    BY <1>5, PostedRow DEF Rollback, IInv, TypeOK, Row
  <2> QED BY <1>1, <1>5, <2>1, CallIInv DEF Rollback
<1> QED BY <1>2, <1>3, <1>4, <1>5 DEF Arrive

\* Every step of the system keeps the inductive invariant.
LEMMA NextIInv == IInv /\ [Next]_vars => IInv'
<1> SUFFICES ASSUME IInv, [Next]_vars PROVE IInv'
  OBVIOUS
<1>1. ASSUME NEW p \in Requests, Arrive(p) PROVE IInv'
  BY <1>1, ArriveIInv
<1>2. ASSUME NEW p \in Requests, Advance(p) PROVE IInv'
  <2>1. CASE CheckKey(p) \/ CheckBalance(p)
    BY <2>1, CheckIInv
  <2>2. CASE Begin(p)
    BY <2>2, BeginIInv
  <2>3. CASE Refuse(p) \/ KeyClash(p) \/ Conflict(p) \/ Abort(p)
    BY <2>3, NoCommitIInv
  <2>4. CASE Commit(p)
    <3>1. Committed(p)
      BY <2>4, DepositCommitted, WithdrawCommitted, ReserveCommitted, ReleaseCommitted,
         RollbackCommitted DEF Commit
    <3> QED BY <3>1, CommittedIInv
  <2> QED BY <1>2, <2>1, <2>2, <2>3, <2>4 DEF Advance
<1>3. CASE UNCHANGED vars
  BY <1>3 DEF vars, IInv, TypeOK, CallsOK, SnapshotsFresh, RowsSeen, Posted, Reservations
<1> QED BY <1>1, <1>2, <1>3 DEF Next

\* The strengthened invariant holds in every reachable state, whatever the
\* users, calls, amounts and number of attempts.
THEOREM Invariance == Spec => []IInv
<1> QED BY InitIInv, NextIInv, PTL DEF Spec

\* Wallets, ledger rows, calls and snapshots keep their types.
THEOREM TypeCorrect == Spec => []TypeOK
<1>1. IInv => TypeOK
  BY DEF IInv
<1> QED BY <1>1, Invariance, PTL

\* While the version a transaction saw is current, so is everything it saw of
\* the wallet: this is what lets the services write absolute values.
THEOREM FreshSnapshots == Spec => []SnapshotsFresh
<1>1. IInv => SnapshotsFresh
  BY DEF IInv
<1> QED BY <1>1, Invariance, PTL

-------------------------------------------------------------------------------
\* One reversal per row.

\* An empty ledger has no reversal.
LEMMA InitLedgerInv == Init => LedgerInv
<1> SUFFICES ASSUME Init PROVE LedgerInv
  OBVIOUS
<1>1. Posted(ledger) = {}
  BY DEF Init, EmptyLedger, Posted, NoRow
<1>2. \A u \in Users : wallet[u].reserved = 0
  BY DEF Init, OpeningWallet
<1> QED BY <1>1, <1>2 DEF LedgerInv, ReversedOnce

\* A commit that inserts a row that reverses nothing, or no row at all, and
\* marks only reservations.
LEMMA PlainCommitLedgerInv ==
    ASSUME IInv, LedgerInv, NEW p \in Requests, Committed(p),
           NEW R \in SUBSET Reservations(ledger, PreCheck),
           \A t \in Posted(ledger) : ledger'[t] = MarkRolledBack(ledger, R)[t],
           p \in Posted(ledger') => /\ ledger'[p].type # "ROLLBACK"
                                    /\ ledger'[p].status # "ROLLED_BACK"
                                    /\ ~KeyTaken(ledger, ledger'[p].key),
           \A u \in Users : wallet'[u].reserved >= 0
    PROVE  LedgerInv'
<1> USE DEF Committed
<1>1. p \notin Posted(ledger)
  BY PostedRow DEF IInv, TypeOK, CallsOK
<1>2. \A s, t \in Posted(ledger') : ledger'[s].key = ledger'[t].key => s = t
  BY <1>1 DEF LedgerInv, KeyTaken
<1>3. \A t \in Posted(ledger') :
         ledger'[t].type = "ROLLBACK" =>
             /\ ledger'[t].key = RollbackKey(ledger'[t].ref)
             /\ ledger'[t].ref \in Posted(ledger)
  BY DEF LedgerInv
<1>4. \A s, t \in Posted(ledger') :
         /\ ledger'[s].type = "ROLLBACK" /\ ledger'[t].type = "ROLLBACK"
         /\ ledger'[s].ref = ledger'[t].ref
         => s = t
  BY DEF LedgerInv, ReversedOnce
<1>5. ASSUME NEW t \in Posted(ledger'), NEW s \in Posted(ledger'),
             ledger'[s].type = "ROLLBACK", ledger'[s].ref = t
      PROVE  ledger'[t].status = "ROLLED_BACK"
  <2>1. s \in Posted(ledger) /\ t \in Posted(ledger)
    BY <1>3, <1>5
  <2>2. ledger[t].status = "ROLLED_BACK"
    BY <1>5, <2>1 DEF LedgerInv, ReversedOnce
  <2> QED BY <2>1, <2>2
<1>6. ASSUME NEW t \in Posted(ledger'),
             ledger'[t].type # "BET_PLACEMENT", ledger'[t].status = "ROLLED_BACK"
      PROVE  \E s \in Posted(ledger') : ledger'[s].type = "ROLLBACK" /\ ledger'[s].ref = t
  <2>1. t \in Posted(ledger)
    BY <1>6
  <2>2. t \notin R
    BY <1>6, <2>1 DEF Reservations
  <2>3. ledger[t].status = "ROLLED_BACK"
    BY <1>6, <2>1, <2>2 DEF MarkRolledBack, Posted
  <2>4. PICK s \in Posted(ledger) : ledger[s].type = "ROLLBACK" /\ ledger[s].ref = t
    BY <1>6, <2>1, <2>3 DEF LedgerInv, ReversedOnce
  <2> QED BY <2>4
<1> QED BY <1>2, <1>3, <1>4, <1>5, <1>6 DEF LedgerInv, ReversedOnce

\* The commit of a rollback inserts the only reversal of the row it names: an
\* earlier one would hold the same key.
LEMMA RollbackLedgerInv ==
    ASSUME IInv, LedgerInv, NEW p \in Requests, CommitRollback(p)
    PROVE  LedgerInv'
<1> DEFINE t0 == req[p].ref
           d == -ledger[t0].amount
<1>0. /\ t0 \in Posted(ledger) /\ ledger[t0].status # "ROLLED_BACK" /\ t0 # p
      /\ ledger[t0].user = req[p].user
      /\ Committed(p)
      /\ Posted(ledger') = Posted(ledger) \cup {p}
      /\ ~KeyTaken(ledger, RollbackKey(t0))
      /\ ledger'[p] = MoveRow(ledger[t0].user, "ROLLBACK", d,
                              wallet[ledger[t0].user].balance, t0, RollbackKey(t0))
      /\ \A s \in Posted(ledger) : ledger'[s] = MarkRolledBack(ledger, {t0})[s]
      /\ wallet' = [wallet EXCEPT ![ledger[t0].user] = SetBalance(@, @.balance + d)]
  BY RollbackCommitted
<1>1. \A u \in Users : wallet'[u].reserved >= 0
  <2>1. \A u \in Users : wallet'[u].reserved = wallet[u].reserved
    BY <1>0 DEF IInv, TypeOK, SetBalance
  <2> QED BY <2>1 DEF LedgerInv
<1>2. /\ ledger'[p].type = "ROLLBACK" /\ ledger'[p].ref = t0
      /\ ledger'[p].key = RollbackKey(t0) /\ ledger'[p].status = "COMPLETED"
  BY <1>0 DEF MoveRow
<1>3. /\ p \notin Posted(ledger)
      /\ \A t \in Posted(ledger) :
            /\ ledger'[t].type = ledger[t].type /\ ledger'[t].ref = ledger[t].ref
            /\ ledger'[t].key = ledger[t].key
            /\ ledger'[t].status \in {ledger[t].status, "ROLLED_BACK"}
  BY <1>0, PostedRow DEF IInv, TypeOK, CallsOK, Committed
<1>4. ledger'[t0].status = "ROLLED_BACK"
  <2>1. MarkRolledBack(ledger, {t0})[t0].status = "ROLLED_BACK"
    BY <1>0, PostedRow DEF MarkRolledBack, Row, IInv, TypeOK, Posted
  <2> QED BY <1>0, <2>1
<1>5. \A t \in Posted(ledger) : t # t0 => ledger'[t] = ledger[t]
  BY <1>0 DEF MarkRolledBack, Posted
<1> HIDE DEF t0, d
<1>6. \A s, t \in Posted(ledger') : ledger'[s].key = ledger'[t].key => s = t
  BY <1>0, <1>2, <1>3 DEF LedgerInv, KeyTaken
<1>7. \A t \in Posted(ledger') :
         ledger'[t].type = "ROLLBACK" =>
             /\ ledger'[t].key = RollbackKey(ledger'[t].ref)
             /\ ledger'[t].ref \in Posted(ledger)
  BY <1>0, <1>2, <1>3 DEF LedgerInv
<1>8. \A s, t \in Posted(ledger') :
         /\ ledger'[s].type = "ROLLBACK" /\ ledger'[t].type = "ROLLBACK"
         /\ ledger'[s].ref = ledger'[t].ref
         => s = t
  BY <1>6, <1>7
<1>9. ASSUME NEW t \in Posted(ledger'), NEW s \in Posted(ledger'),
             ledger'[s].type = "ROLLBACK", ledger'[s].ref = t
      PROVE  ledger'[t].status = "ROLLED_BACK"
  <2>1. CASE s = p
    BY <1>2, <1>4, <1>9, <2>1
  <2>2. CASE s # p
    <3>1. s \in Posted(ledger) /\ t \in Posted(ledger)
      BY <1>0, <1>7, <1>9, <2>2
    <3>2. ledger[t].status = "ROLLED_BACK"
      BY <1>3, <1>9, <3>1 DEF LedgerInv, ReversedOnce
    <3> QED BY <1>3, <3>1, <3>2
  <2> QED BY <2>1, <2>2
<1>10. ASSUME NEW t \in Posted(ledger'),
              ledger'[t].type # "BET_PLACEMENT", ledger'[t].status = "ROLLED_BACK"
       PROVE  \E s \in Posted(ledger') : ledger'[s].type = "ROLLBACK" /\ ledger'[s].ref = t
  <2>1. CASE t = t0
    BY <1>0, <1>2, <2>1
  <2>2. CASE t # t0
    <3>1. t \in Posted(ledger) /\ ledger[t] = ledger'[t]
      BY <1>0, <1>2, <1>5, <1>10, <2>2
    <3>2. PICK s \in Posted(ledger) : ledger[s].type = "ROLLBACK" /\ ledger[s].ref = t
      BY <1>10, <3>1 DEF LedgerInv, ReversedOnce
    <3> QED BY <1>0, <1>3, <3>2
  <2> QED BY <2>1, <2>2
<1> QED BY <1>0, <1>1, <1>6, <1>7, <1>8, <1>9, <1>10 DEF LedgerInv, ReversedOnce

\* A wallet write that sets the reservation to r >= 0, or leaves it alone.
LEMMA ReservedStaysNat ==
    ASSUME IInv, LedgerInv, NEW v \in Users, NEW w,
           wallet' = [wallet EXCEPT ![v] = w],
           w.reserved >= 0
    PROVE  \A u \in Users : wallet'[u].reserved >= 0
BY DEF LedgerInv, IInv, TypeOK

\* Every commit keeps the facts about reversals.
LEMMA CommitLedgerInv ==
    ASSUME IInv, LedgerInv, NEW p \in Requests, Commit(p)
    PROVE  LedgerInv'
<1> DEFINE u == req[p].user
           a == req[p].amount
<1>1. CASE CommitDeposit(p)
  <2>1. /\ Committed(p) /\ u \in Users
        /\ ledger'[p] = MoveRow(u, "DEPOSIT", a, wallet[u].balance, req[p].ref,
                                DepositKey(req[p].ref))
        /\ ~KeyTaken(ledger, DepositKey(req[p].ref))
        /\ \A t \in Posted(ledger) : ledger'[t] = MarkRolledBack(ledger, {})[t]
        /\ wallet' = [wallet EXCEPT ![u] = SetBalance(@, @.balance + a)]
    BY <1>1, DepositCommitted
  <2>2. SetBalance(wallet[u], wallet[u].balance + a).reserved >= 0
    BY <2>1 DEF SetBalance, LedgerInv
  <2>3. \A v \in Users : wallet'[v].reserved >= 0
    BY <2>1, <2>2, ReservedStaysNat DEF IInv, TypeOK
  <2> QED BY <2>1, <2>3, PlainCommitLedgerInv DEF MoveRow
<1>2. CASE CommitWithdraw(p)
  <2>1. /\ Committed(p) /\ u \in Users
        /\ ledger'[p] = MoveRow(u, "WITHDRAWAL", -a, wallet[u].balance, NoRef, RandomKey(p))
        /\ ~KeyTaken(ledger, RandomKey(p))
        /\ \A t \in Posted(ledger) : ledger'[t] = MarkRolledBack(ledger, {})[t]
        /\ wallet' = [wallet EXCEPT ![u] = SetBalance(@, @.balance + (-a))]
    BY <1>2, WithdrawCommitted
  <2>2. SetBalance(wallet[u], wallet[u].balance + (-a)).reserved >= 0
    BY <2>1 DEF SetBalance, LedgerInv
  <2>3. \A v \in Users : wallet'[v].reserved >= 0
    BY <2>1, <2>2, ReservedStaysNat DEF IInv, TypeOK
  <2> QED BY <2>1, <2>3, PlainCommitLedgerInv DEF MoveRow
<1>3. CASE CommitReserve(p)
  <2>1. /\ Committed(p) /\ u \in Users /\ a \in Amounts
        /\ ledger'[p] = ReserveRow(u, a, wallet[u].balance, PreCheck)
        /\ ~KeyTaken(ledger, ReserveKey(PreCheck))
        /\ \A t \in Posted(ledger) : ledger'[t] = MarkRolledBack(ledger, {})[t]
        /\ wallet' = [wallet EXCEPT ![u] = SetReserved(@, @.reserved + a)]
    BY <1>3, ReserveCommitted
  <2>2. SetReserved(wallet[u], wallet[u].reserved + a).reserved >= 0
    <3>1. a \in Nat
      BY <2>1, AmountsAssumption
    <3>2. wallet[u].reserved \in Int /\ wallet[u].reserved >= 0
      BY <2>1 DEF LedgerInv, IInv, TypeOK, Wallet
    <3> HIDE DEF a, u
    <3> QED BY <3>1, <3>2 DEF SetReserved
  <2>3. \A v \in Users : wallet'[v].reserved >= 0
    BY <2>1, <2>2, ReservedStaysNat DEF IInv, TypeOK
  <2> QED BY <2>1, <2>3, PlainCommitLedgerInv DEF ReserveRow
<1>4. CASE CommitRelease(p)
  <2> DEFINE R == seen[p].rows
  <2>1. /\ Committed(p) /\ u \in Users /\ a \in Amounts
        /\ R \in SUBSET Reservations(ledger, PreCheck)
        /\ Posted(ledger') = Posted(ledger)
        /\ ledger' = MarkRolledBack(ledger, R)
        /\ wallet' = [wallet EXCEPT ![u] = SetReserved(@, ClampedSub(@.reserved, a))]
    BY <1>4, ReleaseCommitted
  <2>2. SetReserved(wallet[u], ClampedSub(wallet[u].reserved, a)).reserved >= 0
    <3>1. a \in Nat
      BY <2>1, AmountsAssumption
    <3>2. wallet[u].reserved \in Int /\ wallet[u].reserved >= 0
      BY <2>1 DEF LedgerInv, IInv, TypeOK, Wallet
    <3> HIDE DEF a, u
    <3> QED BY <3>1, <3>2 DEF SetReserved, ClampedSub
  <2>3. \A v \in Users : wallet'[v].reserved >= 0
    BY <2>1, <2>2, ReservedStaysNat DEF IInv, TypeOK
  <2>4. p \notin Posted(ledger')
    BY <2>1, PostedRow DEF IInv, TypeOK, CallsOK, Committed
  <2> HIDE DEF R
  <2> QED BY <2>1, <2>3, <2>4, PlainCommitLedgerInv
<1>5. CASE CommitRollback(p)
  BY <1>5, RollbackLedgerInv
<1> QED BY <1>1, <1>2, <1>3, <1>4, <1>5 DEF Commit

\* A step that is not a commit leaves both tables alone.
LEMMA NoCommitTables ==
    ASSUME [Next]_vars
    PROVE  \/ UNCHANGED <<wallet, ledger>>
           \/ \E p \in Requests : Commit(p)
BY DEF Next, vars, Arrive, Advance, Call, Deposit, Withdraw, ReserveFunds,
       ReleaseReservation, Rollback, CheckKey, CheckBalance, Begin, Refuse, KeyClash,
       Conflict, Abort

\* The facts about reversals are an invariant, together with IInv.
LEMMA LedgerInvariance == Spec => []LedgerInv
<1>1. IInv /\ LedgerInv /\ [Next]_vars => LedgerInv'
  <2> SUFFICES ASSUME IInv, LedgerInv, [Next]_vars PROVE LedgerInv'
    OBVIOUS
  <2>1. CASE UNCHANGED <<wallet, ledger>>
    BY <2>1 DEF LedgerInv, ReversedOnce, Posted
  <2>2. ASSUME NEW p \in Requests, Commit(p) PROVE LedgerInv'
    BY <2>2, CommitLedgerInv
  <2> QED BY <2>1, <2>2, NoCommitTables
<1> QED BY <1>1, InitLedgerInv, Invariance, PTL DEF Spec

\* A row is reversed at most once, and exactly the reversed rows that moved the
\* balance are marked ROLLED_BACK, however many rollbacks race.
THEOREM SingleReversal == Spec => []ReversedOnce
<1>1. LedgerInv => ReversedOnce
  BY DEF LedgerInv
<1> QED BY <1>1, LedgerInvariance, PTL

-------------------------------------------------------------------------------
\* The ledger explains the balances.

\* Only finitely many calls have committed, so their rows can be summed up.
Explained == IsFiniteSet(Posted(ledger)) /\ BalanceIsLedger

\* An empty ledger moved nothing.
LEMMA InitExplained == Init => Explained
<1> SUFFICES ASSUME Init PROVE Explained
  OBVIOUS
<1>1. Posted(ledger) = {}
  BY DEF Init, EmptyLedger, Posted, NoRow
<1>2. \A u \in Users : Moved(ledger, u) = 0
  <2> TAKE u \in Users
  <2>1. {t \in Posted(ledger) : ledger[t].user = u /\ ledger[t].type # "BET_PLACEMENT"} = {}
    BY <1>1
  <2> QED BY <2>1, TotalEmpty DEF Moved
<1>3. \A u \in Users : wallet[u].balance = Opening[u] /\ Opening[u] \in Nat
  BY OpeningAssumption DEF Init, OpeningWallet
<1> QED BY <1>1, <1>2, <1>3, FS_EmptySet DEF Explained, BalanceIsLedger

\* A commit that inserts a row that moves the balance by d, and moves it by d.
LEMMA MoveExplained ==
    ASSUME IInv, Explained, NEW p \in Requests, p \notin Posted(ledger),
           NEW R \in SUBSET Posted(ledger), NEW u \in Users, NEW ty \in Types,
           ty # "BET_PLACEMENT", NEW d \in Int, NEW r \in Refs, NEW k \in Keys,
           ledger' = [MarkRolledBack(ledger, R) EXCEPT ![p] =
                         MoveRow(u, ty, d, wallet[u].balance, r, k)],
           wallet' = [wallet EXCEPT ![u] = SetBalance(@, @.balance + d)]
    PROVE  Explained'
<1> DEFINE row == MoveRow(u, ty, d, wallet[u].balance, r, k)
<1>1. \A v \in Users : wallet[v] \in Wallet /\ wallet[v].balance \in Int
  BY DEF IInv, TypeOK, Wallet
<1>2. row \in Row
  BY <1>1, MoveRowType
<1>3. row.user = u /\ row.type # "BET_PLACEMENT" /\ row.amount = d
  BY DEF MoveRow
<1>4. ledger \in Ledgers /\ IsFiniteSet(Posted(ledger))
  BY DEF IInv, TypeOK, Explained
<1>5. ledger' = [MarkRolledBack(ledger, R) EXCEPT ![p] = row]
  OBVIOUS
<1> HIDE DEF row
<1>6. /\ IsFiniteSet(Posted(ledger'))
      /\ \A v : Moved(ledger', v) = Moved(ledger, v) + (IF u = v THEN d ELSE 0)
  <2> DEFINE new == [MarkRolledBack(ledger, R) EXCEPT ![p] = row]
  <2>1. /\ IsFiniteSet(Posted(new))
        /\ \A v : Moved(new, v) =
                      Moved(ledger, v) + (IF row.user = v /\ row.type # "BET_PLACEMENT"
                                          THEN row.amount ELSE 0)
    BY <1>2, <1>4, MovedInserted
  <2>2. ledger' = new
    BY <1>5
  <2> HIDE DEF new
  <2> QED BY <1>3, <2>1, <2>2
<1>7. ASSUME NEW v \in Users
      PROVE  wallet'[v].balance = Opening[v] + Moved(ledger', v)
  <2>0. Moved(ledger', v) = Moved(ledger, v) + (IF u = v THEN d ELSE 0)
    BY <1>6
  <2>1. /\ wallet[v].balance = Opening[v] + Moved(ledger, v)
        /\ Opening[v] \in Int /\ Moved(ledger, v) \in Int
    BY <1>4, MovedType, OpeningAssumption DEF Explained, BalanceIsLedger
  <2>2. wallet'[v].balance = wallet[v].balance + (IF u = v THEN d ELSE 0)
    BY <1>1 DEF IInv, TypeOK, SetBalance
  <2> QED BY <2>0, <2>1, <2>2
<1> QED BY <1>6, <1>7 DEF Explained, BalanceIsLedger

\* A commit that touches only what is reserved: it inserts the row of a
\* reservation, or it marks rows.
LEMMA HoldExplained ==
    ASSUME IInv, Explained, NEW u \in Users, NEW n,
           wallet' = [wallet EXCEPT ![u] = SetReserved(@, n)],
           IsFiniteSet(Posted(ledger')),
           \A v \in Users : Moved(ledger', v) = Moved(ledger, v)
    PROVE  Explained'
<1>1. \A v \in Users : wallet'[v].balance = wallet[v].balance
  BY DEF IInv, TypeOK, SetReserved
<1> QED BY <1>1 DEF Explained, BalanceIsLedger

\* Every commit adds to a balance what it adds to the ledger.
LEMMA CommitExplained ==
    ASSUME IInv, Explained, NEW p \in Requests, Commit(p)
    PROVE  Explained'
<1> DEFINE u == req[p].user
           a == req[p].amount
<1>1. p \notin Posted(ledger) /\ ledger \in Ledgers /\ IsFiniteSet(Posted(ledger))
  <2>1. pc[p] = "open"
    BY DEF Commit, CommitDeposit, CommitWithdraw, CommitReserve, CommitRelease,
           CommitRollback, Committing
  <2> QED BY <2>1, PostedRow DEF IInv, TypeOK, CallsOK, Ended, Explained
<1>2. {} \in SUBSET Posted(ledger)
  OBVIOUS
<1>3. CASE CommitDeposit(p)
  <2>1. /\ u \in Users /\ a \in Amounts /\ req[p].ref \in DepositRefs
        /\ ledger' = [MarkRolledBack(ledger, {}) EXCEPT ![p] =
              MoveRow(u, "DEPOSIT", a, wallet[u].balance, req[p].ref, DepositKey(req[p].ref))]
        /\ wallet' = [wallet EXCEPT ![u] = SetBalance(@, @.balance + a)]
    BY <1>3, DepositCommitted
  <2>2. /\ a \in Int /\ req[p].ref \in Refs /\ DepositKey(req[p].ref) \in Keys
        /\ "DEPOSIT" \in Types
    BY <2>1, AmountsAssumption DEF Refs, Keys, DepositKey, Types
  <2> HIDE DEF u, a
  <2> QED BY <1>1, <1>2, <2>1, <2>2, MoveExplained
<1>4. CASE CommitWithdraw(p)
  <2>1. /\ u \in Users /\ a \in Amounts
        /\ ledger' = [MarkRolledBack(ledger, {}) EXCEPT ![p] =
              MoveRow(u, "WITHDRAWAL", -a, wallet[u].balance, NoRef, RandomKey(p))]
        /\ wallet' = [wallet EXCEPT ![u] = SetBalance(@, @.balance + (-a))]
    BY <1>4, WithdrawCommitted
  <2>2. NoRef \in Refs /\ RandomKey(p) \in Keys /\ "WITHDRAWAL" \in Types
    BY DEF Refs, Keys, RandomKey, Types
  <2>3. -a \in Int
    <3>1. a \in Nat
      BY <2>1, AmountsAssumption
    <3> HIDE DEF a
    <3> QED BY <3>1
  <2> HIDE DEF u, a
  <2> QED BY <1>1, <1>2, <2>1, <2>2, <2>3, MoveExplained
<1>5. CASE CommitReserve(p)
  <2>1. /\ u \in Users /\ a \in Amounts
        /\ ledger' = [MarkRolledBack(ledger, {}) EXCEPT ![p] =
              ReserveRow(u, a, wallet[u].balance, PreCheck)]
        /\ wallet' = [wallet EXCEPT ![u] = SetReserved(@, @.reserved + a)]
    BY <1>5, ReserveCommitted
  <2>2. a \in Int /\ wallet[u].balance \in Int
    <3> HIDE DEF a, u
    <3>1. a \in Int
      BY <2>1, AmountsAssumption
    <3>2. wallet[u].balance \in Int
      BY <2>1 DEF IInv, TypeOK, Wallet
    <3> QED BY <3>1, <3>2
  <2> DEFINE row == ReserveRow(u, a, wallet[u].balance, PreCheck)
  <2>3. row \in Row /\ row.type = "BET_PLACEMENT"
    BY <2>1, <2>2, ReserveRowType DEF ReserveRow
  <2>4. ledger' = [MarkRolledBack(ledger, {}) EXCEPT ![p] = row]
    BY <2>1
  <2>5. \A v \in Users : Moved(ledger, v) \in Int
    BY <1>1, MovedType
  <2> HIDE DEF row
  <2>6. /\ IsFiniteSet(Posted(ledger'))
        /\ \A v : Moved(ledger', v) = Moved(ledger, v) + 0
    <3> DEFINE new == [MarkRolledBack(ledger, {}) EXCEPT ![p] = row]
    <3>1. /\ IsFiniteSet(Posted(new))
          /\ \A v : Moved(new, v) =
                        Moved(ledger, v) + (IF row.user = v /\ row.type # "BET_PLACEMENT"
                                            THEN row.amount ELSE 0)
      BY <1>1, <1>2, <2>3, MovedInserted
    <3>2. ledger' = new
      BY <2>4
    <3> HIDE DEF new
    <3> QED BY <2>3, <3>1, <3>2
  <2>7. \A v \in Users : Moved(ledger', v) = Moved(ledger, v)
    BY <2>5, <2>6
  <2>8. PICK n : wallet' = [wallet EXCEPT ![u] = SetReserved(@, n)]
    BY <2>1
  <2> HIDE DEF u
  <2> QED BY <2>1, <2>6, <2>7, <2>8, HoldExplained
<1>6. CASE CommitRelease(p)
  <2>1. PICK R, n :
           /\ R \in SUBSET Posted(ledger) /\ u \in Users
           /\ ledger' = MarkRolledBack(ledger, R)
           /\ wallet' = [wallet EXCEPT ![u] = SetReserved(@, n)]
    BY <1>6, ReleaseCommitted
  <2>2. IsFiniteSet(Posted(ledger')) /\ \A v \in Users : Moved(ledger', v) = Moved(ledger, v)
    BY <1>1, <2>1, MarkedLedger, MovedMark
  <2> HIDE DEF u
  <2> QED BY <2>1, <2>2, HoldExplained
<1>7. CASE CommitRollback(p)
  <2> DEFINE t == req[p].ref
             v == ledger[t].user
             d == -ledger[t].amount
  <2>1. /\ t \in Posted(ledger) /\ v \in Users
        /\ ledger' = [MarkRolledBack(ledger, {t}) EXCEPT ![p] =
              MoveRow(v, "ROLLBACK", d, wallet[v].balance, t, RollbackKey(t))]
        /\ wallet' = [wallet EXCEPT ![v] = SetBalance(@, @.balance + d)]
    BY <1>7, RollbackCommitted
  <2>2. {t} \in SUBSET Posted(ledger) /\ t \in Requests
    BY <2>1 DEF Posted
  <2>3. d \in Int
    BY <1>1, <2>1, <2>2, PostedRow DEF Row
  <2>4. t \in Refs /\ RollbackKey(t) \in Keys /\ "ROLLBACK" \in Types
    BY <2>2 DEF Refs, Keys, RollbackKey, Types
  <2> HIDE DEF t, v, d
  <2> QED BY <1>1, <2>1, <2>2, <2>3, <2>4, MoveExplained
<1> QED BY <1>3, <1>4, <1>5, <1>6, <1>7 DEF Commit

\* The ledger explains the balance of every wallet, whatever the interleaving,
\* the retries and the failures: no committed write was lost or applied twice.
THEOREM LedgerExplains == Spec => []BalanceIsLedger
<1>1. IInv /\ Explained /\ [Next]_vars => Explained'
  <2> SUFFICES ASSUME IInv, Explained, [Next]_vars PROVE Explained'
    OBVIOUS
  <2>1. CASE UNCHANGED <<wallet, ledger>>
    BY <2>1 DEF Explained, BalanceIsLedger, Moved, Posted
  <2>2. ASSUME NEW p \in Requests, Commit(p) PROVE Explained'
    BY <2>2, CommitExplained
  <2> QED BY <2>1, <2>2, NoCommitTables
<1>2. Explained => BalanceIsLedger
  BY DEF Explained
<1> QED BY <1>1, <1>2, InitExplained, Invariance, PTL DEF Spec

-------------------------------------------------------------------------------
\* No overdraft.

\* One step never takes what is available below zero, rollbacks excepted.
LEMMA OverdraftStep ==
    ASSUME IInv, LedgerInv, [Next]_vars, NEW v \in Users
    PROVE  \/ Available(wallet'[v]) >= Available(wallet[v])
           \/ Available(wallet'[v]) >= 0
           \/ \E t \in Posted(ledger') \ Posted(ledger) :
                 ledger'[t].type = "ROLLBACK" /\ ledger'[t].user = v
<1>0. wallet[v] \in Wallet
  BY DEF IInv, TypeOK
<1>1. CASE UNCHANGED <<wallet, ledger>>
  BY <1>0, <1>1 DEF Available, Wallet
<1>2. ASSUME NEW p \in Requests, Commit(p), v # req[p].user
      PROVE  wallet'[v] = wallet[v]
  BY <1>2 DEF Commit, CommitDeposit, CommitWithdraw, CommitReserve, CommitRelease,
              CommitRollback, WriteBalance, WriteReserved, IInv, TypeOK
<1>3. ASSUME NEW p \in Requests, Commit(p), v = req[p].user
      PROVE  \/ Available(wallet'[v]) >= Available(wallet[v])
             \/ Available(wallet'[v]) >= 0
             \/ \E t \in Posted(ledger') \ Posted(ledger) :
                   ledger'[t].type = "ROLLBACK" /\ ledger'[t].user = v
  <2> DEFINE a == req[p].amount
  <2>1. CASE CommitDeposit(p)
    <3>1. /\ a \in Nat
          /\ wallet'[v] = SetBalance(wallet[v], wallet[v].balance + a)
      BY <1>3, <2>1, DepositCommitted, AmountsAssumption DEF IInv, TypeOK
    <3> QED BY <1>0, <3>1 DEF SetBalance, Available, Wallet
  <2>2. CASE CommitWithdraw(p)
    <3>1. /\ a \in Nat /\ a <= Available(wallet[v])
          /\ wallet'[v] = SetBalance(wallet[v], wallet[v].balance + (-a))
      BY <1>3, <2>2, WithdrawCommitted, AmountsAssumption DEF IInv, TypeOK
    <3> QED BY <1>0, <3>1 DEF SetBalance, Available, Wallet
  <2>3. CASE CommitReserve(p)
    <3>1. /\ a \in Nat /\ a <= Available(wallet[v])
          /\ wallet'[v] = SetReserved(wallet[v], wallet[v].reserved + a)
      BY <1>3, <2>3, ReserveCommitted, AmountsAssumption DEF IInv, TypeOK
    <3> QED BY <1>0, <3>1 DEF SetReserved, Available, Wallet
  <2>4. CASE CommitRelease(p)
    <3>1. /\ a \in Nat
          /\ wallet'[v] = SetReserved(wallet[v], ClampedSub(wallet[v].reserved, a))
      BY <1>3, <2>4, ReleaseCommitted, AmountsAssumption DEF IInv, TypeOK
    <3>2. wallet[v].reserved >= 0
      BY DEF LedgerInv
    <3> QED BY <1>0, <3>1, <3>2 DEF SetReserved, ClampedSub, Available, Wallet
  <2>5. CASE CommitRollback(p)
    <3> DEFINE t == req[p].ref
               d == -ledger[t].amount
    <3>0. /\ Committed(p) /\ Posted(ledger') = Posted(ledger) \cup {p}
          /\ ledger[t].user = v
          /\ ledger'[p] = MoveRow(ledger[t].user, "ROLLBACK", d,
                                  wallet[ledger[t].user].balance, t, RollbackKey(t))
      BY <1>3, <2>5, RollbackCommitted
    <3>1. p \in Posted(ledger') \ Posted(ledger)
      BY <3>0, PostedRow DEF IInv, TypeOK, CallsOK, Committed
    <3> HIDE DEF t, d
    <3>2. ledger'[p].type = "ROLLBACK" /\ ledger'[p].user = v
      BY <3>0 DEF MoveRow
    <3> QED BY <3>1, <3>2
  <2> QED BY <1>3, <2>1, <2>2, <2>3, <2>4, <2>5 DEF Commit
<1> QED BY <1>0, <1>1, <1>2, <1>3, NoCommitTables DEF Available, Wallet

\* Concurrent withdrawals and reservations never take more than there is; only
\* the reversal of a row may leave less than zero available.
THEOREM Overdraft == Spec => NoOverdraft
<1>1. IInv /\ LedgerInv /\ [Next]_vars =>
        [\A u \in Users :
            \/ Available(wallet'[u]) >= Available(wallet[u])
            \/ Available(wallet'[u]) >= 0
            \/ \E t \in Posted(ledger') \ Posted(ledger) :
                  ledger'[t].type = "ROLLBACK" /\ ledger'[t].user = u]_vars
  BY OverdraftStep
<1> QED BY <1>1, Invariance, LedgerInvariance, PTL DEF Spec, NoOverdraft

-------------------------------------------------------------------------------
\* WalletTx implements AtomicWallet.

\* Atomic is AtomicWallet over the same tables; it has its own copies of the
\* operators of Ledger, with the same definitions.
LEMMA SameOperators ==
    /\ \A l : Atomic!Posted(l) = Posted(l)
    /\ \A l, k : Atomic!KeyTaken(l, k) <=> KeyTaken(l, k)
    /\ \A l, R : Atomic!MarkRolledBack(l, R) = MarkRolledBack(l, R)
    /\ \A l, r : Atomic!Reservations(l, r) = Reservations(l, r)
    /\ \A u, y, a, b, r, k : Atomic!MoveRow(u, y, a, b, r, k) = MoveRow(u, y, a, b, r, k)
    /\ \A u, a, b, r : Atomic!ReserveRow(u, a, b, r) = ReserveRow(u, a, b, r)
    /\ \A w, b : Atomic!SetBalance(w, b) = SetBalance(w, b)
    /\ \A w, b : Atomic!SetReserved(w, b) = SetReserved(w, b)
    /\ \A r, a : Atomic!ClampedSub(r, a) = ClampedSub(r, a)
    /\ \A w : Atomic!Available(w) = Available(w)
    /\ \A t : Atomic!RollbackKey(t) = RollbackKey(t) /\ Atomic!DepositKey(t) = DepositKey(t)
              /\ Atomic!RandomKey(t) = RandomKey(t) /\ Atomic!ReserveKey(t) = ReserveKey(t)
    /\ Atomic!PreCheck = PreCheck /\ Atomic!NoRef = NoRef
BY DEF Atomic!Posted, Atomic!KeyTaken, Atomic!MarkRolledBack, Atomic!Reservations,
       Atomic!MoveRow, Atomic!ReserveRow, Atomic!SetBalance, Atomic!SetReserved,
       Atomic!ClampedSub, Atomic!Available, Atomic!RollbackKey, Atomic!DepositKey,
       Atomic!RandomKey, Atomic!ReserveKey, Atomic!PreCheck, Atomic!NoRef,
       Posted, KeyTaken, MarkRolledBack, Reservations, MoveRow, ReserveRow, SetBalance,
       SetReserved, ClampedSub, Available, RollbackKey, DepositKey, RandomKey, ReserveKey,
       PreCheck, NoRef

\* The commit of a balance move is the atomic move.
LEMMA MoveImplements ==
    ASSUME NEW p \in Requests, NEW l, NEW u \in Users, NEW ty, NEW d, NEW r, NEW k,
           p \notin Posted(ledger), ~KeyTaken(ledger, k),
           wallet' = [wallet EXCEPT ![u] = SetBalance(@, @.balance + d)],
           ledger' = [l EXCEPT ![p] = ledger'[p]],
           ledger'[p] = MoveRow(u, ty, d, wallet[u].balance, r, k)
    PROVE  Atomic!Move(p, l, u, ty, d, r, k)
<1> DEFINE row == MoveRow(u, ty, d, wallet[u].balance, r, k)
<1>1. row.key = k
  BY DEF MoveRow
<1>2. ledger' = [l EXCEPT ![p] = row]
  OBVIOUS
<1>3. Atomic!MoveRow(u, ty, d, wallet[u].balance, r, k) = row
  BY SameOperators
<1> HIDE DEF row
<1>4. Atomic!Insert(p, l, row)
  BY <1>1, <1>2, SameOperators DEF Atomic!Insert
<1>5. wallet' = [wallet EXCEPT ![u] = Atomic!SetBalance(@, @.balance + d)]
  BY SameOperators
<1> QED BY <1>3, <1>4, <1>5 DEF Atomic!Move

\* Every commit is one step of AtomicWallet.
LEMMA CommitImplements ==
    ASSUME IInv, NEW p \in Requests, Commit(p)
    PROVE  Atomic!ANext
<1> DEFINE u == req[p].user
           a == req[p].amount
<1>0. p \notin Posted(ledger) /\ ledger \in Ledgers
  <2>1. Committed(p)
    BY DepositCommitted, WithdrawCommitted, ReserveCommitted, ReleaseCommitted,
       RollbackCommitted DEF Commit
  <2> QED BY <2>1, PostedRow DEF Committed, IInv, TypeOK, CallsOK
<1>1. CASE CommitDeposit(p)
  <2> DEFINE r == req[p].ref
  <2>1. /\ a \in Amounts \ {0} /\ r \in DepositRefs /\ u \in Users
        /\ ~KeyTaken(ledger, DepositKey(r))
        /\ ledger'[p] = MoveRow(u, "DEPOSIT", a, wallet[u].balance, r, DepositKey(r))
        /\ ledger' = [MarkRolledBack(ledger, {}) EXCEPT ![p] = ledger'[p]]
        /\ wallet' = [wallet EXCEPT ![u] = SetBalance(@, @.balance + a)]
    BY <1>1, DepositCommitted
  <2>2. ledger' = [ledger EXCEPT ![p] = ledger'[p]]
    BY <1>0, <2>1, MarkNone
  <2> HIDE DEF a, u, r
  <2>3. Atomic!Move(p, ledger, u, "DEPOSIT", a, r, DepositKey(r))
    BY <1>0, <2>1, <2>2, MoveImplements
  <2>4. Atomic!Credit(p, u, a, r)
    BY <2>1, <2>3, AmountsAssumption, SameOperators DEF Atomic!Credit
  <2> QED BY <2>1, <2>4 DEF Atomic!ANext
<1>2. CASE CommitWithdraw(p)
  <2>1. /\ a \in Amounts \ {0} /\ u \in Users
        /\ a <= Available(wallet[u])
        /\ ~KeyTaken(ledger, RandomKey(p))
        /\ ledger'[p] = MoveRow(u, "WITHDRAWAL", -a, wallet[u].balance, NoRef, RandomKey(p))
        /\ ledger' = [MarkRolledBack(ledger, {}) EXCEPT ![p] = ledger'[p]]
        /\ wallet' = [wallet EXCEPT ![u] = SetBalance(@, @.balance + (-a))]
    BY <1>2, WithdrawCommitted
  <2>2. ledger' = [ledger EXCEPT ![p] = ledger'[p]]
    BY <1>0, <2>1, MarkNone
  <2> HIDE DEF a, u
  <2>3. Atomic!Move(p, ledger, u, "WITHDRAWAL", -a, NoRef, RandomKey(p))
    BY <1>0, <2>1, <2>2, MoveImplements
  <2>4. Atomic!Debit(p, u, a)
    BY <2>1, <2>3, AmountsAssumption, SameOperators DEF Atomic!Debit
  <2> QED BY <2>1, <2>4 DEF Atomic!ANext
<1>3. CASE CommitReserve(p)
  <2>1. /\ a \in Amounts \ {0} /\ u \in Users
        /\ a <= Available(wallet[u])
        /\ ~KeyTaken(ledger, ReserveKey(PreCheck))
        /\ ledger'[p] = ReserveRow(u, a, wallet[u].balance, PreCheck)
        /\ ledger' = [MarkRolledBack(ledger, {}) EXCEPT ![p] = ledger'[p]]
        /\ wallet' = [wallet EXCEPT ![u] = SetReserved(@, @.reserved + a)]
    BY <1>3, ReserveCommitted
  <2>2. ledger' = [ledger EXCEPT ![p] = ledger'[p]]
    BY <1>0, <2>1, MarkNone
  <2>3. ledger'[p].key = ReserveKey(PreCheck)
    BY <2>1 DEF ReserveRow
  <2> HIDE DEF a, u
  <2>4. wallet' = [wallet EXCEPT ![u] = Atomic!SetReserved(@, @.reserved + a)]
    BY <2>1, SameOperators
  <2>5. Atomic!Insert(p, ledger, Atomic!ReserveRow(u, a, wallet[u].balance, Atomic!PreCheck))
    BY <1>0, <2>1, <2>2, <2>3, SameOperators DEF Atomic!Insert
  <2>6. a > 0 /\ a <= Atomic!Available(wallet[u])
    BY <2>1, AmountsAssumption, SameOperators
  <2>7. Atomic!Reserve(p, u, a)
    BY <2>4, <2>5, <2>6 DEF Atomic!Reserve
  <2> QED BY <2>1, <2>7 DEF Atomic!ANext
<1>4. CASE CommitRelease(p)
  <2> DEFINE R == seen[p].rows
  <2>1. /\ a \in Amounts \ {0} /\ u \in Users
        /\ R \in SUBSET Reservations(ledger, PreCheck)
        /\ \A t \in Reservations(ledger, PreCheck) : ledger[t].user = u => t \in R
        /\ ledger' = MarkRolledBack(ledger, R)
        /\ wallet' = [wallet EXCEPT ![u] = SetReserved(@, ClampedSub(@.reserved, a))]
    BY <1>4, ReleaseCommitted
  <2> HIDE DEF a, u, R
  <2>2. wallet' = [wallet EXCEPT ![u] = Atomic!SetReserved(@, Atomic!ClampedSub(@.reserved, a))]
    BY <2>1, SameOperators
  <2>3. a > 0
    BY <2>1, AmountsAssumption
  <2>4. /\ Atomic!Reservations(ledger, Atomic!PreCheck) = Reservations(ledger, PreCheck)
        /\ Atomic!MarkRolledBack(ledger, R) = MarkRolledBack(ledger, R)
    BY SameOperators
  <2>5. /\ R \in SUBSET Atomic!Reservations(ledger, Atomic!PreCheck)
        /\ {t \in Atomic!Reservations(ledger, Atomic!PreCheck) : ledger[t].user = u} \subseteq R
        /\ ledger' = Atomic!MarkRolledBack(ledger, R)
    BY <2>1, <2>4
  <2>6. Atomic!Release(u, a)
    BY <2>2, <2>3, <2>5 DEF Atomic!Release
  <2> QED BY <2>1, <2>6 DEF Atomic!ANext
<1>5. CASE CommitRollback(p)
  <2> DEFINE t == req[p].ref
             v == ledger[t].user
             d == -ledger[t].amount
  <2>1. /\ t \in Posted(ledger) /\ ledger[t].status # "ROLLED_BACK" /\ v \in Users
        /\ ~KeyTaken(ledger, RollbackKey(t))
        /\ ledger'[p] = MoveRow(v, "ROLLBACK", d, wallet[v].balance, t, RollbackKey(t))
        /\ ledger' = [MarkRolledBack(ledger, {t}) EXCEPT ![p] = ledger'[p]]
        /\ wallet' = [wallet EXCEPT ![v] = SetBalance(@, @.balance + d)]
    BY <1>5, RollbackCommitted
  <2>2. t \in Requests
    BY <2>1 DEF Posted
  <2> HIDE DEF t, v, d
  <2>3. Atomic!Move(p, MarkRolledBack(ledger, {t}), v, "ROLLBACK", d, t, RollbackKey(t))
    BY <1>0, <2>1, MoveImplements
  <2>4. Atomic!Reverse(p, t)
    BY <2>1, <2>3, SameOperators DEF Atomic!Reverse, v, d
  <2> QED BY <2>2, <2>4 DEF Atomic!ANext
<1> QED BY <1>1, <1>2, <1>3, <1>4, <1>5 DEF Commit

\* Under Serializable isolation every call takes effect at one instant on the
\* current wallet, or not at all, whatever the retries and failures.
THEOREM Implementation == Spec => AtomicSpec
<1>1. Init => Atomic!AInit
  BY DEF Init, Atomic!AInit, OpeningWallet, Atomic!OpeningWallet, EmptyLedger,
         Atomic!EmptyLedger, NoRow, Atomic!NoRow
<1>2. IInv /\ [Next]_vars => [Atomic!ANext]_(Atomic!aVars)
  BY NoCommitTables, CommitImplements DEF Atomic!aVars
<1> QED BY <1>1, <1>2, Invariance, PTL DEF Spec, AtomicSpec, Atomic!ASpec
===============================================================================
