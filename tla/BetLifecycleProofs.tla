--------------------------- MODULE BetLifecycleProofs ---------------------------
(***************************************************************************)
(* Proofs about BetLifecycle for every set of requests, markets, amounts   *)
(* and odds: the inductive invariant, and from it that operations which    *)
(* close the bet one after the other exclude each other, that no part of   *)
(* the stake is sold twice or lost, that a settled bet agrees with the     *)
(* results settleBet could read, and that only a stale cashout moves the   *)
(* wallet away from its ledger.                                            *)
(***************************************************************************)
EXTENDS BetLifecycle, LedgerProofs

-------------------------------------------------------------------------------
\* What the operations do to the tables.

\* The ledger m has the rows of l with their types, and maybe one of request p.
Grows(l, m, p) ==
    /\ m \in Ledgers /\ IsFiniteSet(Posted(m))
    /\ Posted(l) \subseteq Posted(m) /\ Posted(m) \subseteq Posted(l) \cup {p}
    /\ \A t \in Posted(l) : m[t].type = l[t].type

\* The owner's wallet is written with a new version, or not at all.
Versioned ==
    /\ wallet' \in [Users -> Wallet]
    /\ wallet'[Owner] = wallet[Owner] \/ wallet'[Owner].version > wallet[Owner].version

\* What the wallet and the ledger disagree by, up to constants and the bet.
Gap(w, l) == w[Owner].balance - Moved(l, Owner)

\* What the tables hold.
LEMMA TableTypes ==
    ASSUME IInv
    PROVE  /\ Owner \in Users /\ TheBet \in Requests /\ Stake \in Nat /\ Stake > 0
           /\ ledger \in Ledgers /\ IsFiniteSet(Posted(ledger))
           /\ \A u \in Users : /\ wallet[u] \in Wallet /\ wallet[u].balance \in Int
                               /\ wallet[u].reserved \in Int /\ wallet[u].version \in Nat
           /\ wallet \in [Users -> Wallet]
           /\ bet.stake \in 0 .. Stake
           /\ \A p \in Requests : sold[p] \in Nat
           /\ partials \subseteq Requests /\ IsFiniteSet(partials)
<1>1. IsFiniteSet(partials)
  BY FS_Subset DEF IInv, StakeRead
<1> QED BY <1>1, BetAssumption DEF IInv, TypeOK, Wallet

\* The balance of u becomes b + d, and row p says so: what a cashout does with the
\* balance it read, and every other operation with the current one.
MoveFrom(p, l, u, ty, d, b, r, k) ==
    /\ wallet' = [wallet EXCEPT ![u] = SetBalance(@, b + d)]
    /\ Insert(p, l, MoveRow(u, ty, d, b, r, k))

\* The gap changes by as much as b is not the current balance.
LEMMA FromGap ==
    ASSUME IInv, NEW p \in Requests, NEW R \in SUBSET Posted(ledger), NEW u \in Users,
           NEW ty \in Types, ty # "BET_PLACEMENT", NEW d \in Int, NEW b \in Int,
           NEW r \in Refs, NEW k \in Keys,
           MoveFrom(p, MarkRolledBack(ledger, R), u, ty, d, b, r, k)
    PROVE  /\ Versioned /\ Grows(ledger, ledger', p)
           /\ p \notin Posted(ledger) /\ p \in Posted(ledger') /\ ledger'[p].type = ty
           /\ Gap(wallet', ledger') = Gap(wallet, ledger)
                                        + (IF u = Owner THEN b - wallet[u].balance ELSE 0)
<1> DEFINE row == MoveRow(u, ty, d, b, r, k)
           m == [MarkRolledBack(ledger, R) EXCEPT ![p] = row]
           w == SetBalance(wallet[u], b + d)
<1>1. /\ ledger \in Ledgers /\ IsFiniteSet(Posted(ledger)) /\ Owner \in Users
      /\ wallet[u] \in Wallet /\ wallet[u].version \in Nat /\ wallet[u].balance \in Int
      /\ wallet[Owner].balance \in Int /\ wallet \in [Users -> Wallet]
  BY TableTypes
<1>2. row \in Row /\ row.user = u /\ row.type = ty /\ row.amount = d
  <2>1. row \in Row
    BY <1>1, MoveRowType
  <2> QED BY <2>1 DEF MoveRow
<1>3. p \notin Posted(ledger)
  BY DEF MoveFrom, Insert
<1>4. ledger' = m /\ wallet' = [wallet EXCEPT ![u] = w]
  BY DEF MoveFrom, Insert
<1> HIDE DEF row
<1>5. /\ m \in Ledgers /\ Posted(m) = Posted(ledger) \cup {p} /\ m[p] = row
      /\ \A t \in Posted(ledger) : m[t].type = ledger[t].type
  <2>1. /\ m \in Ledgers /\ Posted(m) = Posted(ledger) \cup {p} /\ m[p] = row
        /\ \A t \in Posted(ledger) :
              /\ m[t].user = ledger[t].user /\ m[t].type = ledger[t].type
              /\ m[t].ref = ledger[t].ref /\ m[t].key = ledger[t].key
              /\ m[t].amount = ledger[t].amount
              /\ m[t].status \in {ledger[t].status, "ROLLED_BACK"}
    BY <1>1, <1>2, <1>3, MarkedInserted
  <2> HIDE DEF m
  <2> QED BY <2>1
<1>6. /\ IsFiniteSet(Posted(m))
      /\ Moved(m, Owner) = Moved(ledger, Owner) + (IF u = Owner THEN d ELSE 0)
  <2>1. IsFiniteSet(Posted(m))
    BY <1>1, <1>2, <1>3, MovedInserted
  <2>2. \A v \in Users : Moved(m, v) = Moved(ledger, v) + (IF u = v THEN d ELSE 0)
    BY <1>1, <1>2, <1>3, MovedInserted
  <2> HIDE DEF m
  <2> QED BY <1>1, <2>1, <2>2
<1> HIDE DEF m
<1>7. w \in Wallet /\ w.version = wallet[u].version + 1 /\ w.balance = b + d
  <2>1. b + d \in Int
    OBVIOUS
  <2> QED BY <1>1, <2>1, WalletType
<1> HIDE DEF w
<1>8. Versioned
  BY <1>1, <1>4, <1>7 DEF Versioned
<1>9. wallet'[Owner].balance = IF u = Owner THEN b + d ELSE wallet[Owner].balance
  BY <1>1, <1>4, <1>7
<1>10. Gap(wallet', m) = Gap(wallet, ledger)
                           + (IF u = Owner THEN b - wallet[u].balance ELSE 0)
  <2> DEFINE o == wallet[Owner].balance
             n == wallet'[Owner].balance
             x == Moved(ledger, Owner)
             y == Moved(m, Owner)
  <2>1. /\ o \in Int /\ x \in Int
        /\ n = IF u = Owner THEN b + d ELSE o
        /\ y = x + (IF u = Owner THEN d ELSE 0)
    BY <1>1, <1>6, <1>9, MovedType
  <2>2. u = Owner => wallet[u].balance = o
    OBVIOUS
  <2> HIDE DEF o, n, x, y
  <2>3. n - y = (o - x) + (IF u = Owner THEN b - wallet[u].balance ELSE 0)
    BY <2>1, <2>2
  <2> QED BY <2>3 DEF Gap, o, n, x, y
<1> QED BY <1>2, <1>3, <1>4, <1>5, <1>6, <1>8, <1>10 DEF Grows

\* An operation that moves the current balance and says so: the gap stays.
LEMMA MoveGap ==
    ASSUME IInv, NEW p \in Requests, NEW R \in SUBSET Posted(ledger), NEW u \in Users,
           NEW ty \in Types, ty # "BET_PLACEMENT", NEW d \in Int, NEW r \in Refs,
           NEW k \in Keys, Move(p, MarkRolledBack(ledger, R), u, ty, d, r, k)
    PROVE  /\ Versioned /\ Grows(ledger, ledger', p)
           /\ p \notin Posted(ledger) /\ p \in Posted(ledger') /\ ledger'[p].type = ty
           /\ Gap(wallet', ledger') = Gap(wallet, ledger)
<1>1. Gap(wallet, ledger) \in Int
  BY TableTypes, MovedType DEF Gap
<1>2. PICK b \in Int :
         /\ b = wallet[u].balance
         /\ MoveFrom(p, MarkRolledBack(ledger, R), u, ty, d, b, r, k)
  <2>1. wallet[u].balance \in Int
    BY TableTypes
  <2> QED BY <2>1 DEF Move, MoveFrom
<1>3. /\ Versioned /\ Grows(ledger, ledger', p)
      /\ p \notin Posted(ledger) /\ p \in Posted(ledger') /\ ledger'[p].type = ty
      /\ Gap(wallet', ledger') = Gap(wallet, ledger)
                                   + (IF u = Owner THEN b - wallet[u].balance ELSE 0)
  BY <1>2, FromGap
<1>4. (IF u = Owner THEN b - wallet[u].balance ELSE 0) = 0
  BY <1>2
<1> QED BY <1>1, <1>3, <1>4

\* The release of a reservation moves no balance.
LEMMA ReleaseGap ==
    ASSUME IInv, NEW p, Release(Owner, Stake)
    PROVE  /\ Versioned /\ Grows(ledger, ledger', p) /\ Posted(ledger') = Posted(ledger)
           /\ Gap(wallet', ledger') = Gap(wallet, ledger)
<1>1. PICK R \in SUBSET Reservations(ledger, PreCheck) : ledger' = MarkRolledBack(ledger, R)
  BY DEF Release
<1>2. R \in SUBSET Posted(ledger)
  BY <1>1 DEF Reservations
<1>3. /\ ledger \in Ledgers /\ IsFiniteSet(Posted(ledger)) /\ Owner \in Users
      /\ wallet[Owner] \in Wallet /\ wallet[Owner].reserved \in Int
      /\ wallet \in [Users -> Wallet] /\ Stake \in Nat
  BY TableTypes
<1>4. /\ ledger' \in Ledgers /\ Posted(ledger') = Posted(ledger)
      /\ \A t \in Posted(ledger) : ledger'[t].type = ledger[t].type
  BY <1>1, <1>2, <1>3, MarkedLedger, MarkedKeeps
<1>5. Moved(ledger', Owner) = Moved(ledger, Owner)
  BY <1>1, <1>2, <1>3, MovedMark
<1> DEFINE c == ClampedSub(wallet[Owner].reserved, Stake)
<1>6. c \in Int
  BY <1>3 DEF ClampedSub
<1>7. wallet' = [wallet EXCEPT ![Owner] = SetReserved(@, c)]
  BY DEF Release
<1> HIDE DEF c
<1>8. /\ SetReserved(wallet[Owner], c) \in Wallet
      /\ SetReserved(wallet[Owner], c).version = wallet[Owner].version + 1
      /\ SetReserved(wallet[Owner], c).balance = wallet[Owner].balance
  BY <1>3, <1>6, WalletType
<1>9. Versioned /\ wallet'[Owner].balance = wallet[Owner].balance
  BY <1>3, <1>7, <1>8 DEF Versioned, Wallet
<1> QED BY <1>3, <1>4, <1>5, <1>9 DEF Grows, Gap

\* Deposits, withdrawals and rollbacks are such moves.
LEMMA OtherMoves ==
    ASSUME IInv, NEW p \in Requests, OtherWallet(p)
    PROVE  /\ Versioned /\ Grows(ledger, ledger', p)
           /\ p \notin Posted(ledger) /\ p \in Posted(ledger')
           /\ ledger'[p].type \in {"DEPOSIT", "WITHDRAWAL", "ROLLBACK"}
           /\ Gap(wallet', ledger') = Gap(wallet, ledger)
<1>1. /\ ledger \in Ledgers /\ MarkRolledBack(ledger, {}) = ledger
      /\ {} \in SUBSET Posted(ledger) /\ Owner \in Users
  BY TableTypes, MarkNone
<1>2. ASSUME NEW a \in Amounts, Debit(p, Owner, a)
      PROVE  \E d \in Int, k \in Keys :
                Move(p, MarkRolledBack(ledger, {}), Owner, "WITHDRAWAL", d, NoRef, k)
  <2>1. -a \in Int /\ RandomKey(p) \in Keys
    BY AmountsAssumption DEF Keys, Refs, RandomKey
  <2> QED BY <1>1, <1>2, <2>1 DEF Debit
<1>3. ASSUME NEW a \in Amounts, NEW r \in DepositRefs, Credit(p, Owner, a, r)
      PROVE  \E d \in Int, k \in Keys :
                Move(p, MarkRolledBack(ledger, {}), Owner, "DEPOSIT", d, r, k)
  <2>1. a \in Int /\ DepositKey(r) \in Keys
    BY AmountsAssumption DEF Keys, Refs, DepositKey
  <2> QED BY <1>1, <1>3, <2>1 DEF Credit
<1>4. ASSUME NEW t \in Requests, Reverse(p, t)
      PROVE  \E u \in Users, d \in Int, k \in Keys :
                /\ {t} \in SUBSET Posted(ledger)
                /\ Move(p, MarkRolledBack(ledger, {t}), u, "ROLLBACK", d, t, k)
  <2>1. t \in Posted(ledger) /\ ledger[t] \in Row
    BY <1>1, <1>4, PostedRow DEF Reverse
  <2>2. -ledger[t].amount \in Int /\ ledger[t].user \in Users /\ RollbackKey(t) \in Keys
    BY <2>1 DEF Row, Keys, Refs, RollbackKey
  <2> QED BY <1>4, <2>1, <2>2 DEF Reverse
<1>5. /\ {"DEPOSIT", "WITHDRAWAL", "ROLLBACK"} \subseteq Types
      /\ NoRef \in Refs /\ DepositRefs \subseteq Refs /\ Requests \subseteq Refs
  BY DEF Types, Refs
<1>6. CASE \E a \in Amounts : Debit(p, Owner, a)
  BY <1>1, <1>2, <1>5, <1>6, MoveGap
<1>7. CASE \E a \in Amounts, r \in DepositRefs : Credit(p, Owner, a, r)
  BY <1>1, <1>3, <1>5, <1>7, MoveGap
<1>8. CASE \E t \in Requests : Reverse(p, t)
  BY <1>1, <1>4, <1>5, <1>8, MoveGap
<1> QED BY <1>6, <1>7, <1>8 DEF OtherWallet

-------------------------------------------------------------------------------
\* The inductive invariant: the initial states, and the steps that move no money.

\* The bet is not stored yet; its stake is reserved.
LEMMA InitIInv == Init => IInv
<1> SUFFICES ASSUME Init PROVE IInv
  OBVIOUS
<1> DEFINE row == ReserveRow(Owner, Stake, Opening[Owner], PreCheck)
           w == SetReserved(OpeningWallet(Owner), Stake)
<1>1. /\ Owner \in Users /\ TheBet \in Requests /\ Stake \in Nat \ {0}
      /\ \A u \in Users : Opening[u] \in Nat
  BY BetAssumption, OpeningAssumption
<1>2. row \in Row /\ row.type = "BET_PLACEMENT"
  <2>1. row \in Row
    BY <1>1, ReserveRowType
  <2> QED BY <2>1 DEF ReserveRow
<1>3. ledger = [EmptyLedger EXCEPT ![TheBet] = row]
  BY DEF Init
<1> HIDE DEF row
<1>4. EmptyLedger \in Ledgers /\ Posted(EmptyLedger) = {}
  BY DEF EmptyLedger, Ledgers, Posted, NoRow
<1>5. /\ ledger \in Ledgers /\ Posted(ledger) = {TheBet} /\ IsFiniteSet(Posted(ledger))
      /\ ledger[TheBet].type = "BET_PLACEMENT"
  <2>1. ledger \in Ledgers /\ Posted(ledger) = {} \cup {TheBet}
    BY <1>1, <1>2, <1>3, <1>4, InsertedLedger
  <2>2. ledger[TheBet] = row
    BY <1>1, <1>3, <1>4 DEF Ledgers
  <2> QED BY <1>2, <2>1, <2>2, FS_Singleton
<1>6. wallet \in [Users -> Wallet]
  <2>1. \A u \in Users : OpeningWallet(u) \in Wallet
    BY <1>1 DEF OpeningWallet, Wallet
  <2>2. w \in Wallet
    BY <1>1, <2>1 DEF SetReserved, OpeningWallet, Wallet
  <2>3. \A u \in Users : wallet[u] = IF u = Owner THEN w ELSE OpeningWallet(u)
    BY DEF Init
  <2>4. wallet = [u \in Users |-> IF u = Owner THEN w ELSE OpeningWallet(u)]
    BY DEF Init
  <2> HIDE DEF w
  <2> QED BY <2>1, <2>2, <2>4
<1> HIDE DEF w
<1>7. partials = {} /\ Closings = {}
  <2>1. partials = {}
    BY DEF Init
  <2>2. \A t \in Posted(ledger) : ledger[t].type = "BET_PLACEMENT"
    BY <1>5
  <2> QED BY <2>1, <2>2 DEF Closings
<1>8. TypeOK
  <2>1. bet \in [status : BetStatuses, stake : 0 .. Stake]
    BY <1>1 DEF Init, NoBet, BetStatuses
  <2>2. sold \in [Requests -> 0 .. Stake]
    BY <1>1 DEF Init
  <2>3. market \in [Markets -> [status : {"OPEN", "SUSPENDED", "SETTLED"},
                                suspended : BOOLEAN, won : {"null", "yes", "no"},
                                settled : 0 .. MaxSettles]]
    BY SweepersAssumption DEF Init
  <2>4. /\ started \in BOOLEAN /\ lock \in Requests \cup {Nobody}
        /\ met \subseteq SUBSET Requests /\ lapsed \subseteq Requests /\ swept \subseteq Sweepers
        /\ raced \subseteq Requests \X Markets /\ partials \subseteq Requests
        /\ legs \in [Requests -> [Markets -> {"null", "yes", "no"}]]
        /\ plan \in [Requests -> Plan \cup {NoPlan}] /\ seen \in [Requests -> Wallet \cup {NoWallet}]
    BY DEF Init, NoLegs
  <2>5. pc \in [Requests -> InFlight \cup Ended \cup {"idle"}]
    BY DEF Init, InFlight
  <2> QED BY <1>5, <1>6, <2>1, <2>2, <2>3, <2>4, <2>5 DEF TypeOK
<1>9. CreateOK /\ PlansOK /\ PartsOK /\ LockKept /\ SeenOK
  BY DEF Init, NoBet, CreateOK, PlansOK, PartsOK, LockKept, SeenOK, Decided, Acting, Cashing
<1>10. MetOK /\ ClosingsMet /\ StakeRead
  BY <1>7 DEF Init, NoBet, MetOK, ClosingsMet, StakeRead, Acting, Decided
<1>12. MarketsOK /\ LegsOK /\ ResultsOK
  BY DEF Init, NoBet, MarketsOK, LegsOK, ResultsOK
<1>11. StakeAccounted
  <2>1. Total(sold, {}) = 0 /\ bet.stake = Stake /\ Cardinality({}) = 0
    BY TotalEmpty, FS_EmptySet DEF Init, NoBet
  <2> QED BY <1>1, <1>7, <2>1 DEF StakeAccounted
<1> QED BY <1>5, <1>8, <1>9, <1>10, <1>11, <1>12 DEF IInv

\* Where no table is written and no history forgotten, what was paid and sold stays.
LEMMA TablesKept ==
    ASSUME IInv, UNCHANGED <<wallet, ledger, bet, partials, sold>>, met \subseteq met',
                             lapsed \subseteq lapsed'
    PROVE  /\ Closings' = Closings /\ partials' = partials /\ Posted(ledger') = Posted(ledger)
           /\ IsFiniteSet(Posted(ledger')) /\ ClosingsMet' /\ StakeAccounted'
           /\ \A p, q \in Requests : Overlapped(p, q) => Overlapped(p, q)'
<1>1. Closings' = Closings /\ partials' = partials /\ Posted(ledger') = Posted(ledger)
  BY DEF Closings, Posted
<1>2. ClosingsMet'
  BY <1>1 DEF IInv, ClosingsMet
<1>3. StakeAccounted'
  <2>1. CASE bet.stake + Total(sold, partials) - Stake \in 0 .. Cardinality(partials)
    BY <1>1, <2>1 DEF StakeAccounted
  <2>2. CASE \E p \in partials \cap lapsed, q \in partials : p # q /\ {p, q} \in met
    BY <2>2 DEF StakeAccounted
  <2> QED BY <2>1, <2>2 DEF IInv, StakeAccounted
<1>4. \A p, q \in Requests : Overlapped(p, q) => Overlapped(p, q)'
  BY DEF Overlapped
<1> QED BY <1>1, <1>2, <1>3, <1>4 DEF IInv

\* Where no market is written: the results that were read, and what was decided by
\* them, stay, unless a settleBet ends and its decision becomes the status of the bet.
Settlers == {"settling", "voiding"}
Unread == {"idle", "create", "sweeping", "legs"}

LEMMA ResultsGo ==
    ASSUME IInv, UNCHANGED <<market, raced>>,
           \A q \in Requests :
              /\ pc'[q] \in Settlers => Resulted(q)' \/ (pc[q] = pc'[q] /\ plan'[q] = plan[q])
              /\ pc[q] = "done" => pc'[q] = "done" /\ plan'[q] = plan[q],
           \/ bet'.status = bet.status
           \/ bet'.status \notin {"WON", "LOST", "VOID"}
           \/ \E p \in Requests : /\ pc[p] \in Settlers /\ pc'[p] = "done" /\ plan'[p] = plan[p]
                                   /\ bet'.status = plan[p].status
    PROVE  MarketsOK' /\ ResultsOK'
<1>1. MarketsOK'
  BY DEF IInv, MarketsOK
<1>2. ASSUME NEW q \in Requests, Resulted(q), plan'[q] = plan[q]
      PROVE  Resulted(q)'
  BY <1>2 DEF Resulted, SettledOnce, Agrees
<1>3. ASSUME NEW q \in Requests, pc'[q] \in Settlers
      PROVE  Resulted(q)'
  BY <1>2, <1>3 DEF IInv, ResultsOK, Settlers
<1>4. ASSUME bet'.status \in {"WON", "LOST", "VOID"}
      PROVE  \E q \in Requests : /\ pc'[q] = "done" /\ plan'[q].status = bet'.status
                                 /\ Resulted(q)'
  <2>1. CASE bet'.status = bet.status
    <3>1. PICK q \in Requests : pc[q] = "done" /\ plan[q].status = bet.status /\ Resulted(q)
      BY <1>4, <2>1 DEF IInv, ResultsOK
    <3>2. Resulted(q)'
      BY <1>2, <3>1
    <3> QED BY <2>1, <3>1, <3>2
  <2>2. ASSUME NEW q \in Requests, pc[q] \in Settlers, pc'[q] = "done", plan'[q] = plan[q],
               bet'.status = plan[q].status
        PROVE  /\ pc'[q] = "done" /\ plan'[q].status = bet'.status
               /\ Resulted(q)'
    <3>1. Resulted(q)
      BY <2>2 DEF IInv, ResultsOK, Settlers
    <3> QED BY <1>2, <2>2, <3>1
  <2> QED BY <1>4, <2>1, <2>2
<1> HIDE DEF Resulted
<1>5. ResultsOK'
  BY <1>3, <1>4 DEF ResultsOK, Settlers
<1> QED BY <1>1, <1>5

LEMMA ResultsKept ==
    ASSUME IInv, UNCHANGED <<market, raced>>,
           \A q \in Requests :
              /\ pc'[q] \in Settlers => pc[q] = pc'[q] /\ plan'[q] = plan[q]
              /\ pc[q] = "done" => pc'[q] = "done" /\ plan'[q] = plan[q]
              /\ pc'[q] \in Unread => pc[q] \in Unread
              /\ pc'[q] = "markets" => pc[q] = "markets" /\ legs'[q] = legs[q],
           \/ bet'.status = bet.status
           \/ bet'.status \notin {"WON", "LOST", "VOID"}
           \/ \E p \in Requests : /\ pc[p] \in Settlers /\ pc'[p] = "done" /\ plan'[p] = plan[p]
                                   /\ bet'.status = plan[p].status
    PROVE  MarketsOK' /\ LegsOK' /\ ResultsOK'
<1>1. LegsOK'
  <2> SUFFICES ASSUME NEW q \in Requests, NEW m \in Markets
               PROVE  /\ <<q, m>> \in raced =>
                            /\ market[m].settled > 0
                            /\ pc'[q] \notin {"idle", "create", "sweeping", "legs"}
                      /\ pc'[q] = "markets" /\ legs'[q][m] = "null" =>
                            market[m].settled = 0 \/ <<q, m>> \in raced
                      /\ pc'[q] = "markets" /\ legs'[q][m] # "null" =>
                            \/ market[m].settled > 1
                            \/ /\ market[m].settled = 1 /\ legs'[q][m] = market[m].won
                               /\ <<q, m>> \notin raced
    BY DEF LegsOK
  <2>1. /\ <<q, m>> \in raced =>
              market[m].settled > 0 /\ pc[q] \notin {"idle", "create", "sweeping", "legs"}
        /\ pc[q] = "markets" /\ legs[q][m] = "null" =>
              market[m].settled = 0 \/ <<q, m>> \in raced
        /\ pc[q] = "markets" /\ legs[q][m] # "null" =>
              \/ market[m].settled > 1
              \/ /\ market[m].settled = 1 /\ legs[q][m] = market[m].won
                 /\ <<q, m>> \notin raced
    BY DEF IInv, LegsOK
  <2>2. /\ pc'[q] \in Unread => pc[q] \in Unread
        /\ pc'[q] = "markets" => pc[q] = "markets" /\ legs'[q] = legs[q]
    OBVIOUS
  <2> QED BY <2>1, <2>2 DEF Unread
<1>2. MarketsOK' /\ ResultsOK'
  BY ResultsGo
<1> QED BY <1>1, <1>2

\* p is answered, dies, gives up, or is about to call settleBet: it decides nothing.
Quiet(p, l) ==
    /\ pc' = [pc EXCEPT ![p] = l]
    /\ l \in {"sweeping", "unlock", "done", "failed", "crashed"}
    /\ pc[p] # "done"
    /\ l = "sweeping" => pc[p] = "idle"
    /\ l = "unlock" => pc[p] \in Cashing
    /\ \/ UNCHANGED lock
       \/ l # "unlock" /\ lock' = IF lock = p THEN Nobody ELSE lock
    /\ swept' \subseteq Sweepers
    /\ seen' = seen \/ seen' = [seen EXCEPT ![p] = NoWallet]
    /\ legs' = legs \/ legs' = [legs EXCEPT ![p] = NoLegs]
    /\ UNCHANGED <<wallet, ledger, bet, partials, sold, market, started, raced, plan, met,
                   lapsed>>

LEMMA QuietIInv ==
    ASSUME IInv, NEW p \in Requests, NEW l, Quiet(p, l)
    PROVE  IInv'
<1> USE DEF Quiet
<1>1. \A q \in Requests : pc'[q] = IF q = p THEN l ELSE pc[q]
  BY DEF IInv, TypeOK
<1>2. \A q \in Requests : q # p => seen'[q] = seen[q] /\ legs'[q] = legs[q]
  BY DEF IInv, TypeOK
<1>3. \A q \in Requests : /\ pc'[q] \in Decided => q # p /\ pc[q] = pc'[q]
                          /\ pc'[q] \in Acting => pc[q] \in Acting
                          /\ pc'[q] \in Cashing => pc[q] \in Cashing
                          /\ pc'[q] = "create" => pc[q] = "create"
  BY <1>1 DEF Decided, Acting, Cashing
<1>4. /\ Closings' = Closings /\ partials' = partials /\ Posted(ledger') = Posted(ledger)
      /\ IsFiniteSet(Posted(ledger')) /\ ClosingsMet' /\ StakeAccounted'
      /\ \A q, r \in Requests : Overlapped(q, r) => Overlapped(q, r)'
  BY TablesKept
<1>5. TypeOK'
  <2>1. pc' \in [Requests -> InFlight \cup Ended \cup {"idle"}]
    BY DEF IInv, TypeOK, InFlight, Ended, Acting
  <2>2. lock' \in Requests \cup {Nobody} /\ seen' \in [Requests -> Wallet \cup {NoWallet}]
    BY DEF IInv, TypeOK
  <2>3. NoLegs \in [Markets -> {"null", "yes", "no"}]
    BY DEF NoLegs
  <2>4. legs' \in [Requests -> [Markets -> {"null", "yes", "no"}]]
    BY <2>3 DEF IInv, TypeOK
  <2> QED BY <2>1, <2>2, <2>4 DEF IInv, TypeOK
<1>6. CreateOK' /\ PlansOK' /\ PartsOK'
  BY <1>3 DEF IInv, CreateOK, PlansOK, PartsOK, Decided, Acting
<1>7. MetOK'
  BY <1>3, <1>4 DEF IInv, MetOK
<1>8. LockKept'
  <2> SUFFICES ASSUME NEW q \in Requests, pc'[q] \in Cashing, q \notin lapsed PROVE lock' = q
    BY DEF LockKept
  <2>1. lock = q
    BY <1>3 DEF IInv, LockKept
  <2>2. q = p => l = "unlock"
    BY <1>1 DEF Cashing
  <2> QED BY <2>1, <2>2
<1>9. StakeRead'
  <2>1. \A q \in Requests : pc'[q] \in {"checking", "cashing", "paying"} => pc[q] = pc'[q]
    BY <1>3 DEF Decided, Acting
  <2>2. partials \subseteq Requests
    BY DEF IInv, TypeOK
  <2> QED BY <1>4, <2>1, <2>2 DEF IInv, StakeRead
<1>10. SeenOK'
  <2>1. \A q \in Requests : pc'[q] = "paying" => q # p /\ pc[q] = "paying"
    BY <1>1
  <2> QED BY <1>2, <2>1 DEF IInv, SeenOK
<1>11. MarketsOK' /\ LegsOK' /\ ResultsOK'
  BY <1>1, <1>2, ResultsKept DEF Settlers, Unread
<1> QED BY <1>4, <1>5, <1>6, <1>7, <1>8, <1>9, <1>10, <1>11 DEF IInv

LEMMA QuietSteps ==
    ASSUME IInv, NEW p \in Requests,
           SweepFind(p) \/ SweepRefused(p) \/ Unlock(p) \/ Fail(p) \/ Crash(p)
    PROVE  IInv'
<1>1. swept \subseteq Sweepers
  BY DEF IInv, TypeOK
<1>2. CASE SweepFind(p)
  <2>1. PICK l \in {"sweeping", "done"} : pc' = [pc EXCEPT ![p] = l]
    BY <1>2 DEF SweepFind, Goto
  <2>2. Quiet(p, l)
    BY <1>1, <1>2, <2>1 DEF SweepFind, Quiet, betVars, ownVars
  <2> QED BY <2>2, QuietIInv
<1>3. CASE SweepRefused(p)
  <2>1. Quiet(p, "done")
    BY <1>1, <1>3 DEF SweepRefused, Goto, Quiet, betVars, worldVars, ownVars
  <2> QED BY <2>1, QuietIInv
<1>4. CASE Unlock(p)
  <2>1. PICK l \in {"done", "failed"} : pc' = [pc EXCEPT ![p] = l]
    BY <1>4 DEF Unlock, Goto
  <2>2. Quiet(p, l)
    BY <1>1, <1>4, <2>1 DEF Unlock, Quiet, betVars, worldVars, ownVars
  <2> QED BY <2>2, QuietIInv
<1>5. CASE Fail(p)
  <2>1. PICK l \in {"failed", "unlock"} :
           /\ pc' = [pc EXCEPT ![p] = l] /\ (l = "unlock" => pc[p] \in Cashing)
           /\ pc[p] # "done"
    BY <1>5 DEF Fail, Goto, Cashing, Acting
  <2>2. Quiet(p, l)
    BY <1>1, <1>5, <2>1 DEF Fail, Forget, Quiet, betVars, worldVars
  <2> QED BY <2>2, QuietIInv
<1>6. CASE Crash(p)
  <2>1. Quiet(p, "crashed")
    BY <1>1, <1>6 DEF Crash, Forget, Goto, Quiet, betVars, worldVars, InFlight, Acting
  <2> QED BY <2>1, QuietIInv
<1> QED BY <1>2, <1>3, <1>4, <1>5, <1>6

\* p reads the ACCEPTED bet: nothing has closed the bet, and whoever else is about to
\* has now met p.
Reads(p, l, d) ==
    /\ bet.status = "ACCEPTED" /\ d \in Plan /\ d.stake = bet.stake
    /\ \/ l = "legs" /\ pc[p] \in {"idle", "sweeping"} /\ d.status = "ACCEPTED"
       \/ l = "cancelling" /\ pc[p] = "idle" /\ d.status = "CANCELLED"
       \/ l = "checking" /\ pc[p] = "locked" /\ d.status = "ACCEPTED"
    /\ plan' = [plan EXCEPT ![p] = d] /\ Goto(p, l)
    /\ met \subseteq met' /\ met' \subseteq SUBSET Requests
    /\ \A q \in Requests : q # p /\ pc[q] \in Acting => {p, q} \in met'
    /\ UNCHANGED <<wallet, ledger, bet, partials, sold, market, started, raced, swept, lock,
                   legs, seen, lapsed>>

LEMMA ReadsIInv ==
    ASSUME IInv, NEW p \in Requests, NEW l, NEW d, Reads(p, l, d)
    PROVE  IInv'
<1> USE DEF Reads
<1>1. /\ \A q \in Requests : pc'[q] = IF q = p THEN l ELSE pc[q]
      /\ \A q \in Requests : plan'[q] = IF q = p THEN d ELSE plan[q]
      /\ l \in {"legs", "cancelling", "checking"} /\ p \in Requests
  BY DEF IInv, TypeOK, Goto
<1>2. /\ met \subseteq met' /\ met' \subseteq SUBSET Requests
      /\ \A q \in Requests : q # p /\ pc[q] \in Acting => {p, q} \in met'
  OBVIOUS
<1>3. /\ Closings' = Closings /\ partials' = partials /\ Posted(ledger') = Posted(ledger)
      /\ IsFiniteSet(Posted(ledger')) /\ ClosingsMet' /\ StakeAccounted'
      /\ \A q, r \in Requests : Overlapped(q, r) => Overlapped(q, r)'
  BY <1>2, TablesKept
<1>4. \A q \in Requests : /\ pc'[q] \in {"create", "paying"} => q # p /\ pc[q] = pc'[q]
                          /\ pc'[q] \in Cashing => pc[q] \in Cashing
                          /\ pc'[q] \in {"cashing", "paying"} => q # p
                          /\ q # p => pc'[q] = pc[q] /\ plan'[q] = plan[q]
  BY <1>1 DEF Cashing
<1>5. bet.stake \in 0 .. Stake
  BY TableTypes
<1>6. TypeOK'
  <2>1. pc' \in [Requests -> InFlight \cup Ended \cup {"idle"}]
    BY <1>1 DEF IInv, TypeOK, InFlight, Acting, Goto
  <2>2. plan' \in [Requests -> Plan \cup {NoPlan}]
    BY DEF IInv, TypeOK
  <2> QED BY <1>2, <2>1, <2>2 DEF IInv, TypeOK
<1>7. CreateOK'
  BY <1>4 DEF IInv, CreateOK
<1>8. PlansOK'
  <2> SUFFICES ASSUME NEW q \in Requests, pc'[q] \in Decided
               PROVE  /\ bet'.status # "NONE"
                      /\ plan'[q] \in Plan /\ plan'[q].stake \in 0 .. Stake
                      /\ pc'[q] \in {"legs", "markets", "checking"}
                            => plan'[q].status = "ACCEPTED"
                      /\ pc'[q] = "settling" => plan'[q].status \in {"WON", "LOST"}
                      /\ pc'[q] = "voiding" => plan'[q].status = "VOID"
                      /\ pc'[q] = "cancelling" => plan'[q].status = "CANCELLED"
                      /\ pc'[q] \in {"cashing", "paying"}
                            => plan'[q].status \in {"ACCEPTED", "CASHED_OUT"}
    BY DEF PlansOK
  <2>1. CASE q = p
    BY <1>1, <1>5, <2>1
  <2>2. CASE q # p
    BY <1>4, <2>2 DEF IInv, PlansOK
  <2> QED BY <2>1, <2>2
<1>9. MetOK'
  <2>1. Closings = {}
    BY DEF IInv, MetOK
  <2>2. ASSUME NEW q \in Requests, NEW r \in Requests, q # r, pc'[q] \in Acting, pc'[r] \in Acting
        PROVE  {q, r} \in met'
    <3>1. CASE q # p /\ r # p
      BY <1>2, <1>4, <2>2, <3>1 DEF IInv, MetOK
    <3>2. CASE q = p
      BY <1>2, <1>4, <2>2, <3>2
    <3>3. CASE r = p
      <4>1. {q, r} = {p, q}
        BY <3>3
      <4> QED BY <1>2, <1>4, <2>2, <3>3, <4>1
    <3> QED BY <3>1, <3>2, <3>3
  <2> QED BY <1>3, <2>1, <2>2 DEF MetOK
<1>10. LockKept'
  BY <1>4 DEF IInv, LockKept
<1>11. StakeRead'
  <2>1. partials \subseteq Requests
    BY DEF IInv, TypeOK
  <2>2. plan'[p].stake = bet'.stake
    BY <1>1
  <2> QED BY <1>3, <1>4, <2>1, <2>2 DEF IInv, StakeRead
<1>12. SeenOK'
  BY <1>4 DEF IInv, SeenOK
<1>13. MarketsOK' /\ LegsOK' /\ ResultsOK'
  BY <1>1, <1>4, ResultsKept DEF Settlers, Unread
<1>14. PartsOK'
  BY <1>4 DEF IInv, PartsOK
<1> QED BY <1>3, <1>6, <1>7, <1>8, <1>9, <1>10, <1>11, <1>12, <1>13, <1>14 DEF IInv

LEMMA ReadSteps ==
    ASSUME IInv, NEW p \in Requests, SettleRead(p) \/ CancelRead(p) \/ CashoutRead(p)
    PROVE  IInv'
<1>1. bet.stake \in Nat /\ met \subseteq SUBSET Requests
  BY TableTypes DEF IInv, TypeOK
<1>2. ASSUME Meet(p)
      PROVE  /\ met \subseteq met' /\ met' \subseteq SUBSET Requests
             /\ \A q \in Requests : q # p /\ pc[q] \in Acting => {p, q} \in met'
  BY <1>1, <1>2 DEF Meet
<1> DEFINE row(status, pays) == [status |-> status, stake |-> bet.stake, left |-> bet.stake,
                                 part |-> 0, pays |-> pays]
<1>3. ASSUME bet.status = "ACCEPTED" PROVE row(bet.status, 0) \in Plan
  BY <1>1, <1>3 DEF Plan
<1>4. CASE SettleRead(p)
  <2> DEFINE d == row(bet.status, 0)
  <2>1. d \in Plan /\ d.stake = bet.stake /\ d.status = "ACCEPTED"
    BY <1>3, <1>4 DEF SettleRead
  <2>2. plan' = [plan EXCEPT ![p] = d]
    BY <1>4 DEF SettleRead, ReadBet
  <2> HIDE DEF d
  <2>3. Reads(p, "legs", d)
    BY <1>2, <1>4, <2>1, <2>2 DEF SettleRead, Reads, betVars, worldVars, ownVars
  <2> QED BY <2>3, ReadsIInv
<1>5. CASE CancelRead(p)
  <2> DEFINE d == row("CANCELLED", bet.stake)
  <2>1. d \in Plan /\ d.stake = bet.stake /\ d.status = "CANCELLED"
    BY <1>1 DEF Plan
  <2>2. bet.status = "ACCEPTED"
    BY <1>5 DEF CancelRead, IInv, TypeOK, BetStatuses
  <2>3. plan' = [plan EXCEPT ![p] = d]
    BY <1>5 DEF CancelRead, PlanCancel
  <2> HIDE DEF d
  <2>4. Reads(p, "cancelling", d)
    BY <1>2, <1>5, <2>1, <2>2, <2>3 DEF CancelRead, Reads, betVars, worldVars, ownVars
  <2> QED BY <2>4, ReadsIInv
<1>6. CASE CashoutRead(p)
  <2>1. /\ pc[p] = "locked"
        /\ UNCHANGED <<wallet, ledger, bet, partials, sold, market, started, raced, swept,
                       lock, legs, seen, met, lapsed>>
    BY <1>6 DEF CashoutRead, betVars, worldVars, ownVars
  <2>2. CASE bet.status = "ACCEPTED"
    <3> DEFINE d == row(bet.status, 0)
    <3>1. d \in Plan /\ d.stake = bet.stake /\ d.status = "ACCEPTED"
      BY <1>3, <2>2
    <3>2. plan' = [plan EXCEPT ![p] = d] /\ Goto(p, "checking")
      BY <1>6, <2>2 DEF CashoutRead, ReadBet
    <3> HIDE DEF d
    <3>3. \A q \in Requests : q # p /\ pc[q] \in Acting => {p, q} \in met'
      BY <2>1 DEF IInv, MetOK, Acting
    <3>4. Reads(p, "checking", d)
      BY <1>1, <2>1, <2>2, <3>1, <3>2, <3>3 DEF Reads
    <3> QED BY <3>4, ReadsIInv
  <2>3. CASE bet.status # "ACCEPTED"
    <3>1. Quiet(p, "unlock")
      BY <1>6, <2>1, <2>3 DEF CashoutRead, Goto, Quiet, Cashing, IInv, TypeOK
    <3> QED BY <3>1, QuietIInv
  <2> QED BY <2>2, <2>3
<1> QED BY <1>4, <1>5, <1>6

\* p has read the bet; it reads on, or decides d.
Decides(p, l, d) ==
    /\ d \in Plan /\ d.stake = plan[p].stake
    /\ \/ pc[p] = "legs" /\ l = "markets" /\ d.status = "ACCEPTED"
       \/ pc[p] = "markets" /\ l = "settling" /\ d.status \in {"WON", "LOST"}
       \/ pc[p] = "markets" /\ l = "voiding" /\ d.status = "VOID"
       \/ /\ pc[p] = "checking" /\ l = "cashing" /\ d.status \in {"ACCEPTED", "CASHED_OUT"}
          /\ d.status = "ACCEPTED" => Divides(d)
    /\ plan' = [plan EXCEPT ![p] = d] /\ Goto(p, l)
    /\ legs' \in [Requests -> [Markets -> {"null", "yes", "no"}]]
    /\ UNCHANGED <<wallet, ledger, bet, partials, sold, market, started, raced, swept, lock,
                   seen, met, lapsed>>

LEMMA DecidesIInv ==
    ASSUME IInv, NEW p \in Requests, NEW l, NEW d, Decides(p, l, d),
           MarketsOK', LegsOK', ResultsOK'
    PROVE  IInv'
<1> USE DEF Decides
<1>1. /\ \A q \in Requests : pc'[q] = IF q = p THEN l ELSE pc[q]
      /\ \A q \in Requests : plan'[q] = IF q = p THEN d ELSE plan[q]
      /\ l \in {"markets", "settling", "voiding", "cashing"}
      /\ pc[p] \in {"legs", "markets", "checking"}
  BY DEF IInv, TypeOK, Goto
<1>2. /\ Closings' = Closings /\ partials' = partials /\ Posted(ledger') = Posted(ledger)
      /\ IsFiniteSet(Posted(ledger')) /\ ClosingsMet' /\ StakeAccounted'
      /\ \A q, r \in Requests : Overlapped(q, r) => Overlapped(q, r)'
  BY TablesKept
<1>3. \A q \in Requests :
         /\ pc'[q] \in Decided => pc[q] \in Decided
         /\ pc'[q] \in Acting => pc[q] \in Acting
         /\ pc'[q] \in Cashing => pc[q] \in Cashing
         /\ pc'[q] \in {"create", "paying"} => q # p /\ pc[q] = pc'[q]
         /\ pc'[q] \in {"checking", "cashing", "paying"}
               => pc[q] \in {"checking", "cashing", "paying"} /\ plan'[q].stake = plan[q].stake
         /\ q # p => pc'[q] = pc[q] /\ plan'[q] = plan[q]
  BY <1>1 DEF Decided, Acting, Cashing
<1>4. TypeOK'
  <2>1. pc' \in [Requests -> InFlight \cup Ended \cup {"idle"}]
    BY <1>1 DEF IInv, TypeOK, InFlight, Acting, Goto
  <2>2. plan' \in [Requests -> Plan \cup {NoPlan}]
    BY DEF IInv, TypeOK
  <2> QED BY <2>1, <2>2 DEF IInv, TypeOK
<1>5. CreateOK'
  BY <1>3 DEF IInv, CreateOK
<1>6. PlansOK'
  <2> SUFFICES ASSUME NEW q \in Requests, pc'[q] \in Decided
               PROVE  /\ bet'.status # "NONE"
                      /\ plan'[q] \in Plan /\ plan'[q].stake \in 0 .. Stake
                      /\ pc'[q] \in {"legs", "markets", "checking"}
                            => plan'[q].status = "ACCEPTED"
                      /\ pc'[q] = "settling" => plan'[q].status \in {"WON", "LOST"}
                      /\ pc'[q] = "voiding" => plan'[q].status = "VOID"
                      /\ pc'[q] = "cancelling" => plan'[q].status = "CANCELLED"
                      /\ pc'[q] \in {"cashing", "paying"}
                            => plan'[q].status \in {"ACCEPTED", "CASHED_OUT"}
    BY DEF PlansOK
  <2>1. pc[q] \in Decided
    BY <1>3
  <2>2. bet.status # "NONE" /\ plan[q].stake \in 0 .. Stake
    BY <2>1 DEF IInv, PlansOK
  <2>3. CASE q = p
    BY <1>1, <2>2, <2>3
  <2>4. CASE q # p
    BY <1>3, <2>1, <2>4 DEF IInv, PlansOK
  <2> QED BY <2>3, <2>4
<1>7. PartsOK'
  <2> SUFFICES ASSUME NEW q \in Requests, pc'[q] \in {"cashing", "paying"},
                      plan'[q].status = "ACCEPTED"
               PROVE  Divides(plan'[q])
    BY DEF PartsOK, Divides
  <2>1. CASE q = p
    BY <1>1, <2>1
  <2>2. CASE q # p
    BY <1>3, <2>2 DEF IInv, PartsOK
  <2> QED BY <2>1, <2>2
<1>8. MetOK' /\ LockKept'
  BY <1>2, <1>3 DEF IInv, MetOK, LockKept
<1>9. StakeRead'
  <2>1. partials \subseteq Requests
    BY DEF IInv, TypeOK
  <2> QED BY <1>2, <1>3, <2>1 DEF IInv, StakeRead
<1>10. SeenOK'
  BY <1>3 DEF IInv, SeenOK
<1> QED BY <1>2, <1>4, <1>5, <1>6, <1>7, <1>8, <1>9, <1>10 DEF IInv

\* settleBet reads the results of the selections.
LEMMA SettleLegsIInv ==
    ASSUME IInv, NEW p \in Requests, SettleLegs(p)
    PROVE  IInv'
<1>1. /\ pc[p] = "legs" /\ Goto(p, "markets")
      /\ legs' = [legs EXCEPT ![p] = [m \in Markets |-> market[m].won]]
      /\ UNCHANGED <<wallet, ledger, bet, partials, sold, market, started, raced, swept, lock,
                     plan, seen, met, lapsed>>
  BY DEF SettleLegs, betVars, worldVars
<1>2. /\ \A q \in Requests : pc'[q] = IF q = p THEN "markets" ELSE pc[q]
      /\ \A q \in Requests : q # p => legs'[q] = legs[q]
      /\ \A m \in Markets : legs'[p][m] = market[m].won
      /\ \A m \in Markets : market[m].settled \in Nat
  BY <1>1, SweepersAssumption DEF IInv, TypeOK, Goto
<1>3. plan[p] \in Plan /\ plan[p].status = "ACCEPTED" /\ plan' = [plan EXCEPT ![p] = plan[p]]
  BY <1>1 DEF IInv, TypeOK, PlansOK, Decided, Acting
<1>4. Decides(p, "markets", plan[p])
  <2>1. legs' \in [Requests -> [Markets -> {"null", "yes", "no"}]]
    <3>1. [m \in Markets |-> market[m].won] \in [Markets -> {"null", "yes", "no"}]
      BY DEF IInv, TypeOK
    <3> QED BY <1>1, <3>1 DEF IInv, TypeOK
  <2> QED BY <1>1, <1>3, <2>1 DEF Decides
<1>5. MarketsOK' /\ ResultsOK'
  <2>1. \A q \in Requests :
           /\ pc'[q] \in Settlers => pc[q] = pc'[q] /\ plan'[q] = plan[q]
           /\ pc[q] = "done" => pc'[q] = "done" /\ plan'[q] = plan[q]
    BY <1>1, <1>2 DEF Settlers
  <2> QED BY <1>1, <2>1, ResultsGo
<1>6. LegsOK'
  <2> SUFFICES ASSUME NEW q \in Requests, NEW m \in Markets
               PROVE  /\ <<q, m>> \in raced' =>
                            /\ market'[m].settled > 0
                            /\ pc'[q] \notin {"idle", "create", "sweeping", "legs"}
                      /\ pc'[q] = "markets" /\ legs'[q][m] = "null" =>
                            market'[m].settled = 0 \/ <<q, m>> \in raced'
                      /\ pc'[q] = "markets" /\ legs'[q][m] # "null" =>
                            \/ market'[m].settled > 1
                            \/ /\ market'[m].settled = 1 /\ legs'[q][m] = market'[m].won
                               /\ <<q, m>> \notin raced'
    BY DEF LegsOK
  <2>1. CASE q # p
    BY <1>1, <1>2, <2>1 DEF IInv, LegsOK
  <2>2. CASE q = p
    <3>1. <<p, m>> \notin raced
      BY <1>1 DEF IInv, LegsOK
    <3>2. market[m].won = "null" <=> market[m].settled = 0
      BY DEF IInv, MarketsOK
    <3> QED BY <1>1, <1>2, <2>2, <3>1, <3>2
  <2> QED BY <2>1, <2>2
<1> QED BY <1>4, <1>5, <1>6, DecidesIInv

\* The odds of legs are numbers.
LEMMA OddsType ==
    ASSUME NEW S \in SUBSET Markets
    PROVE  OddsOf(S) \in Nat
<1>1. IsFiniteSet(S) /\ \A m \in S : LegOdds[m] \in Nat \ {0}
  BY MarketsAssumption, FS_Subset
<1>2. Product(LegOdds, S) \in Nat \ {0}
  BY <1>1, ProductType
<1> QED BY <1>2, BetAssumption DEF OddsOf

\* settleBet finds the markets settled, and decides by the results read before: they are
\* those of the markets, or are missing where the market was settled in between.
LEMMA JudgeIInv ==
    ASSUME IInv, NEW p \in Requests, pc[p] = "markets", AllSettled(market), Judge(p),
           legs' = [legs EXCEPT ![p] = NoLegs],
           UNCHANGED <<wallet, ledger, bet, partials, sold, market, started, raced, swept, lock,
                       seen, met, lapsed>>
    PROVE  IInv'
<1> DEFINE yes == {m \in Markets : legs[p][m] = "yes"}
           void == {m \in Markets : legs[p][m] = "null"}
           missed == {m \in Markets : <<p, m>> \in raced}
           pays(status) == IF status = "LOST" THEN 0
                           ELSE IF status = "VOID" THEN plan[p].stake
                           ELSE plan[p].stake * OddsOf(yes)
           d(status) == [plan[p] EXCEPT !.status = status, !.pays = pays(status)]
<1>1. /\ plan[p] \in Plan /\ plan[p].stake \in Nat
      /\ \A m \in Markets : legs[p][m] \in {"null", "yes", "no"} /\ market[m].settled \in Nat
  BY SweepersAssumption DEF IInv, TypeOK, PlansOK, Decided, Acting, Plan
<1>2. PICK status \in {"LOST", "VOID", "WON"} :
         /\ status = "LOST" => yes \cup void # Markets
         /\ status = "VOID" => void = Markets
         /\ status = "WON" => yes \cup void = Markets /\ void # Markets
         /\ plan' = [plan EXCEPT ![p] = d(status)]
         /\ Goto(p, IF status = "VOID" THEN "voiding" ELSE "settling")
  BY DEF Judge, Decide
<1>3. d(status) \in Plan /\ d(status).stake = plan[p].stake /\ d(status).status = status
      /\ d(status).pays = pays(status)
  <2>1. pays(status) \in Nat
    <3>1. OddsOf(yes) \in Nat
      BY OddsType
    <3> HIDE DEF yes
    <3> QED BY <1>1, <3>1
  <2> HIDE DEF pays
  <2> QED BY <1>1, <2>1 DEF Plan
<1> HIDE DEF d
<1> DEFINE l == IF status = "VOID" THEN "voiding" ELSE "settling"
<1>4. Decides(p, l, d(status))
  <2>1. legs' \in [Requests -> [Markets -> {"null", "yes", "no"}]]
    BY DEF IInv, TypeOK, NoLegs
  <2> HIDE DEF yes, void, pays
  <2> QED BY <1>2, <1>3, <2>1 DEF Decides
<1>5. /\ \A q \in Requests : pc'[q] = IF q = p THEN l ELSE pc[q]
      /\ \A q \in Requests : plan'[q] = IF q = p THEN d(status) ELSE plan[q]
      /\ \A q \in Requests : q # p => legs'[q] = legs[q]
  BY <1>2 DEF IInv, TypeOK, Goto
<1>6. LegsOK'
  <2> SUFFICES ASSUME NEW q \in Requests, NEW m \in Markets
               PROVE  /\ <<q, m>> \in raced =>
                            /\ market[m].settled > 0
                            /\ pc'[q] \notin {"idle", "create", "sweeping", "legs"}
                      /\ pc'[q] = "markets" /\ legs'[q][m] = "null" =>
                            market[m].settled = 0 \/ <<q, m>> \in raced
                      /\ pc'[q] = "markets" /\ legs'[q][m] # "null" =>
                            \/ market[m].settled > 1
                            \/ /\ market[m].settled = 1 /\ legs'[q][m] = market[m].won
                               /\ <<q, m>> \notin raced
    BY DEF LegsOK
  <2>1. /\ <<q, m>> \in raced =>
              market[m].settled > 0 /\ pc[q] \notin {"idle", "create", "sweeping", "legs"}
        /\ pc[q] = "markets" /\ legs[q][m] = "null" =>
              market[m].settled = 0 \/ <<q, m>> \in raced
        /\ pc[q] = "markets" /\ legs[q][m] # "null" =>
              \/ market[m].settled > 1
              \/ /\ market[m].settled = 1 /\ legs[q][m] = market[m].won
                 /\ <<q, m>> \notin raced
    BY DEF IInv, LegsOK
  <2>2. q = p => pc[q] = "markets" /\ pc'[q] \in {"settling", "voiding"}
    BY <1>5
  <2> QED BY <1>5, <2>1, <2>2
<1>7. \A m \in Markets : market[m].settled > 0
  BY DEF AllSettled, IInv, MarketsOK
<1>8. ASSUME SettledOnce PROVE Agrees(p)'
  <2>1. \A m \in Markets : \/ legs[p][m] = "null" /\ m \in missed
                           \/ legs[p][m] = market[m].won /\ m \notin missed
    BY <1>1, <1>7, <1>8 DEF IInv, LegsOK, SettledOnce
  <2>2. void = missed
    <3>1. \A m \in Markets : market[m].won # "null"
      BY <1>1, <1>7 DEF IInv, MarketsOK
    <3> QED BY <2>1, <3>1
  <2>3. missed = {m \in Markets : <<p, m>> \in raced'} /\ plan'[p] = d(status)
    BY <1>5
  <2>4. status = "LOST" => \E m \in Markets \ missed : market[m].won = "no"
    BY <1>1, <1>2, <2>1, <2>2
  <2>5. status = "VOID" => missed = Markets
    BY <1>2, <2>2
  <2>6. ASSUME status = "WON"
        PROVE  /\ missed # Markets /\ \A m \in Markets \ missed : market[m].won = "yes"
               /\ pays(status) = plan[p].stake * OddsOf(Markets \ missed)
    <3>1. yes = Markets \ missed
      BY <1>2, <2>2, <2>6
    <3> QED BY <1>2, <2>1, <2>2, <2>6, <3>1
  <2>7. d(status).status = status /\ d(status).pays = pays(status)
        /\ d(status).stake = plan[p].stake
    BY <1>3
  <2> HIDE DEF yes, void, pays, missed
  <2>8. /\ plan'[p].status = "LOST" => \E m \in Markets \ missed : market'[m].won = "no"
        /\ plan'[p].status = "VOID" => missed = Markets
        /\ plan'[p].status = "WON" =>
              /\ missed # Markets /\ \A m \in Markets \ missed : market'[m].won = "yes"
              /\ plan'[p].pays = plan'[p].stake * OddsOf(Markets \ missed)
    BY <2>3, <2>4, <2>5, <2>6, <2>7
  <2> QED BY <2>3, <2>8 DEF Agrees
<1>9. Resulted(p)'
  BY <1>7, <1>8 DEF Resulted, SettledOnce
<1>10. MarketsOK' /\ ResultsOK'
  <2>1. \A q \in Requests :
           /\ pc'[q] \in Settlers => Resulted(q)' \/ (pc[q] = pc'[q] /\ plan'[q] = plan[q])
           /\ pc[q] = "done" => pc'[q] = "done" /\ plan'[q] = plan[q]
    BY <1>5, <1>9
  <2> QED BY <2>1, ResultsGo
<1> QED BY <1>4, <1>6, <1>10, DecidesIInv

\* A cashout decides what it sells, in parts that make up the stake it read.
LEMMA CashoutDecideIInv ==
    ASSUME IInv, NEW p \in Requests, CashoutDecide(p)
    PROVE  IInv'
<1>1. /\ pc[p] = "checking"
      /\ UNCHANGED <<wallet, ledger, bet, partials, sold, market, started, raced, swept, lock,
                     legs, seen, met, lapsed>>
  BY DEF CashoutDecide, betVars, worldVars, ownVars
<1>2. plan[p] \in Plan /\ plan[p].status = "ACCEPTED" /\ plan[p].stake \in Nat
      /\ legs \in [Requests -> [Markets -> {"null", "yes", "no"}]]
  BY <1>1 DEF IInv, TypeOK, PlansOK, Decided, Acting, Plan
<1>3. ASSUME NEW d, d \in Plan, d.stake = plan[p].stake,
             d.status \in {"ACCEPTED", "CASHED_OUT"}, d.status = "ACCEPTED" => Divides(d),
             plan' = [plan EXCEPT ![p] = d], Goto(p, "cashing")
      PROVE  IInv'
  <2>1. Decides(p, "cashing", d)
    BY <1>1, <1>2, <1>3 DEF Decides
  <2>2. \A q \in Requests : /\ pc'[q] = IF q = p THEN "cashing" ELSE pc[q]
                            /\ plan'[q] = IF q = p THEN d ELSE plan[q]
    BY <1>3 DEF IInv, TypeOK, Goto
  <2>3. MarketsOK' /\ LegsOK' /\ ResultsOK'
    BY <1>1, <2>2, ResultsKept DEF Settlers, Unread
  <2> QED BY <2>1, <2>3, DecidesIInv
<1>4. CASE ~Eligible(p)
  <2>1. Quiet(p, "unlock")
    BY <1>1, <1>4 DEF CashoutDecide, Goto, Quiet, Cashing, IInv, TypeOK
  <2> QED BY <2>1, QuietIInv
<1>5. ASSUME NEW cash \in CashValues, Eligible(p), PlanFull(p, cash)
      PROVE  IInv'
  <2> DEFINE d == [plan[p] EXCEPT !.status = "CASHED_OUT", !.pays = cash]
  <2>1. d \in Plan /\ d.stake = plan[p].stake /\ d.status = "CASHED_OUT"
    BY <1>2, CashAssumption DEF Plan
  <2>2. plan' = [plan EXCEPT ![p] = d] /\ Goto(p, "cashing")
    BY <1>5 DEF PlanFull, Decide, CashoutDecide
  <2> HIDE DEF d
  <2> QED BY <1>3, <2>1, <2>2
<1>6. ASSUME NEW cash \in CashValues, NEW part \in Parts, Eligible(p),
             PlanPartial(p, plan[p].stake, part, cash)
      PROVE  IInv'
  <2> DEFINE left == Rounded(Frac(plan[p].stake * (Whole - part), Whole))
             share == Rounded(Frac(plan[p].stake * part, Whole))
             d == [plan[p] EXCEPT !.left = left, !.part = share, !.pays = cash]
  <2>1. /\ left \in Nat /\ share \in Nat /\ left <= plan[p].stake /\ share <= plan[p].stake
        /\ share + left - plan[p].stake \in 0 .. 1
    <3>1. Whole \in Nat \ {0} /\ part \in 0 .. Whole
      BY CashAssumption
    <3> QED BY <1>2, <3>1, Shares
  <2>2. plan' = [plan EXCEPT ![p] = d] /\ Goto(p, "cashing")
    BY <1>6 DEF PlanPartial, CashoutDecide
  <2> HIDE DEF left, share
  <2>3. /\ d \in Plan /\ d.stake = plan[p].stake /\ d.status = "ACCEPTED"
        /\ d.left = left /\ d.part = share
    BY <1>2, <2>1, CashAssumption DEF Plan
  <2> HIDE DEF d
  <2>4. left + share - plan[p].stake \in 0 .. 1
    BY <1>2, <2>1
  <2>5. Divides(d)
    BY <2>1, <2>3, <2>4 DEF Divides
  <2> QED BY <1>3, <2>2, <2>3, <2>5
<1>7. CASE Eligible(p)
  <2>1. \/ \E cash \in CashValues : PlanFull(p, cash)
        \/ \E cash \in CashValues, part \in Parts : PlanPartial(p, plan[p].stake, part, cash)
    BY <1>7 DEF CashoutDecide
  <2> QED BY <1>5, <1>6, <1>7, <2>1
<1> QED BY <1>4, <1>7

LEMMA DecideSteps ==
    ASSUME IInv, NEW p \in Requests, SettleLegs(p) \/ SettleDecide(p) \/ CashoutDecide(p)
    PROVE  IInv'
<1>1. CASE SettleDecide(p)
  <2>1. /\ pc[p] = "markets" /\ legs' = [legs EXCEPT ![p] = NoLegs]
        /\ UNCHANGED <<wallet, ledger, bet, partials, sold, market, started, raced, swept,
                       lock, seen, met, lapsed>>
    BY <1>1 DEF SettleDecide, betVars, worldVars
  <2>2. CASE AllSettled(market) /\ Judge(p)
    BY <2>1, <2>2, JudgeIInv
  <2>3. CASE Goto(p, "done") /\ UNCHANGED plan
    <3>1. Quiet(p, "done")
      BY <2>1, <2>3 DEF Quiet, Goto, IInv, TypeOK
    <3> QED BY <3>1, QuietIInv
  <2> QED BY <1>1, <2>2, <2>3 DEF SettleDecide
<1> QED BY <1>1, SettleLegsIInv, CashoutDecideIInv

\* A cashout takes the lock, which nobody who is not on record as lapsed holds.
LEMMA CashoutLockIInv ==
    ASSUME IInv, NEW p \in Requests, CashoutLock(p)
    PROVE  IInv'
<1>1. /\ pc[p] = "idle" /\ bet.status # "NONE"
      /\ UNCHANGED <<wallet, ledger, bet, partials, sold, market, started, raced, swept, plan,
                     legs, seen, lapsed>>
  BY DEF CashoutLock, betVars, worldVars, ownVars
<1>2. CASE lock # Nobody
  <2>1. Quiet(p, "failed")
    BY <1>1, <1>2 DEF CashoutLock, Goto, Quiet, IInv, TypeOK
  <2> QED BY <2>1, QuietIInv
<1>3. CASE lock = Nobody
  <2>1. lock' = p /\ pc' = [pc EXCEPT ![p] = "locked"] /\ Meet(p)
    BY <1>3 DEF CashoutLock, Goto
  <2>2. /\ \A q \in Requests : pc'[q] = IF q = p THEN "locked" ELSE pc[q]
        /\ \A q \in Requests : /\ pc'[q] \in Decided => q # p /\ pc[q] = pc'[q]
                               /\ pc'[q] # "locked" => q # p /\ pc[q] = pc'[q]
                               /\ q # p => pc'[q] = pc[q]
    BY <2>1 DEF IInv, TypeOK, Decided, Acting
  <2>3. /\ met \subseteq met' /\ met' \subseteq SUBSET Requests
        /\ \A q \in Requests : q # p /\ pc[q] \in Acting => {p, q} \in met'
    BY <2>1 DEF IInv, TypeOK, Meet
  <2>4. /\ Closings' = Closings /\ partials' = partials /\ Posted(ledger') = Posted(ledger)
        /\ IsFiniteSet(Posted(ledger')) /\ ClosingsMet' /\ StakeAccounted'
        /\ \A q, r \in Requests : Overlapped(q, r) => Overlapped(q, r)'
    BY <1>1, <2>3, TablesKept
  <2>5. TypeOK'
    <3>1. pc' \in [Requests -> InFlight \cup Ended \cup {"idle"}]
      BY <2>1 DEF IInv, TypeOK, InFlight, Acting
    <3> QED BY <1>1, <2>1, <2>3, <3>1 DEF IInv, TypeOK
  <2>6. CreateOK' /\ PlansOK' /\ PartsOK'
    BY <1>1, <2>2 DEF IInv, CreateOK, PlansOK, PartsOK
  <2>7. MetOK'
    <3>1. ASSUME NEW q \in Requests, NEW r \in Requests, q # r, pc'[q] \in Acting, pc'[r] \in Acting
          PROVE  {q, r} \in met'
      <4>1. CASE q # p /\ r # p
        BY <2>2, <2>3, <3>1, <4>1 DEF IInv, MetOK
      <4>2. CASE q = p
        BY <2>2, <2>3, <3>1, <4>2
      <4>3. CASE r = p
        <5>1. {q, r} = {p, q}
          BY <4>3
        <5> QED BY <2>2, <2>3, <3>1, <4>3, <5>1
      <4> QED BY <4>1, <4>2, <4>3
    <3>2. ASSUME NEW q \in Requests, NEW r \in Closings, q # r, pc'[q] \in Decided
          PROVE  {q, r} \in met'
      BY <2>2, <2>3, <3>2 DEF IInv, MetOK
    <3> QED BY <1>1, <2>4, <3>1, <3>2 DEF IInv, MetOK
  <2>8. LockKept'
    <3> SUFFICES ASSUME NEW q \in Requests, pc'[q] \in Cashing PROVE lock' = q \/ q \in lapsed'
      BY DEF LockKept
    <3>1. CASE q = p
      BY <2>1, <3>1
    <3>2. CASE q # p
      <4>1. q \in lapsed
        BY <1>3, <2>2, <3>2, NobodyAssumption DEF IInv, LockKept
      <4> QED BY <1>1, <4>1
    <3> QED BY <3>1, <3>2
  <2>9. StakeRead'
    <3>1. partials \subseteq Requests
      BY DEF IInv, TypeOK
    <3> QED BY <1>1, <2>2, <2>4, <3>1 DEF IInv, StakeRead
  <2>10. SeenOK'
    BY <1>1, <2>2 DEF IInv, SeenOK
  <2>11. MarketsOK' /\ LegsOK' /\ ResultsOK'
    BY <1>1, <2>2, ResultsKept DEF Settlers, Unread
  <2> QED BY <2>4, <2>5, <2>6, <2>7, <2>8, <2>9, <2>10, <2>11 DEF IInv
<1> QED BY <1>2, <1>3

\* The transaction of a cashout opens and reads the wallet.
LEMMA CashoutOpenIInv ==
    ASSUME IInv, NEW p \in Requests, CashoutOpen(p)
    PROVE  IInv'
<1>1. /\ pc[p] = "cashing" /\ pc' = [pc EXCEPT ![p] = "paying"]
      /\ seen' = [seen EXCEPT ![p] = wallet[Owner]]
      /\ UNCHANGED <<wallet, ledger, bet, partials, sold, market, started, raced, swept, lock,
                     plan, legs, met, lapsed>>
  BY DEF CashoutOpen, Goto, betVars, worldVars, ownVars
<1>2. /\ \A q \in Requests : pc'[q] = IF q = p THEN "paying" ELSE pc[q]
      /\ \A q \in Requests : seen'[q] = IF q = p THEN wallet[Owner] ELSE seen[q]
  BY <1>1 DEF IInv, TypeOK
<1>3. \A q \in Requests : /\ pc'[q] \in Decided => pc[q] \in Decided
                          /\ pc'[q] \in Acting => pc[q] \in Acting
                          /\ pc'[q] \in Cashing => pc[q] \in Cashing
                          /\ pc'[q] # "paying" => pc[q] = pc'[q]
                          /\ pc'[q] = "paying" => pc[q] \in {"cashing", "paying"}
  BY <1>1, <1>2 DEF Decided, Acting, Cashing
<1>4. /\ Closings' = Closings /\ partials' = partials /\ Posted(ledger') = Posted(ledger)
      /\ IsFiniteSet(Posted(ledger')) /\ ClosingsMet' /\ StakeAccounted'
      /\ \A q, r \in Requests : Overlapped(q, r) => Overlapped(q, r)'
  BY <1>1, TablesKept
<1>5. wallet[Owner] \in Wallet /\ wallet[Owner].version \in Nat
  BY TableTypes
<1>6. TypeOK'
  <2>1. pc' \in [Requests -> InFlight \cup Ended \cup {"idle"}]
    BY <1>1 DEF IInv, TypeOK, InFlight, Acting
  <2>2. seen' \in [Requests -> Wallet \cup {NoWallet}]
    BY <1>1, <1>5 DEF IInv, TypeOK
  <2> QED BY <1>1, <2>1, <2>2 DEF IInv, TypeOK
<1>7. CreateOK' /\ PlansOK' /\ PartsOK'
  BY <1>1, <1>3 DEF IInv, CreateOK, PlansOK, PartsOK, Divides
<1>8. MetOK' /\ LockKept'
  BY <1>1, <1>3, <1>4 DEF IInv, MetOK, LockKept
<1>9. StakeRead'
  <2>1. partials \subseteq Requests
    BY DEF IInv, TypeOK
  <2> QED BY <1>1, <1>3, <1>4, <2>1 DEF IInv, StakeRead
<1>10. SeenOK'
  BY <1>1, <1>2, <1>5 DEF IInv, SeenOK
<1>11. MarketsOK' /\ LegsOK' /\ ResultsOK'
  BY <1>1, <1>2, ResultsKept DEF Settlers, Unread
<1> QED BY <1>4, <1>6, <1>7, <1>8, <1>9, <1>10, <1>11 DEF IInv

\* The key expires; the cashout that held it is on record.
LEMMA ExpireIInv ==
    ASSUME IInv, Expire
    PROVE  IInv'
<1>1. /\ lock' = Nobody /\ lapsed' = lapsed \cup {p \in {lock} : pc[p] \in InFlight}
      /\ UNCHANGED <<wallet, ledger, bet, partials, sold, market, started, raced, swept, pc,
                     plan, legs, seen, met>>
      /\ lock \in Requests
  BY DEF Expire, betVars, worldVars, ownVars, IInv, TypeOK
<1>2. /\ Closings' = Closings /\ partials' = partials /\ Posted(ledger') = Posted(ledger)
      /\ IsFiniteSet(Posted(ledger')) /\ ClosingsMet' /\ StakeAccounted'
      /\ \A q, r \in Requests : Overlapped(q, r) => Overlapped(q, r)'
  BY <1>1, TablesKept
<1>3. TypeOK'
  BY <1>1 DEF IInv, TypeOK
<1>4. CreateOK' /\ PlansOK' /\ PartsOK' /\ MetOK' /\ SeenOK'
  BY <1>1, <1>2 DEF IInv, CreateOK, PlansOK, PartsOK, MetOK, SeenOK
<1>7. MarketsOK' /\ LegsOK' /\ ResultsOK'
  BY <1>1, ResultsKept
<1>5. LockKept'
  BY <1>1 DEF IInv, LockKept, Cashing, InFlight, Acting
<1>6. StakeRead'
  <2>1. partials \subseteq Requests
    BY DEF IInv, TypeOK
  <2> QED BY <1>1, <1>2, <2>1 DEF IInv, StakeRead
<1> QED BY <1>2, <1>3, <1>4, <1>5, <1>6, <1>7 DEF IInv

\* A market keeps its result or gets a new one, which whoever is between its reads misses.
LEMMA MarketIInv ==
    ASSUME IInv, NEW m \in Markets, NEW row, WriteMarket(m, row),
           row \in [status : {"OPEN", "SUSPENDED", "SETTLED"}, suspended : BOOLEAN,
                    won : {"null", "yes", "no"}, settled : 0 .. MaxSettles],
           row.status = "SETTLED" => row.settled > 0,
           \/ row.settled = market[m].settled /\ row.won = market[m].won /\ raced' = raced
           \/ /\ row.settled = market[m].settled + 1 /\ row.won # "null"
              /\ raced' = raced \cup {<<p, m>> : p \in {q \in Requests : pc[q] = "markets"}}
    PROVE  IInv'
<1>1. /\ market' = [market EXCEPT ![m] = row] /\ swept' \subseteq swept
      /\ UNCHANGED <<wallet, ledger, bet, partials, sold, started, lock, pc, plan, legs, seen,
                     met, lapsed>>
  BY DEF WriteMarket, betVars, ownVars
<1>2. \A n \in Markets : /\ market'[n] = IF n = m THEN row ELSE market[n]
                         /\ market[n].settled \in Nat
  BY <1>1, SweepersAssumption DEF IInv, TypeOK
<1>3. /\ Closings' = Closings /\ partials' = partials /\ Posted(ledger') = Posted(ledger)
      /\ IsFiniteSet(Posted(ledger')) /\ ClosingsMet' /\ StakeAccounted'
      /\ \A q, r \in Requests : Overlapped(q, r) => Overlapped(q, r)'
  BY <1>1, TablesKept
<1>4. TypeOK'
  <2>1. swept' \subseteq Sweepers /\ raced' \subseteq Requests \X Markets
    BY <1>1 DEF IInv, TypeOK
  <2> QED BY <1>1, <2>1 DEF IInv, TypeOK
<1>5. CreateOK' /\ PlansOK' /\ PartsOK' /\ MetOK' /\ SeenOK' /\ LockKept'
  BY <1>1, <1>3 DEF IInv, CreateOK, PlansOK, PartsOK, MetOK, SeenOK, LockKept
<1>6. StakeRead'
  <2>1. partials \subseteq Requests
    BY DEF IInv, TypeOK
  <2> QED BY <1>1, <1>3, <2>1 DEF IInv, StakeRead
<1>7. MarketsOK'
  <2> SUFFICES ASSUME NEW n \in Markets
               PROVE  /\ market'[n].won = "null" <=> market'[n].settled = 0
                      /\ market'[n].status = "SETTLED" => market'[n].settled > 0
    BY DEF MarketsOK
  <2> QED BY <1>2 DEF IInv, MarketsOK
<1>8. LegsOK'
  <2> SUFFICES ASSUME NEW q \in Requests, NEW n \in Markets
               PROVE  /\ <<q, n>> \in raced' =>
                            /\ market'[n].settled > 0
                            /\ pc[q] \notin {"idle", "create", "sweeping", "legs"}
                      /\ pc[q] = "markets" /\ legs[q][n] = "null" =>
                            market'[n].settled = 0 \/ <<q, n>> \in raced'
                      /\ pc[q] = "markets" /\ legs[q][n] # "null" =>
                            \/ market'[n].settled > 1
                            \/ /\ market'[n].settled = 1 /\ legs[q][n] = market'[n].won
                               /\ <<q, n>> \notin raced'
    BY <1>1 DEF LegsOK
  <2>1. /\ <<q, n>> \in raced =>
              market[n].settled > 0 /\ pc[q] \notin {"idle", "create", "sweeping", "legs"}
        /\ pc[q] = "markets" /\ legs[q][n] = "null" =>
              market[n].settled = 0 \/ <<q, n>> \in raced
        /\ pc[q] = "markets" /\ legs[q][n] # "null" =>
              \/ market[n].settled > 1
              \/ /\ market[n].settled = 1 /\ legs[q][n] = market[n].won
                 /\ <<q, n>> \notin raced
    BY DEF IInv, LegsOK
  <2>2. CASE n # m
    <3>1. <<q, n>> \in raced' <=> <<q, n>> \in raced
      BY <2>2
    <3> QED BY <1>2, <2>1, <2>2, <3>1
  <2>3. CASE n = m /\ row.settled = market[m].settled /\ row.won = market[m].won /\ raced' = raced
    BY <1>2, <2>1, <2>3
  <2>4. CASE /\ n = m /\ row.settled = market[m].settled + 1
             /\ raced' = raced \cup {<<p, m>> : p \in {r \in Requests : pc[r] = "markets"}}
    <3>1. <<q, n>> \in raced' <=> <<q, n>> \in raced \/ pc[q] = "markets"
      BY <2>4
    <3> QED BY <1>2, <2>1, <2>4, <3>1
  <2> QED BY <2>2, <2>3, <2>4
<1>9. ASSUME NEW q \in Requests, Resulted(q)
      PROVE  Resulted(q)'
  <2>1. \A n \in Markets : market[n].settled > 0 /\ market'[n].settled > 0
    BY <1>2, <1>9 DEF Resulted
  <2>2. ASSUME SettledOnce' PROVE Agrees(q)'
    <3>1. row.settled <= 1
      BY <1>2, <2>2 DEF SettledOnce
    <3>2. row.settled = market[m].settled /\ row.won = market[m].won /\ raced' = raced
      BY <1>2, <2>1, <3>1
    <3>3. \A n \in Markets : market'[n].won = market[n].won /\ market[n].settled <= 1
      BY <1>2, <2>2, <3>2 DEF SettledOnce
    <3> QED BY <1>1, <1>9, <3>2, <3>3 DEF Resulted, SettledOnce, Agrees
  <2> QED BY <2>1, <2>2 DEF Resulted
<1>10. ResultsOK'
  <2>1. \A q \in Requests : pc'[q] \in {"settling", "voiding"} => Resulted(q)'
    BY <1>1, <1>9 DEF IInv, ResultsOK
  <2>2. bet'.status \in {"WON", "LOST", "VOID"} =>
           \E q \in Requests : pc'[q] = "done" /\ plan'[q].status = bet'.status /\ Resulted(q)'
    BY <1>1, <1>9 DEF IInv, ResultsOK
  <2> HIDE DEF Resulted
  <2> QED BY <2>1, <2>2 DEF ResultsOK
<1> QED BY <1>3, <1>4, <1>5, <1>6, <1>7, <1>8, <1>10 DEF IInv

LEMMA WorldSteps ==
    ASSUME IInv,
           Kickoff \/ \E m \in Markets : SuspendMarket(m) \/ ResumeMarket(m) \/ SettleMarket(m)
    PROVE  IInv'
<1>1. \A m \in Markets :
         /\ market[m] \in [status : {"OPEN", "SUSPENDED", "SETTLED"}, suspended : BOOLEAN,
                           won : {"null", "yes", "no"}, settled : 0 .. MaxSettles]
         /\ market[m].settled \in Nat
  BY SweepersAssumption DEF IInv, TypeOK
<1>2. ASSUME NEW m \in Markets, SuspendMarket(m)
      PROVE  IInv'
  BY <1>1, <1>2, MarketIInv DEF SuspendMarket
<1>3. ASSUME NEW m \in Markets, ResumeMarket(m)
      PROVE  IInv'
  BY <1>1, <1>3, MarketIInv DEF ResumeMarket
<1>4. ASSUME NEW m \in Markets, SettleMarket(m)
      PROVE  IInv'
  <2>1. PICK won \in {"yes", "no"} :
           WriteMarket(m, [market[m] EXCEPT !.status = "SETTLED", !.won = won, !.settled = @ + 1])
    BY <1>4 DEF SettleMarket
  <2>6. raced' = raced \cup {<<p, m>> : p \in {q \in Requests : pc[q] = "markets"}}
    BY <1>4 DEF SettleMarket
  <2> DEFINE row == [market[m] EXCEPT !.status = "SETTLED", !.won = won, !.settled = @ + 1]
  <2>5. market[m].settled \in Nat /\ market[m].settled < MaxSettles /\ MaxSettles \in Nat
    BY <1>1, <1>4, SweepersAssumption DEF SettleMarket
  <2>2. market[m].settled + 1 \in 0 .. MaxSettles
    BY <2>5
  <2>3. /\ row \in [status : {"OPEN", "SUSPENDED", "SETTLED"}, suspended : BOOLEAN,
                    won : {"null", "yes", "no"}, settled : 0 .. MaxSettles]
        /\ row.settled = market[m].settled + 1 /\ row.settled > 0 /\ row.won # "null"
    <3> DEFINE n == market[m].settled + 1
               set == [market[m] EXCEPT !.status = "SETTLED", !.won = won, !.settled = n]
    <3>1. row = set
      OBVIOUS
    <3>2. n \in 0 .. MaxSettles /\ n > 0 /\ n = market[m].settled + 1
      BY <2>2, <2>5
    <3> HIDE DEF n, row
    <3>3. set \in [status : {"OPEN", "SUSPENDED", "SETTLED"}, suspended : BOOLEAN,
                  won : {"null", "yes", "no"}, settled : 0 .. MaxSettles]
      BY <1>1, <3>2
    <3>4. set.settled = n /\ set.won = won
      BY <1>1
    <3> QED BY <3>1, <3>2, <3>3, <3>4
  <2>4. WriteMarket(m, row)
    BY <2>1
  <2> HIDE DEF row
  <2> QED BY <2>3, <2>4, <2>6, MarketIInv
<1>5. ASSUME Kickoff
      PROVE  IInv'
  <2>1. /\ UNCHANGED <<wallet, ledger, bet, partials, sold, market, raced, swept, lock, pc, plan,
                       legs, seen, met, lapsed>>
        /\ started' \in BOOLEAN
    BY <1>5 DEF Kickoff, betVars, ownVars
  <2>2. /\ Closings' = Closings /\ partials' = partials /\ Posted(ledger') = Posted(ledger)
        /\ IsFiniteSet(Posted(ledger')) /\ ClosingsMet' /\ StakeAccounted'
        /\ \A q, r \in Requests : Overlapped(q, r) => Overlapped(q, r)'
    BY <2>1, TablesKept
  <2>3. TypeOK' /\ CreateOK' /\ PlansOK' /\ PartsOK' /\ LockKept' /\ SeenOK'
    BY <2>1 DEF IInv, TypeOK, CreateOK, PlansOK, PartsOK, LockKept, SeenOK
  <2>4. MetOK'
    BY <2>1, <2>2 DEF IInv, MetOK
  <2>6. MarketsOK' /\ LegsOK' /\ ResultsOK'
    BY <2>1, ResultsKept
  <2>5. StakeRead'
    <3>1. partials \subseteq Requests
      BY DEF IInv, TypeOK
    <3> QED BY <2>1, <2>2, <3>1 DEF IInv, StakeRead
  <2> QED BY <2>2, <2>3, <2>4, <2>5, <2>6 DEF IInv
<1> QED BY <1>2, <1>3, <1>4, <1>5

-------------------------------------------------------------------------------
\* The transactions.

\* The bet's transaction: the rows it completes are reservations, and the gap opens
\* by the stake.
LEMMA StoreGap ==
    ASSUME IInv, NEW p \in Requests, StoreBet(p)
    PROVE  /\ Versioned /\ Grows(ledger, ledger', p) /\ Posted(ledger') = Posted(ledger)
           /\ Gap(wallet', ledger') = Gap(wallet, ledger) - Stake
<1> DEFINE R == {t \in Reservations(ledger, PreCheck) : ledger[t].user = Owner}
           c == wallet[Owner].balance - Stake
           done(t) == [ledger[t] EXCEPT !.ref = p, !.status = "COMPLETED", !.after = c]
           w == [balance |-> c, reserved |-> wallet[Owner].reserved - Stake,
                 version |-> wallet[Owner].version + 1]
<1>1. /\ ledger \in Ledgers /\ IsFiniteSet(Posted(ledger)) /\ Owner \in Users
      /\ wallet[Owner].balance \in Int /\ wallet[Owner].reserved \in Int
      /\ wallet[Owner].version \in Nat /\ wallet \in [Users -> Wallet] /\ Stake \in Nat
  BY TableTypes
<1>2. /\ wallet' = [wallet EXCEPT ![Owner] = w]
      /\ ledger' = [t \in Requests |-> IF t \in R THEN done(t) ELSE ledger[t]]
  BY DEF StoreBet
<1>3. c \in Int /\ w \in Wallet /\ w.version = wallet[Owner].version + 1 /\ w.balance = c
  BY <1>1 DEF Wallet
<1>4. \A t \in R : /\ t \in Requests /\ t \in Posted(ledger) /\ ledger[t] \in Row
                   /\ ledger[t].type = "BET_PLACEMENT"
  BY <1>1, PostedRow DEF Reservations, Posted
<1>5. \A t \in R : done(t) \in Row /\ done(t).type = "BET_PLACEMENT"
  <2> HIDE DEF R, c, w
  <2> QED BY <1>3, <1>4 DEF Row, Refs, Statuses
<1> HIDE DEF R, c, w, done
<1>6. ledger' \in Ledgers
  BY <1>1, <1>2, <1>5 DEF Ledgers
<1>7. \A t \in Requests : ledger'[t] = IF t \in R THEN done(t) ELSE ledger[t]
  BY <1>2
<1>8. Posted(ledger') = Posted(ledger)
  <2>1. \A t \in Requests : t \in Posted(ledger') <=> t \in Posted(ledger)
    BY <1>1, <1>4, <1>5, <1>6, <1>7, PostedRow
  <2> QED BY <2>1 DEF Posted
<1>9. \A t \in Posted(ledger) :
         /\ ledger'[t].type = ledger[t].type
         /\ ledger[t].type # "BET_PLACEMENT" => ledger'[t] = ledger[t]
  BY <1>4, <1>5, <1>7 DEF Posted
<1>10. Moved(ledger', Owner) = Moved(ledger, Owner)
  <2> DEFINE m == ledger'
  <2>1. {t \in Posted(m) : m[t].user = Owner /\ m[t].type # "BET_PLACEMENT"} =
            {t \in Posted(ledger) : ledger[t].user = Owner /\ ledger[t].type # "BET_PLACEMENT"}
    BY <1>8, <1>9
  <2>2. \A t \in Posted(ledger) : ledger[t].type # "BET_PLACEMENT" => m[t].amount = ledger[t].amount
    BY <1>9
  <2> HIDE DEF m
  <2>3. Moved(m, Owner) = Moved(ledger, Owner)
    BY <1>1, <2>1, <2>2, MovedSame
  <2> QED BY <2>3 DEF m
<1>11. Versioned /\ wallet'[Owner].balance = c
  BY <1>1, <1>2, <1>3 DEF Versioned
<1>12. Gap(wallet', ledger') = Gap(wallet, ledger) - Stake
  <2>1. Moved(ledger, Owner) \in Int
    BY <1>1, MovedType
  <2>2. c = wallet[Owner].balance - Stake
    BY DEF c
  <2> QED BY <1>1, <1>10, <1>11, <2>1, <2>2 DEF Gap
<1> QED BY <1>1, <1>6, <1>8, <1>9, <1>11, <1>12 DEF Grows

\* The wallet a cashout read has the balance of now or an older version.
LEMMA SeenKept ==
    ASSUME IInv, Versioned, NEW p \in Requests, pc[p] = "paying"
    PROVE  /\ seen[p] \in Wallet
           /\ seen[p].version <= wallet'[Owner].version
           /\ seen[p].version = wallet'[Owner].version => seen[p].balance = wallet'[Owner].balance
<1>1. /\ seen[p] \in Wallet /\ seen[p].version <= wallet[Owner].version
      /\ seen[p].version = wallet[Owner].version => seen[p].balance = wallet[Owner].balance
  BY DEF IInv, SeenOK
<1>2. seen[p].version \in Nat /\ wallet[Owner].version \in Nat /\ wallet'[Owner].version \in Nat
  BY <1>1, TableTypes DEF Versioned, Wallet
<1> QED BY <1>1, <1>2 DEF Versioned

\* The bet is stored, or refused, or another operation uses the wallet: nothing is
\* closed, sold or read.
LEMMA OtherIInv ==
    ASSUME IInv, NEW p \in Requests, NEW l \in {"done", "failed"}, pc[p] \in {"idle", "create"},
           pc' = [pc EXCEPT ![p] = l], Versioned, Grows(ledger, ledger', p),
           p \in Posted(ledger) \/ p \notin Posted(ledger')
             \/ ledger'[p].type \in {"DEPOSIT", "WITHDRAWAL", "ROLLBACK"},
           UNCHANGED bet
             \/ (pc[p] = "create" /\ bet' = [bet EXCEPT !.status = "ACCEPTED"]),
           UNCHANGED <<partials, sold, market, started, raced, swept, lock, plan, legs, seen,
                       met, lapsed>>
    PROVE  IInv'
<1>1. \A q \in Requests : pc'[q] = IF q = p THEN l ELSE pc[q]
  BY DEF IInv, TypeOK
<1>2. \A q \in Requests :
         pc'[q] \in InFlight => q # p /\ pc[q] = pc'[q]
  BY <1>1 DEF InFlight, Acting
<1>3. /\ ledger' \in Ledgers /\ IsFiniteSet(Posted(ledger'))
      /\ Posted(ledger) \subseteq Posted(ledger') /\ Posted(ledger') \subseteq Posted(ledger) \cup {p}
      /\ \A t \in Posted(ledger) : ledger'[t].type = ledger[t].type
  BY DEF Grows
<1>4. Closings' = Closings /\ partials' = partials
  BY <1>3 DEF Closings
<1>5. bet'.stake = bet.stake /\ (UNCHANGED bet \/ (bet.status = "NONE" /\ bet'.status = "ACCEPTED"))
  <2>1. CASE pc[p] = "create" /\ bet' = [bet EXCEPT !.status = "ACCEPTED"]
    BY <2>1 DEF IInv, TypeOK, CreateOK
  <2>2. CASE UNCHANGED bet
    BY <2>2
  <2> QED BY <2>1, <2>2
<1>6. TypeOK'
  <2>1. pc' \in [Requests -> InFlight \cup Ended \cup {"idle"}]
    BY DEF IInv, TypeOK, Ended
  <2>2. bet' \in [status : BetStatuses, stake : 0 .. Stake]
    BY DEF IInv, TypeOK, BetStatuses
  <2> QED BY <1>3, <2>1, <2>2 DEF IInv, TypeOK, Versioned
<1>7. CreateOK'
  <2> SUFFICES ASSUME NEW q \in Requests, pc'[q] = "create" PROVE q = TheBet /\ bet'.status = "NONE"
    BY DEF CreateOK
  <2>1. q # p /\ pc[q] = "create"
    BY <1>2 DEF InFlight
  <2>2. q = TheBet /\ bet.status = "NONE" /\ pc[p] # "create"
    BY <2>1 DEF IInv, CreateOK
  <2> QED BY <2>2
<1>8. \A q \in Requests : pc'[q] \in Decided \cup Acting \cup Cashing => q # p /\ pc[q] = pc'[q]
  BY <1>2 DEF Decided, Acting, Cashing, InFlight
<1>9. PlansOK' /\ PartsOK'
  <2>1. PlansOK'
    BY <1>5, <1>8 DEF IInv, PlansOK
  <2>2. \A q \in Requests : pc'[q] \in {"cashing", "paying"} => pc[q] = pc'[q]
    BY <1>8 DEF Acting
  <2> QED BY <2>1, <2>2 DEF IInv, PartsOK
<1>10. MetOK'
  BY <1>4, <1>5, <1>8 DEF IInv, MetOK
<1>11. LockKept'
  BY <1>8 DEF IInv, LockKept
<1>12. StakeRead'
  <2>1. \A q \in Requests : pc'[q] \in {"checking", "cashing", "paying"} => pc[q] = pc'[q]
    BY <1>8 DEF Acting
  <2>2. \A q, r : Overlapped(q, r) => Overlapped(q, r)'
    BY DEF Overlapped
  <2> QED BY <1>3, <1>4, <1>5, <2>1, <2>2 DEF IInv, StakeRead
<1>13. SeenOK'
  <2>1. \A q \in Requests : pc'[q] = "paying" => pc[q] = "paying"
    BY <1>8 DEF Acting
  <2> QED BY <2>1, SeenKept DEF SeenOK
<1>14. MarketsOK' /\ LegsOK' /\ ResultsOK'
  <2>1. bet'.status = bet.status \/ bet'.status \notin {"WON", "LOST", "VOID"}
    BY <1>5
  <2> QED BY <1>1, <2>1, ResultsKept DEF Settlers, Unread
<1>15. ClosingsMet'
  BY <1>4 DEF IInv, ClosingsMet
<1>16. StakeAccounted'
  BY <1>4, <1>5 DEF IInv, StakeAccounted
<1> QED BY <1>3, <1>6, <1>7, <1>9, <1>10, <1>11, <1>12, <1>13, <1>14, <1>15, <1>16 DEF IInv

LEMMA OtherSteps ==
    ASSUME IInv, NEW p \in Requests, StoreBet(p) \/ StoreFails(p) \/ OtherWallet(p)
    PROVE  IInv'
<1>1. CASE StoreBet(p)
  <2>1. /\ pc[p] = "create" /\ pc' = [pc EXCEPT ![p] = "done"]
        /\ bet' = [bet EXCEPT !.status = "ACCEPTED"]
        /\ UNCHANGED <<partials, sold, market, started, raced, swept, lock, plan, legs, seen,
                       met, lapsed>>
    BY <1>1 DEF StoreBet, Goto, worldVars, ownVars
  <2>2. Versioned /\ Grows(ledger, ledger', p) /\ Posted(ledger') = Posted(ledger)
    BY <1>1, StoreGap
  <2> QED BY <2>1, <2>2, OtherIInv
<1>2. CASE StoreFails(p)
  <2>1. /\ pc[p] = "create" /\ pc' = [pc EXCEPT ![p] = "failed"]
        /\ Release(Owner, Stake) \/ UNCHANGED <<wallet, ledger>>
        /\ UNCHANGED <<bet, partials, sold, market, started, raced, swept, lock, plan, legs,
                       seen, met, lapsed>>
    BY <1>2 DEF StoreFails, Goto, betVars, worldVars, ownVars
  <2>2. Versioned /\ Grows(ledger, ledger', p) /\ Posted(ledger') = Posted(ledger)
    <3>1. CASE Release(Owner, Stake)
      BY <3>1, ReleaseGap
    <3>2. CASE UNCHANGED <<wallet, ledger>>
      BY <3>2, TableTypes DEF Versioned, Grows, Posted
    <3> QED BY <2>1, <3>1, <3>2
  <2> QED BY <2>1, <2>2, OtherIInv
<1>3. CASE OtherWallet(p)
  <2>1. /\ pc[p] = "idle" /\ pc' = [pc EXCEPT ![p] = "done"]
        /\ UNCHANGED <<bet, partials, sold, market, started, raced, swept, lock, plan, legs,
                       seen, met, lapsed>>
    BY <1>3 DEF OtherWallet, Goto, betVars, worldVars, ownVars
  <2>2. /\ Versioned /\ Grows(ledger, ledger', p)
        /\ ledger'[p].type \in {"DEPOSIT", "WITHDRAWAL", "ROLLBACK"}
    BY <1>3, OtherMoves
  <2> QED BY <2>1, <2>2, OtherIInv
<1> QED BY <1>1, <1>2, <1>3

\* p closes the bet as it decided to when it read it, with a row if it pays.
Closes(p, l) ==
    /\ \/ pc[p] \in {"settling", "voiding", "cancelling"} /\ l = "done"
       \/ pc[p] = "paying" /\ plan[p].status = "CASHED_OUT" /\ l = "unlock"
    /\ pc' = [pc EXCEPT ![p] = l] /\ bet' = [bet EXCEPT !.status = plan[p].status]
    /\ Versioned /\ Grows(ledger, ledger', p)
    /\ seen' = seen \/ seen' = [seen EXCEPT ![p] = NoWallet]
    /\ UNCHANGED <<partials, sold, market, started, raced, swept, lock, plan, legs, met, lapsed>>

LEMMA ClosesIInv ==
    ASSUME IInv, NEW p \in Requests, NEW l, Closes(p, l)
    PROVE  IInv'
<1> USE DEF Closes
<1>1. /\ \A q \in Requests : pc'[q] = IF q = p THEN l ELSE pc[q]
      /\ \A q \in Requests : q # p => seen'[q] = seen[q]
      /\ pc[p] \in {"settling", "voiding", "cancelling", "paying"} /\ l \in {"done", "unlock"}
      /\ l = "unlock" => pc[p] = "paying"
  BY DEF IInv, TypeOK
<1>2. /\ bet'.status = plan[p].status /\ bet'.stake = bet.stake
      /\ plan[p].status \in {"WON", "LOST", "VOID", "CANCELLED", "CASHED_OUT"}
      /\ plan[p].status \in {"WON", "LOST", "VOID"} => pc[p] \in Settlers /\ l = "done"
      /\ bet' \in [status : BetStatuses, stake : 0 .. Stake]
  <2>1. pc[p] \in Decided /\ bet \in [status : BetStatuses, stake : 0 .. Stake]
    BY <1>1 DEF Decided, Acting, IInv, TypeOK
  <2>2. /\ plan[p].status \in {"WON", "LOST", "VOID", "CANCELLED", "CASHED_OUT"}
        /\ plan[p].status \in {"WON", "LOST", "VOID"} => pc[p] \in Settlers /\ l = "done"
    BY <1>1, <2>1 DEF IInv, PlansOK, Settlers
  <2> QED BY <2>1, <2>2 DEF BetStatuses
<1>3. /\ ledger' \in Ledgers /\ IsFiniteSet(Posted(ledger'))
      /\ Posted(ledger) \subseteq Posted(ledger') /\ Posted(ledger') \subseteq Posted(ledger) \cup {p}
      /\ \A t \in Posted(ledger) : ledger'[t].type = ledger[t].type
  BY DEF Grows
<1>4. Closings' \subseteq Closings \cup {p} /\ partials' = partials
  BY <1>3 DEF Closings
<1>5. \A q \in Requests : /\ pc'[q] \in Decided => q # p /\ pc[q] = pc'[q]
                          /\ pc'[q] \in Acting => pc[q] \in Acting
                          /\ pc'[q] \in Cashing => pc[q] \in Cashing
                          /\ pc'[q] \notin {"done", "unlock"} => q # p /\ pc[q] = pc'[q]
  BY <1>1 DEF Decided, Acting, Cashing
<1>6. pc[p] \in Acting /\ pc[p] \in Decided
  BY <1>1 DEF Acting, Decided
<1>7. TypeOK'
  <2>1. pc' \in [Requests -> InFlight \cup Ended \cup {"idle"}]
    BY <1>1 DEF IInv, TypeOK, Ended, InFlight, Acting
  <2>2. seen' \in [Requests -> Wallet \cup {NoWallet}]
    BY DEF IInv, TypeOK
  <2> QED BY <1>2, <1>3, <2>1, <2>2 DEF IInv, TypeOK, Versioned
<1>8. CreateOK'
  <2>1. \A q \in Requests : pc[q] = "create" => FALSE
    BY <1>6 DEF IInv, CreateOK, PlansOK
  <2> QED BY <1>5, <2>1 DEF CreateOK
<1>9. PlansOK' /\ PartsOK'
  BY <1>2, <1>5 DEF IInv, PlansOK, PartsOK
<1>10. \A q \in Requests, r \in Closings' :
          q # r /\ (q = p \/ pc[q] \in Decided) => {q, r} \in met
  <2> SUFFICES ASSUME NEW q \in Requests, NEW r \in Closings', q # r, q = p \/ pc[q] \in Decided
               PROVE  {q, r} \in met
    OBVIOUS
  <2>1. pc[q] \in Decided /\ pc[q] \in Acting
    BY <1>6 DEF Decided, Acting
  <2>2. CASE r \in Closings
    BY <2>1, <2>2 DEF IInv, MetOK
  <2>3. CASE r = p
    BY <1>6, <2>1, <2>3 DEF IInv, MetOK
  <2> QED BY <1>4, <2>2, <2>3
<1>11. MetOK'
  BY <1>2, <1>5, <1>10 DEF IInv, MetOK
<1>12. ClosingsMet'
  <2> SUFFICES ASSUME NEW q \in Closings', NEW r \in Closings', q # r
               PROVE  {q, r} \in met
    BY DEF ClosingsMet
  <2>1. CASE q \in Closings /\ r \in Closings
    BY <2>1 DEF IInv, ClosingsMet
  <2>2. CASE q = p
    BY <1>10, <2>2
  <2>3. CASE r = p
    <3>1. {q, r} = {p, q}
      BY <2>3
    <3> QED BY <1>10, <2>3, <3>1
  <2> QED BY <1>4, <2>1, <2>2, <2>3
<1>13. LockKept'
  BY <1>5 DEF IInv, LockKept
<1>14. StakeRead'
  <2>1. \A q \in Requests : pc'[q] \in {"checking", "cashing", "paying"} => pc[q] = pc'[q]
    BY <1>5
  <2>2. \A q, r : Overlapped(q, r) => Overlapped(q, r)'
    BY DEF Overlapped
  <2> QED BY <1>2, <1>3, <1>4, <2>1, <2>2 DEF IInv, StakeRead
<1>15. SeenOK'
  <2>1. \A q \in Requests : pc'[q] = "paying" => pc[q] = "paying" /\ seen'[q] = seen[q]
    BY <1>1
  <2> QED BY <2>1, SeenKept DEF SeenOK
<1>16. MarketsOK' /\ LegsOK' /\ ResultsOK'
  <2>1. \/ bet'.status \notin {"WON", "LOST", "VOID"}
        \/ /\ pc[p] \in Settlers /\ pc'[p] = "done" /\ plan'[p] = plan[p]
           /\ bet'.status = plan[p].status
    BY <1>1, <1>2
  <2>2. \A q \in Requests :
           /\ pc'[q] \in Settlers => pc[q] = pc'[q] /\ plan'[q] = plan[q]
           /\ pc[q] = "done" => pc'[q] = "done" /\ plan'[q] = plan[q]
           /\ pc'[q] \in Unread => pc[q] \in Unread
           /\ pc'[q] = "markets" => pc[q] = "markets" /\ legs'[q] = legs[q]
    BY <1>1 DEF Settlers, Unread
  <2> QED BY <2>1, <2>2, ResultsKept
<1>17. StakeAccounted'
  BY <1>2, <1>4 DEF IInv, StakeAccounted
<1> QED BY <1>3, <1>7, <1>8, <1>9, <1>11, <1>12, <1>13, <1>14, <1>15, <1>16, <1>17 DEF IInv

\* A partial cashout sells a part and writes back what it had read less that part.
Sells(p) ==
    /\ pc[p] = "paying" /\ plan[p].status = "ACCEPTED" /\ pc' = [pc EXCEPT ![p] = "unlock"]
    /\ bet' = [bet EXCEPT !.stake = plan[p].left]
    /\ partials' = partials \cup {p} /\ sold' = [sold EXCEPT ![p] = plan[p].part]
    /\ Versioned /\ Grows(ledger, ledger', p)
    /\ p \notin Posted(ledger) /\ p \in Posted(ledger') /\ ledger'[p].type = "CASHOUT"
    /\ seen' = [seen EXCEPT ![p] = NoWallet]
    /\ UNCHANGED <<market, started, raced, swept, lock, plan, legs, met, lapsed>>

\* What a partial cashout that pays has read, and whom it met.
LEMMA Selling ==
    ASSUME IInv, NEW p \in Requests, Sells(p)
    PROVE  /\ plan[p].stake \in 0 .. Stake
           /\ plan[p].left \in 0 .. Stake /\ plan[p].part \in 0 .. Stake
           /\ plan[p].left + plan[p].part - plan[p].stake \in 0 .. 1
           /\ bet'.stake = plan[p].left /\ bet'.status = bet.status
           /\ \A q \in Requests : sold'[q] = IF q = p THEN plan[p].part ELSE sold[q]
           /\ p \notin partials
           /\ \A q \in Requests \ {p} :
                 pc[q] \in {"checking", "cashing", "paying"} => Overlapped(p, q)
<1> USE DEF Sells
<1>1. plan[p] \in Plan /\ plan[p].stake \in 0 .. Stake /\ Divides(plan[p]) /\ Stake \in Nat
  BY BetAssumption DEF IInv, PlansOK, PartsOK, Decided, Acting
<1>2. /\ plan[p].left \in 0 .. Stake /\ plan[p].part \in 0 .. Stake
      /\ plan[p].left + plan[p].part - plan[p].stake \in 0 .. 1
  <2>1. plan[p].left \in Nat /\ plan[p].part \in Nat
    BY <1>1 DEF Plan
  <2> QED BY <1>1, <2>1 DEF Divides
<1>3. p \notin partials
  BY DEF IInv, StakeRead
<1>4. \A q \in Requests : sold'[q] = IF q = p THEN plan[p].part ELSE sold[q]
  BY DEF IInv, TypeOK
<1>5. bet'.stake = plan[p].left /\ bet'.status = bet.status
  BY DEF IInv, TypeOK
<1>6. ASSUME NEW q \in Requests, q # p, pc[q] \in {"checking", "cashing", "paying"}
      PROVE  Overlapped(p, q)
  <2>1. {p, q} \in met
    BY <1>6 DEF IInv, MetOK, Acting
  <2>2. p \in lapsed \/ q \in lapsed
    BY <1>6 DEF IInv, LockKept, Cashing
  <2> QED BY <1>6, <2>1, <2>2 DEF Overlapped
<1> QED BY <1>1, <1>2, <1>3, <1>4, <1>5, <1>6

LEMMA SellsIInv ==
    ASSUME IInv, NEW p \in Requests, Sells(p)
    PROVE  IInv'
<1>1. /\ \A q \in Requests : pc'[q] = IF q = p THEN "unlock" ELSE pc[q]
      /\ \A q \in Requests : q # p => seen'[q] = seen[q]
  BY DEF Sells, IInv, TypeOK
<1>2. /\ plan[p].stake \in 0 .. Stake
      /\ plan[p].left \in 0 .. Stake /\ plan[p].part \in 0 .. Stake
      /\ plan[p].left + plan[p].part - plan[p].stake \in 0 .. 1
      /\ bet'.stake = plan[p].left /\ bet'.status = bet.status
      /\ \A q \in Requests : sold'[q] = IF q = p THEN plan[p].part ELSE sold[q]
      /\ p \notin partials
      /\ \A q \in Requests \ {p} :
            pc[q] \in {"checking", "cashing", "paying"} => Overlapped(p, q)
  BY Selling
<1>3. /\ ledger' \in Ledgers /\ IsFiniteSet(Posted(ledger'))
      /\ Posted(ledger') = Posted(ledger) \cup {p} /\ p \notin Posted(ledger)
      /\ \A t \in Posted(ledger) : ledger'[t].type = ledger[t].type
      /\ ledger'[p].type = "CASHOUT"
  BY DEF Sells, Grows
<1>4. /\ Stake \in Nat /\ plan[p].stake \in Nat /\ plan[p].left \in Nat
      /\ plan[p].part \in Nat
  BY <1>2, TableTypes
<1>5. /\ UNCHANGED <<market, started, raced, swept, lock, plan, legs, met, lapsed>>
      /\ Versioned /\ partials' = partials \cup {p}
  BY DEF Sells
<1>6. Closings' = Closings
  <2>1. p \notin Closings'
    BY <1>3, <1>5 DEF Closings
  <2>2. p \notin Closings
    BY <1>3 DEF Closings
  <2>3. \A t \in Posted(ledger) : t # p /\ (t \in partials' <=> t \in partials)
    BY <1>3, <1>5
  <2> QED BY <1>3, <2>1, <2>2, <2>3 DEF Closings
<1>7. \A q \in Requests : /\ pc'[q] \in Decided => q # p /\ pc[q] = pc'[q]
                          /\ pc'[q] \in Acting => pc[q] \in Acting
                          /\ pc'[q] \in Cashing => pc[q] \in Cashing
                          /\ pc'[q] # "unlock" => q # p /\ pc[q] = pc'[q]
  BY <1>1 DEF Decided, Acting, Cashing, Sells
<1>8. TypeOK'
  <2>1. pc' \in [Requests -> InFlight \cup Ended \cup {"idle"}]
    BY DEF Sells, IInv, TypeOK, InFlight, Acting
  <2>2. seen' \in [Requests -> Wallet \cup {NoWallet}]
    BY DEF Sells, IInv, TypeOK
  <2>4. bet' \in [status : BetStatuses, stake : 0 .. Stake]
    BY <1>2 DEF Sells, IInv, TypeOK
  <2>5. sold' \in [Requests -> 0 .. Stake] /\ partials' \subseteq Requests
    BY <1>2, <1>5 DEF Sells, IInv, TypeOK
  <2> QED BY <1>3, <1>5, <2>1, <2>2, <2>4, <2>5 DEF IInv, TypeOK, Versioned
<1>9. CreateOK' /\ PlansOK' /\ PartsOK' /\ LockKept'
  BY <1>2, <1>5, <1>7 DEF IInv, CreateOK, PlansOK, PartsOK, LockKept
<1>10. MetOK' /\ ClosingsMet'
  BY <1>2, <1>5, <1>6, <1>7 DEF IInv, MetOK, ClosingsMet
<1>11. StakeRead'
  <2>4. partials' \subseteq Posted(ledger')
    BY <1>3, <1>5 DEF IInv, StakeRead
  <2> SUFFICES ASSUME NEW q \in Requests, pc'[q] \in {"checking", "cashing", "paying"}
               PROVE  \E r \in partials' : Overlapped(q, r)'
    BY <2>4 DEF StakeRead
  <2>1. q \in Requests \ {p} /\ pc[q] \in {"checking", "cashing", "paying"}
    BY <1>7
  <2>2. Overlapped(p, q)
    BY <1>2, <2>1
  <2>3. Overlapped(q, p)'
    <3>1. {q, p} = {p, q}
      OBVIOUS
    <3> QED BY <1>5, <2>2, <3>1 DEF Overlapped
  <2> QED BY <1>5, <2>3
<1>12. SeenOK'
  <2>1. \A q \in Requests : pc'[q] = "paying" => pc[q] = "paying" /\ seen'[q] = seen[q]
    BY <1>1
  <2> QED BY <1>5, <2>1, SeenKept DEF SeenOK
<1>13. MarketsOK' /\ LegsOK' /\ ResultsOK'
  <2>1. pc[p] = "paying"
    BY DEF Sells
  <2> QED BY <1>1, <1>2, <1>5, <2>1, ResultsKept DEF Settlers, Unread
<1>14. StakeAccounted'
  <2>1. CASE /\ bet.stake + Total(sold, partials) - Stake \in 0 .. Cardinality(partials)
             /\ plan[p].stake = bet.stake
    <3> DEFINE S == partials \cup {p}
    <3>1. IsFiniteSet(partials) /\ partials \subseteq Requests
      BY TableTypes
    <3>2. /\ IsFiniteSet(S) /\ p \in S /\ S \ {p} = partials
          /\ Cardinality(S) = Cardinality(partials) + 1 /\ Cardinality(partials) \in Nat
      BY <1>2, <3>1, FS_AddElement, FS_CardinalityType
    <3>4. \A q \in S : sold'[q] \in Int
      <4>1. \A q \in Requests : sold[q] \in Int
        BY TableTypes
      <4> QED BY <1>2, <1>4, <3>1, <4>1
    <3>5. \A q \in partials : sold'[q] = sold[q]
      BY <1>2, <3>1
    <3>6. partials' = S
      BY <1>5
    <3> HIDE DEF S
    <3>7. Total(sold', S) = sold'[p] + Total(sold', partials)
      BY <3>2, <3>4, TotalSplit
    <3>8. Total(sold', partials) = Total(sold, partials)
      BY <3>1, <3>5, TotalSame
    <3>9. sold'[p] = plan[p].part
      BY <1>2
    <3>10. Total(sold, partials) \in Int
      <4>1. \A q \in partials : sold[q] \in Int
        BY <3>1, TableTypes
      <4> QED BY <3>1, <4>1, TotalInt
    <3>11. bet'.stake + Total(sold', S) - Stake \in 0 .. Cardinality(S)
      <4> DEFINE a == Total(sold, partials)
                 c == Total(sold', S)
                 x == plan[p].stake
                 y == plan[p].left
                 z == plan[p].part
                 n == Cardinality(partials)
      <4>1. /\ a \in Int /\ x \in Nat /\ y \in Nat /\ z \in Nat /\ n \in Nat /\ bet'.stake = y
            /\ c = z + a /\ y + z - x \in 0 .. 1 /\ x + a - Stake \in 0 .. n
            /\ Cardinality(S) = n + 1
        BY <1>2, <1>4, <2>1, <3>2, <3>7, <3>8, <3>9, <3>10
      <4> HIDE DEF a, c, x, y, z, n
      <4>2. y + c - Stake \in 0 .. n + 1
        BY <1>4, <4>1
      <4> QED BY <4>1, <4>2 DEF c
    <3> QED BY <3>6, <3>11 DEF StakeAccounted
  <2>2. CASE plan[p].stake # bet.stake
    <3>1. PICK q \in partials : Overlapped(p, q)
      BY <2>2 DEF Sells, IInv, StakeRead
    <3>2. q # p /\ p \in partials' /\ q \in partials'
      BY <1>5, <3>1 DEF Overlapped
    <3>3. {q, p} = {p, q}
      OBVIOUS
    <3> QED BY <1>5, <3>1, <3>2, <3>3 DEF Overlapped, StakeAccounted
  <2>3. CASE \E q \in partials \cap lapsed, t \in partials : q # t /\ {q, t} \in met
    <3>1. PICK q \in partials \cap lapsed, t \in partials : q # t /\ {q, t} \in met
      BY <2>3
    <3>2. q \in partials' \cap lapsed' /\ t \in partials' /\ met' = met
      BY <1>5, <3>1
    <3> QED BY <3>1, <3>2 DEF StakeAccounted
  <2> QED BY <2>1, <2>2, <2>3 DEF IInv, StakeAccounted
<1> QED BY <1>3, <1>8, <1>9, <1>10, <1>11, <1>12, <1>13, <1>14 DEF IInv

\* The rows of winnings and refunds say what they moved.
LEMMA PaysGap ==
    ASSUME IInv, NEW p \in Requests, pc[p] \in {"settling", "voiding", "cancelling"},
           NEW ty \in {"BET_WIN", "BET_REFUND"},
           Move(p, ledger, Owner, ty, plan[p].pays, TheBet, RandomKey(p))
    PROVE  /\ Versioned /\ Grows(ledger, ledger', p)
           /\ Gap(wallet', ledger') = Gap(wallet, ledger)
<1>1. ledger \in Ledgers /\ Owner \in Users /\ TheBet \in Requests
  BY TableTypes
<1>2. plan[p].pays \in Int
  BY DEF IInv, PlansOK, Decided, Acting, Plan
<1>3. ty \in Types /\ ty # "BET_PLACEMENT" /\ TheBet \in Refs /\ RandomKey(p) \in Keys
  BY <1>1 DEF Types, Refs, Keys, RandomKey
<1>4. Move(p, MarkRolledBack(ledger, {}), Owner, ty, plan[p].pays, TheBet, RandomKey(p))
  BY <1>1, MarkNone
<1>5. {} \in SUBSET Posted(ledger)
  OBVIOUS
<1> QED BY <1>1, <1>2, <1>3, <1>4, <1>5, MoveGap

\* The gap after a cashout is off by what had changed since it read the wallet.
LEMMA CashoutGap ==
    ASSUME IInv, NEW p \in Requests, CashoutCommit(p)
    PROVE  /\ Versioned /\ Grows(ledger, ledger', p)
           /\ p \notin Posted(ledger) /\ p \in Posted(ledger') /\ ledger'[p].type = "CASHOUT"
           /\ Gap(wallet', ledger') =
                  Gap(wallet, ledger) + (seen[p].balance - wallet[Owner].balance)
<1> DEFINE b == seen[p].balance
           d == plan[p].pays
<1>1. ledger \in Ledgers /\ Owner \in Users /\ pc[p] = "paying"
  BY TableTypes DEF CashoutCommit
<1>2. b \in Int /\ d \in Int
  BY <1>1 DEF IInv, PlansOK, SeenOK, Decided, Acting, Plan, Wallet
<1>3. "CASHOUT" \in Types /\ p \in Refs /\ RandomKey(p) \in Keys
  BY DEF Types, Refs, Keys, RandomKey
<1>4. MoveFrom(p, ledger, Owner, "CASHOUT", d, b, p, RandomKey(p))
  BY DEF CashoutCommit, MoveFrom
<1>5. MarkRolledBack(ledger, {}) = ledger /\ {} \in SUBSET Posted(ledger)
  BY <1>1, MarkNone
<1> HIDE DEF b, d
<1>6. MoveFrom(p, MarkRolledBack(ledger, {}), Owner, "CASHOUT", d, b, p, RandomKey(p))
  BY <1>4, <1>5
<1>7. /\ Versioned /\ Grows(ledger, ledger', p)
      /\ p \notin Posted(ledger) /\ p \in Posted(ledger') /\ ledger'[p].type = "CASHOUT"
      /\ Gap(wallet', ledger') = Gap(wallet, ledger)
                                   + (IF Owner = Owner THEN b - wallet[Owner].balance ELSE 0)
  BY <1>1, <1>2, <1>3, <1>5, <1>6, FromGap
<1> QED BY <1>7 DEF b

LEMMA PaySteps ==
    ASSUME IInv, NEW p \in Requests,
           SettleCommit(p) \/ VoidCommit(p) \/ CancelCommit(p) \/ CashoutCommit(p)
    PROVE  IInv'
<1>1. CASE SettleCommit(p)
  <2>1. /\ pc[p] = "settling" /\ pc' = [pc EXCEPT ![p] = "done"]
        /\ bet' = [bet EXCEPT !.status = plan[p].status]
        /\ UNCHANGED <<partials, sold, market, started, raced, swept, lock, plan, legs, seen,
                       met, lapsed>>
    BY <1>1 DEF SettleCommit, Goto, worldVars, ownVars
  <2>2. Versioned /\ Grows(ledger, ledger', p)
    <3>1. CASE plan[p].pays > 0
      BY <1>1, <2>1, <3>1, PaysGap DEF SettleCommit
    <3>2. CASE ~(plan[p].pays > 0)
      <4>1. UNCHANGED <<wallet, ledger>>
        BY <1>1, <3>2 DEF SettleCommit
      <4> QED BY <4>1, TableTypes DEF Versioned, Grows, Posted
    <3> QED BY <3>1, <3>2
  <2>3. Closes(p, "done")
    BY <2>1, <2>2 DEF Closes
  <2> QED BY <2>3, ClosesIInv
<1>2. CASE CancelCommit(p)
  <2>1. /\ pc[p] = "cancelling" /\ pc' = [pc EXCEPT ![p] = "done"]
        /\ bet' = [bet EXCEPT !.status = plan[p].status]
        /\ UNCHANGED <<partials, sold, market, started, raced, swept, lock, plan, legs, seen,
                       met, lapsed>>
    BY <1>2 DEF CancelCommit, Goto, worldVars, ownVars
  <2>2. Versioned /\ Grows(ledger, ledger', p)
    BY <1>2, <2>1, PaysGap DEF CancelCommit
  <2>3. Closes(p, "done")
    BY <2>1, <2>2 DEF Closes
  <2> QED BY <2>3, ClosesIInv
<1>3. CASE CashoutCommit(p)
  <2>1. /\ pc[p] = "paying" /\ pc' = [pc EXCEPT ![p] = "unlock"]
        /\ seen' = [seen EXCEPT ![p] = NoWallet]
        /\ UNCHANGED <<market, started, raced, swept, lock, plan, legs, met, lapsed>>
    BY <1>3 DEF CashoutCommit, Goto, worldVars, ownVars
  <2>2. /\ Versioned /\ Grows(ledger, ledger', p)
        /\ p \notin Posted(ledger) /\ p \in Posted(ledger') /\ ledger'[p].type = "CASHOUT"
    BY <1>3, CashoutGap
  <2>3. CASE plan[p].status = "CASHED_OUT"
    <3>1. bet' = [bet EXCEPT !.status = plan[p].status] /\ UNCHANGED <<partials, sold>>
      BY <1>3, <2>3 DEF CashoutCommit
    <3>2. Closes(p, "unlock")
      BY <2>1, <2>2, <2>3, <3>1 DEF Closes
    <3> QED BY <3>2, ClosesIInv
  <2>4. CASE plan[p].status # "CASHED_OUT"
    <3>1. /\ bet' = [bet EXCEPT !.stake = plan[p].left]
          /\ partials' = partials \cup {p} /\ sold' = [sold EXCEPT ![p] = plan[p].part]
      BY <1>3, <2>4 DEF CashoutCommit
    <3>2. plan[p].status = "ACCEPTED"
      BY <2>1, <2>4 DEF IInv, PlansOK, Decided, Acting
    <3>3. Sells(p)
      BY <2>1, <2>2, <3>1, <3>2 DEF Sells
    <3> QED BY <3>3, SellsIInv
  <2> QED BY <2>3, <2>4
<1>4. CASE VoidCommit(p)
  <2>1. /\ pc[p] = "voiding" /\ pc' = [pc EXCEPT ![p] = "done"]
        /\ bet' = [bet EXCEPT !.status = plan[p].status]
        /\ UNCHANGED <<partials, sold, market, started, raced, swept, lock, plan, legs, seen,
                       met, lapsed>>
    BY <1>4 DEF VoidCommit, Goto, worldVars, ownVars
  <2>2. Versioned /\ Grows(ledger, ledger', p)
    BY <1>4, <2>1, PaysGap DEF VoidCommit
  <2>3. Closes(p, "done")
    BY <2>1, <2>2 DEF Closes
  <2> QED BY <2>3, ClosesIInv
<1> QED BY <1>1, <1>2, <1>3, <1>4

\* Every step keeps the inductive invariant.
LEMMA NextIInv ==
    ASSUME IInv, [Next]_vars
    PROVE  IInv'
<1>1. ASSUME NEW p \in Requests,
             \/ SweepFind(p) \/ SettleRead(p) \/ CancelRead(p) \/ CashoutLock(p)
             \/ Advance(p) \/ Crash(p) \/ OtherWallet(p)
      PROVE  IInv'
  <2>1. CASE SweepFind(p) \/ SweepRefused(p) \/ Unlock(p) \/ Fail(p) \/ Crash(p)
    BY <2>1, QuietSteps
  <2>2. CASE SettleRead(p) \/ CancelRead(p) \/ CashoutRead(p)
    BY <2>2, ReadSteps
  <2>3. CASE CashoutLock(p)
    BY <2>3, CashoutLockIInv
  <2>4. CASE CashoutOpen(p)
    BY <2>4, CashoutOpenIInv
  <2>5. CASE StoreBet(p) \/ StoreFails(p) \/ OtherWallet(p)
    BY <2>5, OtherSteps
  <2>6. CASE SettleCommit(p) \/ VoidCommit(p) \/ CancelCommit(p) \/ CashoutCommit(p)
    BY <2>6, PaySteps
  <2>7. CASE SettleLegs(p) \/ SettleDecide(p) \/ CashoutDecide(p)
    BY <2>7, DecideSteps
  <2> QED BY <1>1, <2>1, <2>2, <2>3, <2>4, <2>5, <2>6, <2>7 DEF Advance
<1>2. CASE Expire
  BY <1>2, ExpireIInv
<1>3. CASE Kickoff \/ \E m \in Markets : SuspendMarket(m) \/ ResumeMarket(m) \/ SettleMarket(m)
  BY <1>3, WorldSteps
<1>4. CASE UNCHANGED vars
  <2>1. /\ UNCHANGED <<wallet, ledger, bet, partials, sold, market, started, raced, swept, lock,
                       pc, plan, legs, seen,
                       met, lapsed>>
    BY <1>4 DEF vars, betVars, worldVars, ownVars
  <2>2. /\ Closings' = Closings /\ partials' = partials /\ Posted(ledger') = Posted(ledger)
        /\ IsFiniteSet(Posted(ledger')) /\ ClosingsMet' /\ StakeAccounted'
        /\ \A q, r \in Requests : Overlapped(q, r) => Overlapped(q, r)'
    BY <2>1, TablesKept
  <2>3. TypeOK' /\ CreateOK' /\ PlansOK' /\ PartsOK' /\ LockKept' /\ SeenOK'
    BY <2>1 DEF IInv, TypeOK, CreateOK, PlansOK, PartsOK, LockKept, SeenOK
  <2>4. MetOK'
    BY <2>1, <2>2 DEF IInv, MetOK
  <2>6. MarketsOK' /\ LegsOK' /\ ResultsOK'
    BY <2>1, ResultsKept
  <2>5. StakeRead'
    <3>1. partials \subseteq Requests
      BY DEF IInv, TypeOK
    <3> QED BY <2>1, <2>2, <3>1 DEF IInv, StakeRead
  <2> QED BY <2>2, <2>3, <2>4, <2>5, <2>6 DEF IInv
<1> QED BY <1>1, <1>2, <1>3, <1>4 DEF Next

-------------------------------------------------------------------------------
\* What follows for every run.

\* The inductive invariant holds throughout.
THEOREM Invariance == Spec => []IInv
<1>1. IInv /\ [Next]_vars => IInv'
  BY NextIInv
<1> QED BY InitIInv, <1>1, PTL DEF Spec

\* Every column, lock, decision and history keeps its type.
THEOREM TypeCorrect == Spec => []TypeOK
<1>1. IInv => TypeOK
  BY DEF IInv
<1> QED BY <1>1, Invariance, PTL

\* Of settle, cancel and cashout, two pay the same bet out in full only if they were
\* in flight together.
THEOREM OnePayout == Spec => []ClosingsMet
<1>1. IInv => ClosingsMet
  BY DEF IInv
<1> QED BY <1>1, Invariance, PTL

\* The parts partial cashouts recorded and the stake they left make up the stake, and at
\* most a cent more for each of them, unless the lock of one of two that overlapped expired.
THEOREM StakeAccounting == Spec => []StakeAccounted
<1>1. IInv => StakeAccounted
  BY DEF IInv
<1> QED BY <1>1, Invariance, PTL

\* A settled bet agrees with the results of its markets, but for those that were settled
\* between two reads of the settleBet that settled it; if each market was settled once.
THEOREM Results == Spec => []ResultStands
<1>1. IInv => ResultStands
  <2>1. ASSUME IInv, bet.status \in {"WON", "LOST", "VOID"}, SettledOnce
        PROVE  \E p \in Requests : pc[p] = "done" /\ plan[p].status = bet.status /\ Agrees(p)
    BY <2>1 DEF IInv, ResultsOK, Resulted
  <2> QED BY <2>1 DEF ResultStands
<1> QED BY <1>1, Invariance, PTL

\* The drift changes only with the gap and with the bet's first status.
LEMMA DriftKept ==
    ASSUME IInv, NEW p, Grows(ledger, ledger', p), Versioned, NEW g \in Int,
           Gap(wallet', ledger') = Gap(wallet, ledger) - g,
           g = (IF bet'.status = "NONE" THEN 0 ELSE Stake)
                 - (IF bet.status = "NONE" THEN 0 ELSE Stake)
    PROVE  Drift' = Drift
<1> DEFINE b == wallet[Owner].balance
           c == wallet'[Owner].balance
           x == Moved(ledger, Owner)
           y == Moved(ledger', Owner)
           s == IF bet.status = "NONE" THEN 0 ELSE Stake
           t == IF bet'.status = "NONE" THEN 0 ELSE Stake
           o == Opening[Owner]
<1>1. b \in Int /\ s \in Int /\ t \in Int /\ o \in Int
  BY TableTypes, OpeningAssumption
<1>2. c \in Int
  BY TableTypes DEF Versioned, Wallet
<1>3. x \in Int
  BY TableTypes, MovedType
<1>4. y \in Int
  <2> DEFINE m == ledger'
  <2>1. m \in Ledgers /\ IsFiniteSet(Posted(m))
    BY DEF Grows
  <2> HIDE DEF m
  <2>2. Moved(m, Owner) \in Int
    BY <2>1, MovedType
  <2> QED BY <2>2 DEF m
<1>5. c - y = (b - x) - (t - s)
  BY DEF Gap
<1>6. Drift = b + s - o - x /\ Drift' = c + t - o - y
  BY DEF Drift
<1> HIDE DEF b, c, x, y, s, t, o
<1> QED BY <1>1, <1>2, <1>3, <1>4, <1>5, <1>6

LEMMA StepDrift ==
    ASSUME IInv, [Next]_vars, Drift' # Drift
    PROVE  \E p \in Requests : /\ pc[p] = "paying" /\ ledger'[p] # ledger[p]
                               /\ seen[p].version # wallet[Owner].version
<1>1. ~(UNCHANGED <<wallet, ledger, bet>>)
  BY DEF Drift, Moved, Posted
<1>2. Gap(wallet, ledger) \in Int
  BY TableTypes, MovedType DEF Gap
<1>3. PICK p \in Requests : \/ StoreBet(p) \/ StoreFails(p) \/ OtherWallet(p)
                            \/ SettleCommit(p) \/ VoidCommit(p) \/ CancelCommit(p)
                            \/ CashoutCommit(p)
  <2>1. ~(UNCHANGED vars) /\ ~Expire /\ ~Kickoff
    BY <1>1 DEF vars, Expire, Kickoff, betVars
  <2>2. ASSUME NEW m \in Markets, NEW row, WriteMarket(m, row) PROVE FALSE
    BY <1>1, <2>2 DEF WriteMarket, betVars
  <2>3. ASSUME NEW m \in Markets, SuspendMarket(m) \/ ResumeMarket(m) \/ SettleMarket(m)
        PROVE  FALSE
    BY <2>2, <2>3 DEF SuspendMarket, ResumeMarket, SettleMarket
  <2>4. ASSUME NEW p \in Requests,
               \/ SweepFind(p) \/ SettleRead(p) \/ CancelRead(p) \/ CashoutLock(p)
               \/ SweepRefused(p) \/ SettleLegs(p) \/ SettleDecide(p) \/ CashoutRead(p)
               \/ CashoutDecide(p) \/ CashoutOpen(p) \/ Unlock(p) \/ Fail(p) \/ Crash(p)
        PROVE  FALSE
    <3>1. CASE SweepFind(p) \/ SweepRefused(p) \/ Unlock(p) \/ Fail(p) \/ Crash(p)
      BY <1>1, <3>1 DEF SweepFind, SweepRefused, Unlock, Fail, Crash, betVars
    <3>2. CASE SettleRead(p) \/ CancelRead(p) \/ CashoutRead(p)
      BY <1>1, <3>2 DEF SettleRead, CancelRead, CashoutRead, betVars
    <3>3. CASE CashoutLock(p) \/ CashoutOpen(p)
      BY <1>1, <3>3 DEF CashoutLock, CashoutOpen, betVars
    <3>4. CASE SettleLegs(p) \/ SettleDecide(p) \/ CashoutDecide(p)
      BY <1>1, <3>4 DEF SettleLegs, SettleDecide, CashoutDecide, betVars
    <3> QED BY <2>4, <3>1, <3>2, <3>3, <3>4
  <2> QED BY <2>1, <2>3, <2>4 DEF Next, Advance
<1>4. CASE StoreBet(p)
  <2>1. Versioned /\ Grows(ledger, ledger', p) /\ Gap(wallet', ledger') = Gap(wallet, ledger) - Stake
    BY <1>4, StoreGap
  <2>2. bet.status = "NONE" /\ bet'.status = "ACCEPTED" /\ Stake \in Int
    <3>1. bet.status = "NONE" /\ bet' = [bet EXCEPT !.status = "ACCEPTED"]
      BY <1>4 DEF StoreBet, IInv, CreateOK
    <3>2. bet'.status = "ACCEPTED"
      BY <3>1 DEF IInv, TypeOK
    <3> QED BY <3>1, <3>2, TableTypes
  <2>3. Stake = (IF bet'.status = "NONE" THEN 0 ELSE Stake)
                  - (IF bet.status = "NONE" THEN 0 ELSE Stake)
    BY <2>2
  <2>4. Drift' = Drift
    BY <2>1, <2>2, <2>3, DriftKept
  <2> QED BY <2>4
<1>5. ASSUME Versioned, Grows(ledger, ledger', p),
             Gap(wallet', ledger') = Gap(wallet, ledger),
             bet'.status = "NONE" <=> bet.status = "NONE"
      PROVE  FALSE
  <2>1. Gap(wallet', ledger') = Gap(wallet, ledger) - 0
    BY <1>2, <1>5
  <2>2. 0 \in Int /\ 0 = (IF bet'.status = "NONE" THEN 0 ELSE Stake)
                           - (IF bet.status = "NONE" THEN 0 ELSE Stake)
    BY <1>5, TableTypes
  <2>3. Drift' = Drift
    BY <1>5, <2>1, <2>2, DriftKept
  <2> QED BY <2>3
<1>6. CASE StoreFails(p)
  <2>1. /\ Release(Owner, Stake) \/ UNCHANGED <<wallet, ledger>>
        /\ UNCHANGED bet
    BY <1>6 DEF StoreFails, betVars
  <2>2. Release(Owner, Stake)
    BY <1>1, <2>1
  <2>3. Versioned /\ Grows(ledger, ledger', p) /\ Gap(wallet', ledger') = Gap(wallet, ledger)
    BY <2>2, ReleaseGap
  <2> QED BY <1>5, <2>1, <2>3
<1>7. CASE OtherWallet(p)
  <2>1. Versioned /\ Grows(ledger, ledger', p) /\ Gap(wallet', ledger') = Gap(wallet, ledger)
    BY <1>7, OtherMoves
  <2>2. UNCHANGED bet
    BY <1>7 DEF OtherWallet, betVars
  <2> QED BY <1>5, <2>1, <2>2
<1>8. ASSUME pc[p] \in Decided PROVE bet.status # "NONE" /\ plan[p].status # "NONE"
  BY <1>8 DEF IInv, PlansOK, Plan
<1>9. CASE SettleCommit(p)
  <2>1. pc[p] = "settling" /\ bet' = [bet EXCEPT !.status = plan[p].status]
    BY <1>9 DEF SettleCommit
  <2>2. bet.status # "NONE" /\ bet'.status # "NONE"
    BY <1>8, <2>1 DEF Decided, Acting, IInv, TypeOK
  <2>3. Versioned /\ Grows(ledger, ledger', p) /\ Gap(wallet', ledger') = Gap(wallet, ledger)
    <3>1. CASE plan[p].pays > 0
      BY <1>9, <2>1, <3>1, PaysGap DEF SettleCommit
    <3>2. CASE ~(plan[p].pays > 0)
      <4>1. UNCHANGED <<wallet, ledger>>
        BY <1>9, <3>2 DEF SettleCommit
      <4> QED BY <4>1, TableTypes DEF Versioned, Grows, Posted
    <3> QED BY <3>1, <3>2
  <2> QED BY <1>5, <2>2, <2>3
<1>10. CASE CancelCommit(p)
  <2>1. pc[p] = "cancelling" /\ bet' = [bet EXCEPT !.status = plan[p].status]
    BY <1>10 DEF CancelCommit
  <2>2. bet.status # "NONE" /\ bet'.status # "NONE"
    BY <1>8, <2>1 DEF Decided, Acting, IInv, TypeOK
  <2>3. Versioned /\ Grows(ledger, ledger', p) /\ Gap(wallet', ledger') = Gap(wallet, ledger)
    BY <1>10, <2>1, PaysGap DEF CancelCommit
  <2> QED BY <1>5, <2>2, <2>3
<1>11. CASE CashoutCommit(p)
  <2>1. pc[p] = "paying"
    BY <1>11 DEF CashoutCommit
  <2>2. /\ Versioned /\ Grows(ledger, ledger', p)
        /\ p \notin Posted(ledger) /\ p \in Posted(ledger')
        /\ Gap(wallet', ledger') =
               Gap(wallet, ledger) + (seen[p].balance - wallet[Owner].balance)
    BY <1>11, CashoutGap
  <2>3. ledger'[p] # ledger[p]
    BY <2>2 DEF Posted
  <2>4. bet.status # "NONE" /\ bet'.status # "NONE"
    <3>1. bet.status # "NONE" /\ plan[p].status # "NONE"
      BY <1>8, <2>1 DEF Decided, Acting
    <3>2. \/ bet' = [bet EXCEPT !.status = plan[p].status]
          \/ bet' = [bet EXCEPT !.stake = plan[p].left]
      BY <1>11 DEF CashoutCommit
    <3> QED BY <3>1, <3>2 DEF IInv, TypeOK
  <2>5. ASSUME seen[p].version = wallet[Owner].version PROVE FALSE
    <3>1. seen[p].balance = wallet[Owner].balance
      BY <2>1, <2>5 DEF IInv, SeenOK
    <3>2. wallet[Owner].balance \in Int
      BY TableTypes
    <3>3. Gap(wallet', ledger') = Gap(wallet, ledger)
      BY <1>2, <2>2, <3>1, <3>2
    <3> QED BY <1>5, <2>2, <2>4, <3>3
  <2> QED BY <2>1, <2>3, <2>5
<1>12. CASE VoidCommit(p)
  <2>1. pc[p] = "voiding" /\ bet' = [bet EXCEPT !.status = plan[p].status]
    BY <1>12 DEF VoidCommit
  <2>2. bet.status # "NONE" /\ bet'.status # "NONE"
    BY <1>8, <2>1 DEF Decided, Acting, IInv, TypeOK
  <2>3. Versioned /\ Grows(ledger, ledger', p) /\ Gap(wallet', ledger') = Gap(wallet, ledger)
    BY <1>12, <2>1, PaysGap DEF VoidCommit
  <2> QED BY <1>5, <2>2, <2>3
<1> QED BY <1>3, <1>4, <1>6, <1>7, <1>9, <1>10, <1>11, <1>12

\* The wallet moves away from its ledger only where a cashout overwrites a wallet
\* that has changed since the cashout read it.
THEOREM OnlyStaleCashoutsDrift == Spec => DriftIsStaleCashout
<1>1. IInv /\ [Next]_vars =>
         [Drift' # Drift =>
            \E p \in Requests : /\ pc[p] = "paying" /\ ledger'[p] # ledger[p]
                                /\ seen[p].version # wallet[Owner].version]_vars
  BY StepDrift
<1> QED BY <1>1, Invariance, PTL DEF Spec, DriftIsStaleCashout
===============================================================================
