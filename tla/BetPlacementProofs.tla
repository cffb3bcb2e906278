--------------------------- MODULE BetPlacementProofs ---------------------------
(***************************************************************************)
(* Proofs about BetPlacement for every set of users, requests and amounts: *)
(* the inductive invariant, and from it that the lock keeps placements     *)
(* apart, that stakes are covered, held and charged, and that every bet    *)
(* has the row of its debit.                                               *)
(***************************************************************************)
EXTENDS BetPlacement, LedgerProofs

-------------------------------------------------------------------------------
\* Facts that follow from the invariant.

\* A request that has begun a placement has a slip with a user and a stake.
LEMMA Slip ==
    ASSUME IInv, NEW p \in Requests, pc[p] \notin {"idle", "done"}
    PROVE  slip[p].user \in Users /\ slip[p].stake \in Nat /\ slip[p].stake > 0
BY DEF IInv, TypeOK, SlipsOK, NoSlip

\* The key of a reservation is one for all, so there is at most one reservation.
LEMMA OneReservation ==
    ASSUME IInv, NEW s \in Posted(ledger), NEW t \in Posted(ledger),
           ledger[s].type = "BET_PLACEMENT", ledger[t].type = "BET_PLACEMENT"
    PROVE  s = t
BY DEF IInv, RowsOK

\* A reservation's row belongs to a placement that got past its reservation.
LEMMA Reserver ==
    ASSUME IInv, NEW t \in Posted(ledger), ledger[t].type = "BET_PLACEMENT"
    PROVE  /\ t \in Requests /\ ledger[t] \in Row
           /\ ledger[t].user = slip[t].user /\ slip[t].user \in Users
           /\ slip[t].stake \in Nat /\ slip[t].stake > 0
           /\ pc[t] \notin {"idle", "validate", "odds", "assess", "reserve", "done"}
<1>1. t \in Requests /\ ledger[t] \in Row
  BY PostedRow DEF Posted, IInv, TypeOK
<1>2. /\ ledger[t].user = slip[t].user
      /\ pc[t] \notin {"idle", "validate", "odds", "assess", "reserve", "done"}
  BY <1>1 DEF IInv, RowsOK
<1> QED BY <1>1, <1>2, Slip

\* The wallets hold numbers.
LEMMA WalletNumbers ==
    ASSUME TypeOK, NEW u \in Users
    PROVE  /\ wallet[u] \in Wallet
           /\ wallet[u].balance \in Int /\ wallet[u].reserved \in Nat
           /\ wallet[u].version \in Nat
BY DEF TypeOK, Wallet

\* A stake is a number, whether or not there is a slip yet.
LEMMA StakeNumbers ==
    ASSUME TypeOK, NEW p \in Requests
    PROVE  Stakes[p] \in Nat /\ Stakes[p] = slip[p].stake
BY DEF TypeOK, Stakes, NoSlip

-------------------------------------------------------------------------------
\* The inductive invariant.

\* No request has begun: nothing is locked, reserved, posted or bet.
LEMMA InitIInv == Init => IInv
<1> SUFFICES ASSUME Init PROVE IInv
  OBVIOUS
<1>1. Posted(ledger) = {} /\ ledger \in Ledgers
  BY DEF Init, AInit, EmptyLedger, Posted, NoRow, Ledgers
<1>2. \A u \in Users : /\ wallet[u] = OpeningWallet(u)
                       /\ wallet[u].balance = Opening[u] /\ wallet[u].reserved = 0
                       /\ Opening[u] \in Nat
  BY OpeningAssumption DEF Init, AInit, OpeningWallet
<1>3. TypeOK
  <2>1. wallet \in [Users -> [balance : Int, reserved : Nat, version : Nat]]
    BY OpeningAssumption DEF Init, AInit, OpeningWallet
  <2>2. "idle" \in InFlight \cup {"idle", "placed", "failed", "crashed", "done"} /\ "none" \in Faults
    BY DEF Faults
  <2> QED BY <1>1, <2>1, <2>2 DEF Init, TypeOK
<1>4. LockKept /\ SlipsOK
  BY DEF Init, LockKept, SlipsOK, InFlight
<1>5. RowsOK
  BY <1>1, FS_EmptySet DEF Init, RowsOK
<1>6. Solvent /\ StakeCovered /\ HeldOnce /\ DebitRecorded
  BY <1>2 DEF Init, Solvent, StakeCovered, HeldOnce, DebitRecorded
<1>7. StakesCharged
  <2> SUFFICES ASSUME NEW u \in Users
               PROVE  wallet[u].balance =
                          Opening[u] + Moved(ledger, u)
                          - Total(Stakes, {p \in bets : slip[p].user = u})
    BY DEF StakesCharged
  <2>1. Total(Stakes, {p \in bets : slip[p].user = u}) = 0
    <3>1. {p \in bets : slip[p].user = u} = {}
      BY DEF Init
    <3> QED BY <3>1, TotalEmpty
  <2>2. {t \in Posted(ledger) : ledger[t].user = u /\ ledger[t].type # "BET_PLACEMENT"} = {}
    BY <1>1
  <2>3. Moved(ledger, u) = 0
    BY <2>2, TotalEmpty DEF Moved
  <2> QED BY <1>2, <2>1, <2>3
<1> QED BY <1>3, <1>4, <1>5, <1>6, <1>7 DEF IInv

\* Placement p goes on to l, or ends, without touching money, rows or bets: what it
\* holds it keeps holding, or it is on record that it could not let go of it.
Control(p, l) ==
    /\ pc[p] \in InFlight /\ pc' = [pc EXCEPT ![p] = l]
    /\ l \in {"odds", "assess", "reserve", "catch", "unlock", "placed", "failed", "crashed"}
    /\ l \in {"odds", "assess", "reserve"} => pc[p] \in {"validate", "odds", "assess"}
    /\ pc[p] \in {"create", "catch"} =>
          l \in {"catch", "crashed"} \/ {p} \cap Posted(ledger) \subseteq kept'
    /\ fault' \in [Requests -> Faults]
    /\ kept \subseteq kept' /\ kept' \subseteq Requests
    /\ UNCHANGED <<wallet, ledger, open, slip, bets, lapsed>>
    /\ \/ UNCHANGED lock
       \/ /\ l \notin InFlight
          /\ lock' = [lock EXCEPT ![slip[p].user] = IF @ = p THEN Nobody ELSE @]

LEMMA ControlIInv ==
    ASSUME IInv, NEW p \in Requests, NEW l, Control(p, l)
    PROVE  IInv'
<1> USE DEF Control
<1>1. slip[p].user \in Users
  BY Slip DEF InFlight
<1>2. \A q \in Requests : pc'[q] = IF q = p THEN l ELSE pc[q]
  BY DEF IInv, TypeOK
<1>3. TypeOK'
  BY DEF IInv, TypeOK, InFlight
<1>4. LockKept'
  <2> SUFFICES ASSUME NEW q \in Requests, pc'[q] \in InFlight, q \notin lapsed
               PROVE  lock'[slip[q].user] = q
    BY DEF LockKept
  <2>1. pc[q] \in InFlight /\ slip[q].user \in Users
    BY <1>2, Slip DEF InFlight
  <2>2. lock[slip[q].user] = q
    BY <2>1 DEF IInv, LockKept
  <2>3. q = p => UNCHANGED lock
    BY <1>2
  <2>4. lock \in [Users -> Requests \cup {Nobody}]
    BY DEF IInv, TypeOK
  <2> QED BY <1>1, <2>1, <2>2, <2>3, <2>4
<1>5. SlipsOK'
  BY <1>2 DEF IInv, SlipsOK, InFlight
<1>6. RowsOK'
  <2>1. \A q \in Requests :
           pc'[q] \in {"idle", "validate", "odds", "assess", "reserve"}
              => q \notin Posted(ledger)
    BY <1>2 DEF IInv, RowsOK
  <2>2. \A q \in Requests :
           /\ pc'[q] = "done" => pc[q] = "done"
           /\ pc'[q] = "create" => pc[q] = "create"
    BY <1>2
  <2> QED BY <2>1, <2>2 DEF IInv, RowsOK, Posted
<1>7. Solvent' /\ DebitRecorded'
  BY DEF IInv, Solvent, DebitRecorded, Posted
<1>8. StakeCovered'
  BY <1>2 DEF IInv, StakeCovered
<1>9. HeldOnce'
  <2>1. ASSUME NEW u \in Users, NEW q \in Held(u)
        PROVE  q \in Held(u)'
    <3>1. q \in Requests /\ q \in Posted(ledger) \ bets /\ Posted(ledger') = Posted(ledger)
      BY <2>1 DEF Held, Posted
    <3>2. ledger'[q].type = "BET_PLACEMENT" /\ ledger'[q].user = u
      BY <2>1 DEF Held
    <3>3. pc[q] \in {"create", "catch", "crashed"} \/ q \in kept
      BY <2>1 DEF Held
    <3>4. pc'[q] \in {"create", "catch", "crashed"} \/ q \in kept'
      BY <1>2, <3>1, <3>3 DEF InFlight
    <3> QED BY <3>1, <3>2, <3>4 DEF Held
  <2>2. ASSUME NEW u \in Users, wallet'[u].reserved > 0
        PROVE  \E q \in Held(u)' : wallet'[u].reserved <= slip'[q].stake
    BY <2>1, <2>2 DEF IInv, HeldOnce
  <2> QED BY <2>2 DEF HeldOnce
<1>10. StakesCharged'
  BY DEF IInv, StakesCharged, Stakes, Moved, Posted
<1> QED BY <1>3, <1>4, <1>5, <1>6, <1>7, <1>8, <1>9, <1>10 DEF IInv

\* The steps that only move a placement on.
LEMMA ControlSteps ==
    ASSUME IInv, NEW p \in Requests,
           Validate(p) \/ LockOdds(p) \/ Assess(p) \/ AfterBet(p) \/ Unlock(p)
             \/ UnlockError(p) \/ Crash(p)
    PROVE  IInv'
<1>1. /\ \A q \in Requests : fault[q] \in Faults
      /\ \A f \in Faults : [fault EXCEPT ![p] = f] \in [Requests -> Faults]
      /\ fault \in [Requests -> Faults] /\ kept \subseteq Requests
  BY DEF IInv, TypeOK
<1>2. {"none", "rejected", "error"} \subseteq Faults
  BY DEF Faults
<1>3. CASE Validate(p) \/ LockOdds(p) \/ Assess(p) \/ AfterBet(p)
  <2>1. PICK l \in {"odds", "assess", "reserve", "catch", "unlock"}, f \in Faults :
           /\ l \in {"odds", "assess", "reserve"} => pc[p] \in {"validate", "odds", "assess"}
           /\ pc[p] \in {"validate", "odds", "assess", "after"}
           /\ pc' = [pc EXCEPT ![p] = l] /\ fault' = [fault EXCEPT ![p] = f]
           /\ UNCHANGED <<wallet, ledger, lock, open, slip, bets, lapsed, kept>>
    <3>1. "none" \in Faults /\ "rejected" \in Faults /\ "error" \in Faults
      BY <1>2
    <3>2. CASE Validate(p)
      BY <3>1, <3>2 DEF Validate, Leave, Goto
    <3>3. CASE LockOdds(p)
      BY <3>1, <3>3 DEF LockOdds, Leave, Goto
    <3>4. CASE Assess(p)
      BY <3>1, <3>4 DEF Assess, Leave, Goto
    <3>5. CASE AfterBet(p)
      BY <3>1, <3>5 DEF AfterBet, Leave, Goto
    <3> QED BY <1>3, <3>2, <3>3, <3>4, <3>5
  <2>2. Control(p, l)
    BY <1>1, <2>1 DEF Control, InFlight
  <2> QED BY <2>2, ControlIInv
<1>4. CASE Unlock(p)
  <2>1. PICK l \in {"placed", "failed"} : pc' = [pc EXCEPT ![p] = l]
    BY <1>4 DEF Unlock, Goto
  <2>2. Control(p, l)
    BY <1>1, <1>4, <2>1 DEF Unlock, Control, InFlight
  <2> QED BY <2>2, ControlIInv
<1>5. CASE UnlockError(p)
  <2>1. Control(p, "failed")
    BY <1>1, <1>2, <1>5 DEF UnlockError, Leave, Goto, Control, InFlight
  <2> QED BY <2>1, ControlIInv
<1>6. CASE Crash(p)
  <2>1. Control(p, "crashed")
    BY <1>1, <1>6 DEF Crash, Goto, Control
  <2> QED BY <2>1, ControlIInv
<1> QED BY <1>3, <1>4, <1>5, <1>6

\* A placement begins under a free lock, or is turned away.
LEMMA PlaceIInv ==
    ASSUME IInv, NEW p \in Requests, NEW u \in Users, NEW a \in Amounts, Place(p, u, a)
    PROVE  IInv'
<1> DEFINE new == [user |-> u, stake |-> a]
<1>1. /\ pc[p] = "idle" /\ slip' = [slip EXCEPT ![p] = new]
      /\ UNCHANGED <<wallet, ledger, open, bets, lapsed, kept>>
      /\ a \in Nat /\ a > 0
  BY AmountsAssumption DEF Place
<1>2. PICK l \in {"validate", "failed"}, f \in Faults :
         /\ pc' = [pc EXCEPT ![p] = l] /\ fault' = [fault EXCEPT ![p] = f]
         /\ IF l = "validate" THEN lock[u] = Nobody /\ lock' = [lock EXCEPT ![u] = p]
                              ELSE UNCHANGED lock
  BY DEF Place, Leave, Goto, Faults
<1>3. /\ \A q \in Requests : pc'[q] = IF q = p THEN l ELSE pc[q]
      /\ \A q \in Requests : slip'[q] = IF q = p THEN new ELSE slip[q]
      /\ new \in [user : Users, stake : Nat] /\ new.user = u /\ new.stake = a
  BY <1>1, <1>2 DEF IInv, TypeOK
<1> HIDE DEF new
<1>4. TypeOK'
  BY <1>1, <1>2, <1>3 DEF IInv, TypeOK, InFlight
<1>5. LockKept'
  <2> SUFFICES ASSUME NEW q \in Requests, pc'[q] \in InFlight, q \notin lapsed
               PROVE  lock'[slip'[q].user] = q
    BY <1>1 DEF LockKept
  <2>1. lock \in [Users -> Requests \cup {Nobody}]
    BY DEF IInv, TypeOK
  <2>2. CASE q = p
    BY <1>2, <1>3, <2>1, <2>2 DEF InFlight
  <2>3. CASE q # p
    <3>1. pc[q] \in InFlight /\ slip'[q] = slip[q]
      BY <1>3, <2>3
    <3>2. lock[slip[q].user] = q /\ slip[q].user \in Users
      BY <3>1, Slip DEF IInv, LockKept, InFlight
    <3> QED BY <1>2, <2>1, <3>1, <3>2, NobodyAssumption
  <2> QED BY <2>2, <2>3
<1>6. SlipsOK'
  BY <1>1, <1>2, <1>3 DEF IInv, SlipsOK
<1>7. p \notin Posted(ledger) /\ p \notin bets /\ p \notin lapsed
  BY <1>1 DEF IInv, RowsOK, SlipsOK
<1>8. RowsOK'
  <2>1. \A t \in Posted(ledger) : t # p /\ t \in Requests
    BY <1>7 DEF Posted
  <2>2. \A t \in Posted(ledger) : slip'[t] = slip[t]
    BY <1>3, <2>1
  <2>3. \A q \in Requests :
           /\ pc'[q] \in {"idle", "validate", "odds", "assess", "reserve"} => q \notin Posted(ledger)
           /\ pc'[q] = "done" => pc[q] = "done"
           /\ pc'[q] = "create" => pc[q] = "create"
    BY <1>2, <1>3, <1>7 DEF IInv, RowsOK
  <2> QED BY <1>1, <2>2, <2>3 DEF IInv, RowsOK, Posted
<1>9. Solvent' /\ DebitRecorded'
  BY <1>1 DEF IInv, Solvent, DebitRecorded, Posted
<1>10. StakeCovered'
  <2> SUFFICES ASSUME NEW q \in Requests, pc'[q] = "create"
               PROVE  \/ wallet[slip'[q].user].reserved >= slip'[q].stake
                      \/ \E r \in lapsed : slip'[r].user = slip'[q].user
    BY <1>1 DEF StakeCovered
  <2>1. pc[q] = "create" /\ slip'[q] = slip[q]
    BY <1>2, <1>3
  <2>2. \A r \in lapsed : slip'[r] = slip[r]
    BY <1>3, <1>7 DEF IInv, TypeOK
  <2> QED BY <2>1, <2>2 DEF IInv, StakeCovered
<1>11. HeldOnce'
  <2> SUFFICES ASSUME NEW v \in Users, wallet[v].reserved > 0
               PROVE  \E q \in Held(v)' : wallet[v].reserved <= slip'[q].stake
    BY <1>1 DEF HeldOnce
  <2>1. PICK q \in Held(v) : wallet[v].reserved <= slip[q].stake
    BY DEF IInv, HeldOnce
  <2>2. q \in Requests /\ q # p
    BY <1>7, <2>1 DEF Held, Posted
  <2>3. slip'[q] = slip[q] /\ pc'[q] = pc[q]
    BY <1>3, <2>2
  <2>4. q \in Held(v)'
    BY <1>1, <2>1, <2>3 DEF Held, Posted
  <2> QED BY <2>1, <2>3, <2>4
<1>12. StakesCharged'
  <2> SUFFICES ASSUME NEW v \in Users
               PROVE  wallet[v].balance =
                          Opening[v] + Moved(ledger, v)
                          - Total(Stakes', {q \in bets : slip'[q].user = v})
    BY <1>1 DEF StakesCharged, Moved, Posted
  <2> DEFINE B == {q \in bets : slip[q].user = v}
  <2>1. \A q \in bets : q \in Requests /\ q # p
    BY <1>7 DEF IInv, TypeOK
  <2>2. {q \in bets : slip'[q].user = v} = B
    BY <1>3, <2>1
  <2>3. \A q \in B : Stakes'[q] = Stakes[q]
    BY <1>3, <2>1 DEF Stakes
  <2>4. IsFiniteSet(B)
    <3>1. B \subseteq Posted(ledger)
      BY <2>1 DEF IInv, RowsOK
    <3> QED BY <3>1, FS_Subset DEF IInv, RowsOK
  <2>5. wallet[v].balance = Opening[v] + Moved(ledger, v) - Total(Stakes, B)
    BY DEF IInv, StakesCharged
  <2> HIDE DEF B
  <2>6. Total(Stakes', B) = Total(Stakes, B)
    BY <2>3, <2>4, TotalSame
  <2> QED BY <2>2, <2>5, <2>6
<1> QED BY <1>4, <1>5, <1>6, <1>8, <1>9, <1>10, <1>11, <1>12 DEF IInv

\* A lock expires: whoever held it is on record.
LEMMA ExpireIInv ==
    ASSUME IInv, NEW u \in Users, Expire(u)
    PROVE  IInv'
<1>1. /\ lock' = [lock EXCEPT ![u] = Nobody]
      /\ lapsed' = lapsed \cup {p \in {lock[u]} : pc[p] \in InFlight}
      /\ lock[u] # Nobody
      /\ UNCHANGED <<wallet, ledger, open, slip, pc, fault, bets, kept>>
  BY DEF Expire
<1>2. lock[u] \in Requests
  BY <1>1 DEF IInv, TypeOK
<1>3. TypeOK'
  BY <1>1, <1>2 DEF IInv, TypeOK
<1>4. LockKept'
  BY <1>1 DEF IInv, TypeOK, LockKept
<1>5. SlipsOK'
  BY <1>1 DEF IInv, SlipsOK, InFlight
<1>6. RowsOK' /\ Solvent' /\ DebitRecorded'
  BY <1>1 DEF IInv, RowsOK, Solvent, DebitRecorded, Posted
<1>7. StakeCovered'
  BY <1>1 DEF IInv, StakeCovered
<1>8. HeldOnce'
  BY <1>1 DEF IInv, HeldOnce, Held, Posted
<1>9. StakesCharged'
  BY <1>1 DEF IInv, StakesCharged, Stakes, Moved, Posted
<1> QED BY <1>3, <1>4, <1>5, <1>6, <1>7, <1>8, <1>9 DEF IInv

\* Suspending and resuming the market, and a stuttering step.
LEMMA ToggleIInv ==
    ASSUME IInv, UNCHANGED <<wallet, ledger, lock, slip, pc, fault, bets, lapsed, kept>>,
           open' \in BOOLEAN
    PROVE  IInv'
<1>1. TypeOK' /\ LockKept' /\ SlipsOK'
  BY DEF IInv, TypeOK, LockKept, SlipsOK
<1>2. RowsOK' /\ Solvent' /\ DebitRecorded' /\ StakeCovered'
  BY DEF IInv, RowsOK, Solvent, DebitRecorded, StakeCovered, Posted
<1>3. HeldOnce' /\ StakesCharged'
  BY DEF IInv, HeldOnce, Held, StakesCharged, Stakes, Moved, Posted
<1> QED BY <1>1, <1>2, <1>3 DEF IInv

-------------------------------------------------------------------------------
\* Other operations on the wallets.

\* A request that moves the balance of u by d, after marking the rows R: it takes
\* no more than is available, or it is a rollback.
LEMMA MoveIInv ==
    ASSUME IInv, NEW p \in Requests, pc[p] = "idle", Goto(p, "done"),
           UNCHANGED <<lock, open, slip, fault, bets, lapsed, kept>>,
           NEW R \in SUBSET Posted(ledger), NEW u \in Users, NEW ty \in Types,
           ty # "BET_PLACEMENT", NEW d \in Int, NEW r \in Refs, NEW k \in Keys,
           Move(p, MarkRolledBack(ledger, R), u, ty, d, r, k),
           \/ d >= 0
           \/ wallet[u].reserved <= wallet[u].balance + d
           \/ ty = "ROLLBACK"
    PROVE  IInv'
<1> DEFINE row == MoveRow(u, ty, d, wallet[u].balance, r, k)
           m == [MarkRolledBack(ledger, R) EXCEPT ![p] = row]
<1>1. /\ ledger \in Ledgers /\ IsFiniteSet(Posted(ledger))
      /\ wallet[u].balance \in Int /\ wallet[u].reserved \in Nat
      /\ wallet[u].version \in Nat
      /\ p \notin bets /\ p \notin Posted(ledger)
  BY WalletNumbers DEF IInv, TypeOK, RowsOK
<1>2. /\ row \in Row /\ row.user = u /\ row.type = ty /\ row.amount = d /\ row.key = k
      /\ row.status = "COMPLETED"
  <2>1. row \in Row
    BY <1>1, MoveRowType
  <2> QED BY <2>1 DEF MoveRow
<1>3. /\ ledger' = m /\ ~KeyTaken(ledger, row.key)
      /\ wallet' = [wallet EXCEPT ![u] = SetBalance(@, @.balance + d)]
  BY DEF Move, Insert
<1> HIDE DEF row
<1>4. /\ m \in Ledgers /\ Posted(m) = Posted(ledger) \cup {p} /\ m[p] = row
      /\ \A t \in Posted(ledger) :
            /\ m[t].user = ledger[t].user /\ m[t].type = ledger[t].type
            /\ m[t].ref = ledger[t].ref /\ m[t].key = ledger[t].key
            /\ m[t].amount = ledger[t].amount
            /\ m[t].status \in {ledger[t].status, "ROLLED_BACK"}
      /\ IsFiniteSet(Posted(m))
  <2>1. IsFiniteSet(Posted(m))
    BY <1>1, <1>2, MovedInserted
  <2>2. /\ m \in Ledgers /\ Posted(m) = Posted(ledger) \cup {p} /\ m[p] = row
        /\ \A t \in Posted(ledger) :
              /\ m[t].user = ledger[t].user /\ m[t].type = ledger[t].type
              /\ m[t].ref = ledger[t].ref /\ m[t].key = ledger[t].key
              /\ m[t].amount = ledger[t].amount
              /\ m[t].status \in {ledger[t].status, "ROLLED_BACK"}
    BY <1>1, <1>2, MarkedInserted
  <2> HIDE DEF m
  <2> QED BY <2>1, <2>2
<1>5. \A v \in Users : Moved(m, v) = Moved(ledger, v) + (IF u = v THEN d ELSE 0)
  BY <1>1, <1>2, MovedInserted
<1> HIDE DEF m
<1>6. \A v \in Users :
         /\ wallet'[v].balance = wallet[v].balance + (IF u = v THEN d ELSE 0)
         /\ wallet'[v].reserved = wallet[v].reserved
         /\ wallet[v].balance \in Int /\ wallet[v].reserved \in Nat
  BY <1>3, WalletNumbers DEF IInv, TypeOK, SetBalance
<1>7. /\ \A q \in Requests : pc'[q] = IF q = p THEN "done" ELSE pc[q]
      /\ pc' = [pc EXCEPT ![p] = "done"]
  BY DEF Goto, IInv, TypeOK
<1>8. \A t \in Posted(ledger) : t \in Requests /\ t # p
  BY <1>1 DEF Posted
<1>9. TypeOK'
  <2>1. SetBalance(wallet[u], wallet[u].balance + d)
           \in [balance : Int, reserved : Nat, version : Nat]
    BY <1>1 DEF SetBalance
  <2> QED BY <1>3, <1>4, <1>7, <2>1 DEF IInv, TypeOK
<1>10. LockKept' /\ SlipsOK'
  <2>1. \A q \in Requests : pc'[q] \in InFlight => pc[q] \in InFlight
    BY <1>7 DEF InFlight
  <2> QED BY <1>7, <2>1 DEF IInv, LockKept, SlipsOK
<1>11. RowsOK'
  <2>1. \A s, t \in Posted(m) : m[s].key = m[t].key => s = t
    BY <1>3, <1>4 DEF IInv, RowsOK, KeyTaken
  <2>2. \A t \in Posted(m) :
           IF m[t].type = "BET_PLACEMENT"
           THEN /\ m[t].key = ReserveKey(PreCheck)
                /\ m[t].user = slip[t].user
                /\ m[t].status = "PENDING" => m[t].ref = PreCheck
                /\ m[t].status = "COMPLETED" => t \in bets
           ELSE m[t].status # "PENDING"
    BY <1>2, <1>4 DEF IInv, RowsOK
  <2>3. \A q \in Requests :
           /\ pc'[q] \in {"idle", "validate", "odds", "assess", "reserve"} => q \notin Posted(m)
           /\ pc'[q] = "done" /\ q \in Posted(m) => m[q].type # "BET_PLACEMENT"
           /\ pc'[q] = "create" => q \in Posted(m) \ bets /\ m[q].type = "BET_PLACEMENT"
           /\ q \in bets => q \in Posted(m) /\ m[q].type = "BET_PLACEMENT"
    BY <1>1, <1>2, <1>4, <1>7 DEF IInv, RowsOK
  <2> QED BY <1>3, <1>4, <2>1, <2>2, <2>3 DEF RowsOK
<1>12. Solvent'
  <2> SUFFICES ASSUME NEW v \in Users
               PROVE  \/ wallet'[v].reserved <= wallet'[v].balance
                      \/ \E t \in Posted(m) :
                            m[t].type = "ROLLBACK" /\ m[t].user = v /\ m[t].amount < 0
    BY <1>3 DEF Solvent
  <2>1. CASE wallet[v].reserved <= wallet[v].balance
    <3>1. CASE v = u /\ ty = "ROLLBACK" /\ d < 0
      BY <1>2, <1>4, <3>1
    <3>2. CASE ~(v = u /\ ty = "ROLLBACK" /\ d < 0)
      BY <1>6, <2>1, <3>2
    <3> QED BY <3>1, <3>2
  <2>2. CASE ~(wallet[v].reserved <= wallet[v].balance)
    BY <1>4, <2>2 DEF IInv, Solvent
  <2> QED BY <2>1, <2>2
<1>13. StakeCovered'
  <2>1. \A q \in Requests : pc'[q] = "create" => pc[q] = "create" /\ slip[q].user \in Users
    BY <1>7, Slip
  <2> QED BY <1>6, <2>1 DEF IInv, StakeCovered
<1>14. HeldOnce'
  <2> SUFFICES ASSUME NEW v \in Users, wallet'[v].reserved > 0
               PROVE  \E q \in Held(v)' : wallet'[v].reserved <= slip[q].stake
    BY DEF HeldOnce
  <2>1. PICK q \in Held(v) : wallet[v].reserved <= slip[q].stake
    BY <1>6 DEF IInv, HeldOnce
  <2>2. q \in Held(v)'
    BY <1>3, <1>4, <1>7, <1>8, <2>1 DEF Held
  <2> QED BY <1>6, <2>1, <2>2
<1>15. StakesCharged'
  <2> SUFFICES ASSUME NEW v \in Users
               PROVE  wallet'[v].balance =
                          Opening[v] + Moved(m, v)
                          - Total(Stakes, {q \in bets : slip[q].user = v})
    BY <1>3 DEF StakesCharged, Stakes
  <2> DEFINE c == Total(Stakes, {q \in bets : slip[q].user = v})
  <2>1. wallet[v].balance = Opening[v] + Moved(ledger, v) - c
    BY DEF IInv, StakesCharged
  <2>2. c \in Int
    <3>1. {q \in bets : slip[q].user = v} \subseteq Posted(ledger)
      BY DEF IInv, RowsOK, TypeOK
    <3>2. IsFiniteSet({q \in bets : slip[q].user = v})
      BY <1>1, <3>1, FS_Subset
    <3>3. \A q \in {s \in bets : slip[s].user = v} : Stakes[q] \in Int
      BY StakeNumbers DEF IInv, TypeOK
    <3> QED BY <3>2, <3>3, TotalInt
  <2>3. Opening[v] \in Int /\ Moved(ledger, v) \in Int
    BY <1>1, MovedType, OpeningAssumption
  <2>4. wallet'[v].balance = wallet[v].balance + (IF u = v THEN d ELSE 0)
    BY <1>6
  <2>5. Moved(m, v) = Moved(ledger, v) + (IF u = v THEN d ELSE 0)
    BY <1>5
  <2> HIDE DEF c
  <2>6. wallet'[v].balance = Opening[v] + Moved(m, v) - c
    BY <2>1, <2>2, <2>3, <2>4, <2>5
  <2> QED BY <2>6 DEF c
<1>16. DebitRecorded'
  <2> SUFFICES ASSUME NEW q \in bets
               PROVE  \E t \in Posted(m) : /\ m[t].type = "BET_PLACEMENT"
                                           /\ m[t].ref = q \/ m[t].status = "ROLLED_BACK"
    BY <1>3 DEF DebitRecorded
  <2>1. PICK t \in Posted(ledger) :
           /\ ledger[t].type = "BET_PLACEMENT"
           /\ ledger[t].ref = q \/ ledger[t].status = "ROLLED_BACK"
    BY DEF IInv, DebitRecorded
  <2> QED BY <1>4, <2>1
<1> QED BY <1>9, <1>10, <1>11, <1>12, <1>13, <1>14, <1>15, <1>16 DEF IInv

\* Deposits, withdrawals and rollbacks.
LEMMA OtherWalletIInv ==
    ASSUME IInv, NEW p \in Requests, OtherWallet(p)
    PROVE  IInv'
<1>1. /\ pc[p] = "idle" /\ Goto(p, "done")
      /\ UNCHANGED <<lock, open, slip, fault, bets, lapsed, kept>>
  BY DEF OtherWallet
<1>2. /\ ledger \in Ledgers /\ MarkRolledBack(ledger, {}) = ledger
      /\ {} \in SUBSET Posted(ledger)
  BY MarkNone DEF IInv, TypeOK
<1>3. ASSUME NEW u \in Users, NEW a \in Amounts, Debit(p, u, a)
      PROVE  IInv'
  <2>1. -a \in Int /\ wallet[u].reserved <= wallet[u].balance + (-a)
    BY <1>3, WalletNumbers, AmountsAssumption DEF Debit, Available, IInv
  <2>2. Move(p, MarkRolledBack(ledger, {}), u, "WITHDRAWAL", -a, NoRef, RandomKey(p))
    BY <1>2, <1>3 DEF Debit
  <2>3. "WITHDRAWAL" \in Types /\ NoRef \in Refs /\ RandomKey(p) \in Keys
    BY DEF Types, Refs, Keys, RandomKey
  <2> QED BY <1>1, <1>2, <2>1, <2>2, <2>3, MoveIInv
<1>4. ASSUME NEW u \in Users, NEW a \in Amounts, NEW r \in DepositRefs, Credit(p, u, a, r)
      PROVE  IInv'
  <2>1. a \in Int /\ a >= 0
    BY <1>4, AmountsAssumption DEF Credit
  <2>2. Move(p, MarkRolledBack(ledger, {}), u, "DEPOSIT", a, r, DepositKey(r))
    BY <1>2, <1>4 DEF Credit
  <2>3. "DEPOSIT" \in Types /\ r \in Refs /\ DepositKey(r) \in Keys
    BY DEF Types, Refs, Keys, DepositKey
  <2> QED BY <1>1, <1>2, <2>1, <2>2, <2>3, MoveIInv
<1>5. ASSUME NEW t \in Requests, Reverse(p, t)
      PROVE  IInv'
  <2> DEFINE d == -ledger[t].amount
             u == ledger[t].user
  <2>1. /\ t \in Posted(ledger) /\ {t} \in SUBSET Posted(ledger)
        /\ Move(p, MarkRolledBack(ledger, {t}), u, "ROLLBACK", d, t, RollbackKey(t))
    BY <1>5 DEF Reverse
  <2>2. ledger[t] \in Row
    BY <1>2, <2>1, PostedRow
  <2>3. d \in Int /\ u \in Users
    BY <2>2 DEF Row
  <2>4. "ROLLBACK" \in Types /\ t \in Refs /\ RollbackKey(t) \in Keys
    BY DEF Types, Refs, Keys, RollbackKey
  <2> HIDE DEF d, u
  <2> QED BY <1>1, <2>1, <2>3, <2>4, MoveIInv
<1> QED BY <1>3, <1>4, <1>5 DEF OtherWallet

-------------------------------------------------------------------------------
\* The reservation, the bet and the release.

\* Two placements in flight for one user: the lock of one of them expired.
LEMMA NoDouble ==
    ASSUME IInv, NEW p \in Requests, NEW q \in Requests, p # q,
           pc[p] \in InFlight, pc[q] \in InFlight, slip[p].user = slip[q].user
    PROVE  p \in lapsed \/ q \in lapsed
BY DEF IInv, LockKept

\* The stakes that user v has bet add up to a number.
LEMMA Charged ==
    ASSUME IInv, NEW v \in Users
    PROVE  LET B == {q \in bets : slip[q].user = v}
           IN  /\ B \subseteq Requests /\ IsFiniteSet(B)
               /\ \A q \in B : Stakes[q] \in Nat
               /\ Total(Stakes, B) \in Int
               /\ Opening[v] \in Int /\ Moved(ledger, v) \in Int
               /\ wallet[v].balance = Opening[v] + Moved(ledger, v) - Total(Stakes, B)
<1> DEFINE B == {q \in bets : slip[q].user = v}
<1>1. B \subseteq Posted(ledger) /\ B \subseteq Requests
  BY DEF IInv, RowsOK, TypeOK
<1>2. IsFiniteSet(B)
  BY <1>1, FS_Subset DEF IInv, RowsOK
<1>3. \A q \in B : Stakes[q] \in Nat
  BY <1>1, StakeNumbers DEF IInv
<1>4. wallet[v].balance = Opening[v] + Moved(ledger, v) - Total(Stakes, B)
  BY DEF IInv, StakesCharged
<1>5. Opening[v] \in Int /\ Moved(ledger, v) \in Int
  BY MovedType, OpeningAssumption DEF IInv, TypeOK, RowsOK
<1> HIDE DEF B
<1>6. \A q \in B : Stakes[q] \in Int
  BY <1>3
<1>7. Total(Stakes, B) \in Int
  BY <1>2, <1>6, TotalInt
<1> QED BY <1>1, <1>2, <1>3, <1>4, <1>5, <1>7 DEF B

\* reserveFunds: no other reservation exists, since its key was free.
LEMMA ReserveIInv ==
    ASSUME IInv, NEW p \in Requests, pc[p] = "reserve",
           Reserve(p, slip[p].user, slip[p].stake), Leave(p, "create", "none"),
           UNCHANGED <<lock, open, slip, bets, lapsed, kept>>
    PROVE  IInv'
<1> DEFINE u == slip[p].user
           a == slip[p].stake
           row == ReserveRow(u, a, wallet[u].balance, PreCheck)
           m == [MarkRolledBack(ledger, {}) EXCEPT ![p] = row]
<1>1. u \in Users /\ a \in Nat /\ a > 0
  BY Slip
<1>2. /\ a <= Available(wallet[u])
      /\ wallet' = [wallet EXCEPT ![u] = SetReserved(@, @.reserved + a)]
      /\ Insert(p, ledger, row)
  BY DEF Reserve
<1> HIDE DEF u, a
<1>3. /\ ledger \in Ledgers /\ IsFiniteSet(Posted(ledger))
      /\ wallet[u].balance \in Int /\ wallet[u].reserved \in Nat
      /\ wallet[u].version \in Nat
      /\ p \notin Posted(ledger) /\ {} \in SUBSET Posted(ledger)
  BY <1>1, WalletNumbers DEF IInv, TypeOK, RowsOK
<1>4. /\ row \in Row /\ row.user = u /\ row.type = "BET_PLACEMENT" /\ row.status = "PENDING"
      /\ row.ref = PreCheck /\ row.key = ReserveKey(PreCheck)
  <2>1. row \in Row
    BY <1>1, <1>3, ReserveRowType
  <2> QED BY <2>1 DEF ReserveRow
<1>5. ledger' = m /\ ~KeyTaken(ledger, row.key)
  BY <1>2, <1>3, MarkNone DEF Insert
<1> HIDE DEF row
<1>6. IsFiniteSet(Posted(m)) /\ \A v : Moved(m, v) = Moved(ledger, v) + 0
  BY <1>3, <1>4, MovedInserted
<1>7. /\ m \in Ledgers /\ Posted(m) = Posted(ledger) \cup {p} /\ m[p] = row
      /\ \A t \in Posted(ledger) : m[t] = ledger[t]
  <2>1. m = [ledger EXCEPT ![p] = row]
    BY <1>3, MarkNone
  <2>2. m \in Ledgers /\ Posted(m) = Posted(ledger) \cup {p}
    BY <1>3, <1>4, <2>1, InsertedLedger
  <2> QED BY <1>3, <2>1, <2>2 DEF Ledgers, Posted
<1> HIDE DEF m
<1>8. \A t \in Posted(ledger) : t \in Requests /\ ledger[t].type # "BET_PLACEMENT"
  BY <1>4, <1>5 DEF IInv, RowsOK, KeyTaken, Posted
<1>9. bets = {} /\ \A q \in Requests : pc[q] # "create"
  BY <1>8 DEF IInv, TypeOK, RowsOK
<1>10. \A v \in Users : wallet[v].reserved = 0
  <2> TAKE v \in Users
  <2>1. wallet[v].reserved \in Nat
    BY WalletNumbers DEF IInv
  <2>2. Held(v) = {}
    BY <1>8 DEF Held
  <2> QED BY <2>1, <2>2 DEF IInv, HeldOnce
<1>11. \A v \in Users :
          /\ wallet'[v].balance = wallet[v].balance
          /\ wallet'[v].reserved = IF v = u THEN a ELSE 0
          /\ wallet[v].balance \in Int
  BY <1>1, <1>2, <1>10, WalletNumbers DEF IInv, TypeOK, SetReserved
<1>12. /\ \A q \in Requests : pc'[q] = IF q = p THEN "create" ELSE pc[q]
       /\ pc' = [pc EXCEPT ![p] = "create"] /\ fault' = [fault EXCEPT ![p] = "none"]
  BY DEF Leave, Goto, IInv, TypeOK
<1>13. TypeOK'
  <2>1. SetReserved(wallet[u], wallet[u].reserved + a)
           \in [balance : Int, reserved : Nat, version : Nat]
    BY <1>1, <1>3 DEF SetReserved
  <2> QED BY <1>2, <1>5, <1>7, <1>12, <2>1 DEF IInv, TypeOK, InFlight, Faults
<1>14. LockKept' /\ SlipsOK'
  BY <1>12 DEF IInv, LockKept, SlipsOK, InFlight
<1>15. RowsOK'
  <2>1. \A s, t \in Posted(m) : m[s].key = m[t].key => s = t
    BY <1>5, <1>7 DEF IInv, RowsOK, KeyTaken
  <2>2. \A t \in Posted(m) :
           IF m[t].type = "BET_PLACEMENT"
           THEN /\ m[t].key = ReserveKey(PreCheck)
                /\ m[t].user = slip[t].user
                /\ m[t].status = "PENDING" => m[t].ref = PreCheck
                /\ m[t].status = "COMPLETED" => t \in bets
           ELSE m[t].status # "PENDING"
    BY <1>4, <1>7 DEF IInv, RowsOK, u
  <2>3. \A q \in Requests :
           /\ pc'[q] \in {"idle", "validate", "odds", "assess", "reserve"} => q \notin Posted(m)
           /\ pc'[q] = "done" /\ q \in Posted(m) => m[q].type # "BET_PLACEMENT"
           /\ pc'[q] = "create" => q \in Posted(m) \ bets /\ m[q].type = "BET_PLACEMENT"
           /\ q \in bets => q \in Posted(m) /\ m[q].type = "BET_PLACEMENT"
    BY <1>4, <1>7, <1>9, <1>12 DEF IInv, RowsOK
  <2> QED BY <1>5, <1>6, <2>1, <2>2, <2>3 DEF RowsOK
<1>16. Solvent'
  <2> SUFFICES ASSUME NEW v \in Users
               PROVE  \/ wallet'[v].reserved <= wallet'[v].balance
                      \/ \E t \in Posted(m) :
                            m[t].type = "ROLLBACK" /\ m[t].user = v /\ m[t].amount < 0
    BY <1>5 DEF Solvent
  <2>1. CASE v = u
    BY <1>1, <1>2, <1>3, <1>10, <1>11, <2>1 DEF Available
  <2>2. CASE v # u
    BY <1>7, <1>10, <1>11, <2>2 DEF IInv, Solvent
  <2> QED BY <2>1, <2>2
<1>17. StakeCovered'
  <2>1. wallet'[u].reserved >= a
    BY <1>1, <1>11
  <2> QED BY <1>9, <1>12, <2>1 DEF StakeCovered, u, a
<1>18. HeldOnce'
  <2> SUFFICES ASSUME NEW v \in Users, wallet'[v].reserved > 0
               PROVE  \E q \in Held(v)' : wallet'[v].reserved <= slip[q].stake
    BY DEF HeldOnce
  <2>1. v = u
    BY <1>11
  <2>2. p \in Held(v)'
    BY <1>4, <1>5, <1>7, <1>9, <1>12, <2>1 DEF Held
  <2>3. wallet'[u].reserved <= slip[p].stake
    BY <1>1, <1>11 DEF a
  <2> QED BY <2>1, <2>2, <2>3
<1>19. StakesCharged'
  <2> SUFFICES ASSUME NEW v \in Users
               PROVE  wallet'[v].balance =
                          Opening[v] + Moved(m, v)
                          - Total(Stakes, {q \in bets : slip[q].user = v})
    BY <1>5 DEF StakesCharged, Stakes
  <2>1. Moved(m, v) = Moved(ledger, v)
    <3>1. Moved(ledger, v) \in Int
      BY Charged
    <3>2. Moved(m, v) = Moved(ledger, v) + 0
      BY <1>6
    <3> QED BY <3>1, <3>2
  <2> QED BY <1>11, <2>1, Charged
<1>20. DebitRecorded'
  BY <1>9 DEF DebitRecorded
<1> QED BY <1>13, <1>14, <1>15, <1>16, <1>17, <1>18, <1>19, <1>20 DEF IInv

\* CreateBet where the transaction commits.
Charge(p) ==
    LET u == slip[p].user
        a == slip[p].stake
    IN  /\ pc[p] = "create" /\ wallet[u].reserved >= a
        /\ wallet' = [wallet EXCEPT ![u] =
              [balance |-> wallet[u].balance - a, reserved |-> wallet[u].reserved - a,
               version |-> wallet[u].version + 1]]
        /\ ledger' = [t \in Requests |->
              IF t \in OwnReservations(u)
              THEN [ledger[t] EXCEPT !.ref = p, !.status = "COMPLETED",
                                     !.after = wallet[u].balance - a]
              ELSE ledger[t]]
        /\ bets' = bets \cup {p}
        /\ Leave(p, "after", "none")
        /\ UNCHANGED <<lock, open, slip, lapsed, kept>>

\* That transaction turns the only reservation there is into a debit, so nothing
\* stays reserved.
LEMMA ChargeIInv ==
    ASSUME IInv, NEW p \in Requests, Charge(p)
    PROVE  IInv'
<1> DEFINE u == slip[p].user
           a == slip[p].stake
           w == [balance |-> wallet[u].balance - a, reserved |-> wallet[u].reserved - a,
                 version |-> wallet[u].version + 1]
<1>0. /\ pc[p] = "create" /\ bets' = bets \cup {p}
      /\ UNCHANGED <<lock, open, slip, lapsed, kept>>
  BY DEF Charge
<1>1. u \in Users /\ a \in Nat /\ a > 0
  BY <1>0, Slip
<1>2. /\ wallet[u].reserved >= a /\ wallet' = [wallet EXCEPT ![u] = w]
      /\ wallet[u].balance \in Int /\ wallet[u].reserved \in Nat /\ wallet[u].version \in Nat
      /\ ledger \in Ledgers /\ IsFiniteSet(Posted(ledger))
  <2>1. wallet[u].reserved >= a /\ wallet' = [wallet EXCEPT ![u] = w]
    BY DEF Charge
  <2> HIDE DEF u, w
  <2>2. wallet[u].balance \in Int /\ wallet[u].reserved \in Nat /\ wallet[u].version \in Nat
    BY <1>1, WalletNumbers DEF IInv
  <2> QED BY <2>1, <2>2 DEF IInv, TypeOK, RowsOK
<1>3. p \in Posted(ledger) \ bets /\ ledger[p].type = "BET_PLACEMENT" /\ ledger[p].user = u
  BY <1>0 DEF IInv, RowsOK
<1>4. \A t \in Posted(ledger) : ledger[t].type = "BET_PLACEMENT" => t = p
  BY <1>3, OneReservation
<1>5. OwnReservations(u) \subseteq {p}
  BY <1>4 DEF OwnReservations, IInv, RowsOK
<1> HIDE DEF u, a, w
<1>6. /\ \A t \in Requests : t # p => ledger'[t] = ledger[t]
      /\ p \in OwnReservations(u) =>
            ledger'[p] = [ledger[p] EXCEPT !.ref = p, !.status = "COMPLETED",
                                           !.after = wallet[u].balance - a]
      /\ p \notin OwnReservations(u) => ledger'[p] = ledger[p]
      /\ ledger' = [t \in Requests |-> ledger'[t]]
  BY <1>5 DEF Charge, u, a
<1>7. ledger[p] \in Row
  BY <1>2, <1>3, PostedRow
<1>8. /\ ledger'[p] \in Row /\ ledger'[p].user = u /\ ledger'[p].type = "BET_PLACEMENT"
      /\ ledger'[p].key = ledger[p].key
      /\ \/ ledger'[p].ref = p /\ ledger'[p].status = "COMPLETED"
         \/ ledger'[p].status = "ROLLED_BACK"
  <2>1. CASE p \in OwnReservations(u)
    <3>1. wallet[u].balance - a \in Int /\ p \in Refs
      BY <1>1, <1>2 DEF Refs
    <3>2. ledger'[p] = [ledger[p] EXCEPT !.ref = p, !.status = "COMPLETED",
                                         !.after = wallet[u].balance - a]
      BY <1>6, <2>1
    <3> QED BY <1>3, <1>7, <3>1, <3>2 DEF Row, Statuses
  <2>2. CASE p \notin OwnReservations(u)
    <3>1. ledger'[p] = ledger[p]
      BY <1>6, <2>2
    <3>2. ledger[p].status \in {"PENDING", "COMPLETED", "ROLLED_BACK"}
      BY <1>7 DEF Row, Statuses
    <3>3. ledger[p].status # "COMPLETED"
      BY <1>3 DEF IInv, RowsOK
    <3>4. ledger[p].status # "PENDING"
      BY <1>3, <2>2 DEF IInv, RowsOK, OwnReservations
    <3> QED BY <1>3, <1>7, <3>1, <3>2, <3>3, <3>4
  <2> QED BY <2>1, <2>2
<1>9. ledger' \in Ledgers
  <2>1. \A t \in Requests : ledger'[t] \in Row \cup {NoRow}
    BY <1>2, <1>6, <1>8 DEF Ledgers
  <2> QED BY <1>6, <2>1 DEF Ledgers
<1>10. Posted(ledger') = Posted(ledger)
  <2>1. \A t \in Requests : t \in Posted(ledger') <=> t \in Posted(ledger)
    BY <1>3, <1>6, <1>8 DEF Posted
  <2> QED BY <2>1 DEF Posted
<1>11. \A t \in Posted(ledger) :
          /\ t \in Requests
          /\ ledger'[t].user = ledger[t].user /\ ledger'[t].type = ledger[t].type
          /\ ledger'[t].key = ledger[t].key
          /\ t # p => ledger'[t] = ledger[t]
  BY <1>3, <1>6, <1>8 DEF Posted
<1>12. /\ \A q \in Requests : pc'[q] = IF q = p THEN "after" ELSE pc[q]
       /\ pc' = [pc EXCEPT ![p] = "after"] /\ fault' = [fault EXCEPT ![p] = "none"]
  BY DEF Charge, Leave, Goto, IInv, TypeOK
<1>13. \A q \in Requests : pc'[q] # "create"
  BY <1>4, <1>12 DEF IInv, RowsOK
<1>14. \A v \in Users : /\ wallet[v].balance \in Int /\ wallet[v].reserved \in Nat
                        /\ v # u => wallet'[v] = wallet[v]
  BY <1>2, WalletNumbers DEF IInv, TypeOK
<1>15. wallet'[u].balance = wallet[u].balance - a /\ wallet'[u].reserved = wallet[u].reserved - a
  BY <1>1, <1>2 DEF IInv, TypeOK, w
<1>16. TypeOK'
  <2>1. w \in [balance : Int, reserved : Nat, version : Nat]
    BY <1>1, <1>2 DEF w
  <2>2. wallet' \in [Users -> [balance : Int, reserved : Nat, version : Nat]]
    BY <1>2, <2>1 DEF IInv, TypeOK
  <2> QED BY <1>0, <1>9, <1>12, <2>2 DEF IInv, TypeOK, InFlight, Faults
<1>17. LockKept' /\ SlipsOK'
  BY <1>0, <1>12 DEF IInv, LockKept, SlipsOK, InFlight
<1>18. RowsOK'
  <2>1. \A s, t \in Posted(ledger') : ledger'[s].key = ledger'[t].key => s = t
    BY <1>10, <1>11 DEF IInv, RowsOK
  <2>2. ASSUME NEW t \in Posted(ledger')
        PROVE  IF ledger'[t].type = "BET_PLACEMENT"
               THEN /\ ledger'[t].key = ReserveKey(PreCheck)
                    /\ ledger'[t].user = slip[t].user
                    /\ ledger'[t].status = "PENDING" => ledger'[t].ref = PreCheck
                    /\ ledger'[t].status = "COMPLETED" => t \in bets'
               ELSE ledger'[t].status # "PENDING"
    <3>1. CASE t = p
      <4>1. ledger[p].key = ReserveKey(PreCheck)
        BY <1>3 DEF IInv, RowsOK
      <4>2. p \in bets'
        BY <1>0
      <4> QED BY <1>8, <3>1, <4>1, <4>2 DEF u
    <3>2. CASE t # p
      BY <1>4, <1>10, <1>11, <3>2 DEF IInv, RowsOK
    <3> QED BY <3>1, <3>2
  <2>3. \A q \in Requests :
           /\ pc'[q] \in {"idle", "validate", "odds", "assess", "reserve"} => q \notin Posted(ledger')
           /\ pc'[q] = "done" /\ q \in Posted(ledger') => ledger'[q].type # "BET_PLACEMENT"
           /\ q \in bets' => q \in Posted(ledger') /\ ledger'[q].type = "BET_PLACEMENT"
    BY <1>0, <1>3, <1>10, <1>11, <1>12 DEF IInv, RowsOK
  <2> QED BY <1>0, <1>2, <1>10, <1>13, <2>1, <2>2, <2>3 DEF RowsOK
<1>19. Solvent'
  <2> SUFFICES ASSUME NEW v \in Users
               PROVE  \/ wallet'[v].reserved <= wallet'[v].balance
                      \/ \E t \in Posted(ledger) :
                            ledger'[t].type = "ROLLBACK" /\ ledger'[t].user = v
                              /\ ledger'[t].amount < 0
    BY <1>10 DEF Solvent
  <2>1. CASE wallet[v].reserved <= wallet[v].balance
    BY <1>1, <1>2, <1>14, <1>15, <2>1
  <2>2. CASE ~(wallet[v].reserved <= wallet[v].balance)
    <3>1. PICK t \in Posted(ledger) :
             ledger[t].type = "ROLLBACK" /\ ledger[t].user = v /\ ledger[t].amount < 0
      BY <2>2 DEF IInv, Solvent
    <3>2. ledger'[t] = ledger[t]
      BY <1>3, <1>11, <3>1
    <3> QED BY <3>1, <3>2
  <2> QED BY <2>1, <2>2
<1>20. StakeCovered'
  BY <1>13 DEF StakeCovered
<1>21. HeldOnce'
  <2> SUFFICES ASSUME NEW v \in Users, wallet'[v].reserved > 0 PROVE FALSE
    BY DEF HeldOnce
  <2>1. wallet[v].reserved > 0
    BY <1>1, <1>2, <1>14, <1>15
  <2>2. PICK q \in Held(v) : wallet[v].reserved <= slip[q].stake
    BY <2>1 DEF IInv, HeldOnce
  <2>3. q = p
    BY <1>4, <2>2 DEF Held
  <2>4. v = u
    BY <1>3, <2>2, <2>3 DEF Held
  <2>5. wallet[u].reserved <= a
    BY <2>2, <2>3, <2>4 DEF a
  <2> QED BY <1>1, <1>2, <1>15, <2>4, <2>5
<1>22. StakesCharged'
  <2> SUFFICES ASSUME NEW v \in Users
               PROVE  wallet'[v].balance =
                          Opening[v] + Moved(ledger', v)
                          - Total(Stakes, {q \in bets' : slip[q].user = v})
    BY <1>0 DEF StakesCharged, Stakes
  <2> DEFINE B == {q \in bets : slip[q].user = v}
  <2>1. Moved(ledger', v) = Moved(ledger, v)
    <3>1. {t \in Posted(ledger') : ledger'[t].user = v /\ ledger'[t].type # "BET_PLACEMENT"} =
              {t \in Posted(ledger) : ledger[t].user = v /\ ledger[t].type # "BET_PLACEMENT"}
      BY <1>10, <1>11
    <3>2. \A t \in Posted(ledger) :
             ledger[t].type # "BET_PLACEMENT" => ledger'[t].amount = ledger[t].amount
      BY <1>3, <1>11
    <3> QED BY <1>2, <3>1, <3>2, MovedSame
  <2>2. /\ B \subseteq Requests /\ IsFiniteSet(B) /\ \A q \in B : Stakes[q] \in Nat
        /\ Total(Stakes, B) \in Int /\ Opening[v] \in Int /\ Moved(ledger, v) \in Int
        /\ wallet[v].balance = Opening[v] + Moved(ledger, v) - Total(Stakes, B)
    BY Charged
  <2>3. p \notin B
    BY <1>3
  <2>4. {q \in bets' : slip[q].user = v} = IF v = u THEN B \cup {p} ELSE B
    BY <1>0 DEF u
  <2>5. Stakes[p] = a
    BY StakeNumbers DEF IInv, a
  <2> HIDE DEF B
  <2>6. CASE v = u
    <3>1. IsFiniteSet(B \cup {p}) /\ (B \cup {p}) \ {p} = B
      BY <2>2, <2>3, FS_AddElement
    <3>2. \A q \in B \cup {p} : Stakes[q] \in Int
      BY <1>1, <2>2, <2>5
    <3>3. Total(Stakes, B \cup {p}) = a + Total(Stakes, B)
      BY <2>5, <3>1, <3>2, TotalSplit
    <3>4. wallet'[v].balance = wallet[v].balance - a
      BY <1>15, <2>6
    <3>5. wallet'[v].balance = Opening[v] + Moved(ledger, v) - (a + Total(Stakes, B))
      BY <1>1, <2>2, <3>4
    <3> QED BY <2>1, <2>4, <2>6, <3>3, <3>5
  <2>7. CASE v # u
    BY <1>14, <2>1, <2>2, <2>4, <2>7
  <2> QED BY <2>6, <2>7
<1>23. DebitRecorded'
  <2> SUFFICES ASSUME NEW q \in bets'
               PROVE  \E t \in Posted(ledger) :
                         /\ ledger'[t].type = "BET_PLACEMENT"
                         /\ ledger'[t].ref = q \/ ledger'[t].status = "ROLLED_BACK"
    BY <1>10 DEF DebitRecorded
  <2>1. q = p
    BY <1>0, <1>4 DEF IInv, RowsOK, TypeOK
  <2> QED BY <1>3, <1>8, <2>1
<1> QED BY <1>16, <1>17, <1>18, <1>19, <1>20, <1>21, <1>22, <1>23 DEF IInv

\* releaseReservation in the catch block lowers what is reserved for the user and
\* marks reservations, maybe of others.
LEMMA ReleaseIInv ==
    ASSUME IInv, NEW p \in Requests, pc[p] = "catch",
           Release(slip[p].user, slip[p].stake), Goto(p, "unlock"),
           UNCHANGED <<lock, open, slip, fault, bets, lapsed, kept>>
    PROVE  IInv'
<1> DEFINE u == slip[p].user
           a == slip[p].stake
<1>1. u \in Users /\ a \in Nat /\ a > 0
  BY Slip
<1>2. PICK R \in SUBSET Reservations(ledger, PreCheck) :
         /\ ledger' = MarkRolledBack(ledger, R)
         /\ wallet' = [wallet EXCEPT ![u] = SetReserved(@, ClampedSub(@.reserved, a))]
  BY DEF Release
<1> HIDE DEF u, a
<1>3. /\ ledger \in Ledgers /\ IsFiniteSet(Posted(ledger)) /\ R \in SUBSET Posted(ledger)
      /\ wallet[u].balance \in Int /\ wallet[u].reserved \in Nat /\ wallet[u].version \in Nat
  BY <1>1, WalletNumbers DEF IInv, TypeOK, RowsOK, Reservations
<1>4. ledger' \in Ledgers /\ Posted(ledger') = Posted(ledger)
  BY <1>2, <1>3, MarkedLedger
<1>5. ASSUME NEW t \in Posted(ledger)
      PROVE  /\ t \in Requests
             /\ ledger'[t].user = ledger[t].user /\ ledger'[t].type = ledger[t].type
             /\ ledger'[t].ref = ledger[t].ref /\ ledger'[t].key = ledger[t].key
             /\ ledger'[t].amount = ledger[t].amount
             /\ ledger'[t].status \in {ledger[t].status, "ROLLED_BACK"}
  <2>1. t \in Requests
    BY DEF Posted
  <2>2. CASE t \in R
    <3> DEFINE m == MarkRolledBack(ledger, R)
    <3>1. /\ m[t].status = "ROLLED_BACK" /\ m[t].user = ledger[t].user
          /\ m[t].type = ledger[t].type /\ m[t].ref = ledger[t].ref
          /\ m[t].key = ledger[t].key /\ m[t].amount = ledger[t].amount
      BY <1>3, <2>1, <2>2, MarkedRow
    <3> HIDE DEF m
    <3> QED BY <1>2, <2>1, <3>1 DEF m
  <2>3. CASE t \notin R
    BY <1>2, <2>1, <2>3 DEF MarkRolledBack
  <2> QED BY <2>1, <2>2, <2>3
<1>6. /\ ClampedSub(wallet[u].reserved, a) \in Nat
      /\ ClampedSub(wallet[u].reserved, a) <= wallet[u].reserved
      /\ wallet[u].reserved <= a => ClampedSub(wallet[u].reserved, a) = 0
  BY <1>1, <1>3 DEF ClampedSub
<1>7. \A v \in Users :
         /\ wallet[v].balance \in Int /\ wallet[v].reserved \in Nat
         /\ wallet'[v].balance = wallet[v].balance
         /\ wallet'[v].reserved =
               IF v = u THEN ClampedSub(wallet[u].reserved, a) ELSE wallet[v].reserved
  BY <1>1, <1>2, WalletNumbers DEF IInv, TypeOK, SetReserved
<1>8. /\ \A q \in Requests : pc'[q] = IF q = p THEN "unlock" ELSE pc[q]
      /\ pc' = [pc EXCEPT ![p] = "unlock"]
  BY DEF Goto, IInv, TypeOK
<1>9. TypeOK'
  <2>1. SetReserved(wallet[u], ClampedSub(wallet[u].reserved, a))
           \in [balance : Int, reserved : Nat, version : Nat]
    BY <1>3, <1>6 DEF SetReserved
  <2>2. wallet' \in [Users -> [balance : Int, reserved : Nat, version : Nat]]
    BY <1>2, <2>1 DEF IInv, TypeOK
  <2> QED BY <1>4, <1>8, <2>2 DEF IInv, TypeOK, InFlight
<1>10. LockKept' /\ SlipsOK'
  BY <1>8 DEF IInv, LockKept, SlipsOK, InFlight
<1>11. RowsOK'
  <2>1. \A s, t \in Posted(ledger) : ledger'[s].key = ledger'[t].key => s = t
    BY <1>5 DEF IInv, RowsOK
  <2>2. \A t \in Posted(ledger) :
           IF ledger'[t].type = "BET_PLACEMENT"
           THEN /\ ledger'[t].key = ReserveKey(PreCheck)
                /\ ledger'[t].user = slip[t].user
                /\ ledger'[t].status = "PENDING" => ledger'[t].ref = PreCheck
                /\ ledger'[t].status = "COMPLETED" => t \in bets
           ELSE ledger'[t].status # "PENDING"
    BY <1>5 DEF IInv, RowsOK
  <2>3. \A q \in Requests :
           /\ pc'[q] \in {"idle", "validate", "odds", "assess", "reserve"} => q \notin Posted(ledger)
           /\ pc'[q] = "done" /\ q \in Posted(ledger) => ledger'[q].type # "BET_PLACEMENT"
           /\ pc'[q] = "create" => q \in Posted(ledger) \ bets /\ ledger'[q].type = "BET_PLACEMENT"
           /\ q \in bets => q \in Posted(ledger) /\ ledger'[q].type = "BET_PLACEMENT"
    BY <1>5, <1>8 DEF IInv, RowsOK
  <2> QED BY <1>3, <1>4, <2>1, <2>2, <2>3 DEF RowsOK
<1>12. Solvent'
  <2> SUFFICES ASSUME NEW v \in Users
               PROVE  \/ wallet'[v].reserved <= wallet'[v].balance
                      \/ \E t \in Posted(ledger) :
                            ledger'[t].type = "ROLLBACK" /\ ledger'[t].user = v
                              /\ ledger'[t].amount < 0
    BY <1>4 DEF Solvent
  <2>1. CASE wallet[v].reserved <= wallet[v].balance
    BY <1>6, <1>7, <2>1
  <2>2. CASE ~(wallet[v].reserved <= wallet[v].balance)
    BY <1>5, <2>2 DEF IInv, Solvent
  <2> QED BY <2>1, <2>2
<1>13. StakeCovered'
  <2> SUFFICES ASSUME NEW q \in Requests, pc'[q] = "create"
               PROVE  \/ wallet'[slip[q].user].reserved >= slip[q].stake
                      \/ \E r \in lapsed : slip[r].user = slip[q].user
    BY DEF StakeCovered
  <2>1. q # p /\ pc[q] = "create" /\ slip[q].user \in Users
    BY <1>8, Slip
  <2>2. CASE slip[q].user = u
    BY <2>1, <2>2, NoDouble DEF u, InFlight
  <2>3. CASE slip[q].user # u
    BY <1>7, <2>1, <2>3 DEF IInv, StakeCovered
  <2> QED BY <2>2, <2>3
<1>14. HeldOnce'
  <2> SUFFICES ASSUME NEW v \in Users, wallet'[v].reserved > 0
               PROVE  \E q \in Held(v)' : wallet'[v].reserved <= slip[q].stake
    BY DEF HeldOnce
  <2>1. wallet'[v].reserved <= wallet[v].reserved /\ wallet[v].reserved > 0
    BY <1>6, <1>7
  <2>2. PICK q \in Held(v) : wallet[v].reserved <= slip[q].stake
    BY <2>1 DEF IInv, HeldOnce
  <2>3. slip[q].stake \in Nat /\ q \in Requests /\ v = slip[q].user
    BY <2>2, Reserver DEF Held
  <2>4. q # p
    <3>1. SUFFICES ASSUME q = p PROVE FALSE
      OBVIOUS
    <3>2. v = u /\ wallet[u].reserved <= a
      BY <2>2, <2>3, <3>1 DEF u, a
    <3> QED BY <1>6, <1>7, <3>2
  <2>5. q \in Held(v)'
    BY <1>4, <1>5, <1>8, <2>2, <2>3, <2>4 DEF Held
  <2> QED BY <1>6, <1>7, <2>1, <2>2, <2>3, <2>5
<1>15. StakesCharged'
  <2> SUFFICES ASSUME NEW v \in Users
               PROVE  wallet'[v].balance =
                          Opening[v] + Moved(ledger', v)
                          - Total(Stakes, {q \in bets : slip[q].user = v})
    BY DEF StakesCharged, Stakes
  <2>1. Moved(ledger', v) = Moved(ledger, v)
    BY <1>2, <1>3, MovedMark
  <2> QED BY <1>7, <2>1, Charged
<1>16. DebitRecorded'
  <2> SUFFICES ASSUME NEW q \in bets
               PROVE  \E t \in Posted(ledger) :
                         /\ ledger'[t].type = "BET_PLACEMENT"
                         /\ ledger'[t].ref = q \/ ledger'[t].status = "ROLLED_BACK"
    BY <1>4 DEF DebitRecorded
  <2> QED BY <1>5 DEF IInv, DebitRecorded
<1> QED BY <1>9, <1>10, <1>11, <1>12, <1>13, <1>14, <1>15, <1>16 DEF IInv

\* The reservation, the bet's transaction and the catch block, with their failures.
LEMMA MoneySteps ==
    ASSUME IInv, NEW p \in Requests, ReserveStake(p) \/ CreateBet(p) \/ CatchFault(p)
    PROVE  IInv'
<1>1. /\ \A f \in Faults : [fault EXCEPT ![p] = f] \in [Requests -> Faults]
      /\ fault \in [Requests -> Faults] /\ kept \subseteq Requests
  BY DEF IInv, TypeOK
<1>2. CASE ReserveStake(p)
  <2>1. CASE Reserve(p, slip[p].user, slip[p].stake) /\ Leave(p, "create", "none")
    BY <1>2, <2>1, ReserveIInv DEF ReserveStake
  <2>2. CASE ~(Reserve(p, slip[p].user, slip[p].stake) /\ Leave(p, "create", "none"))
    <3>1. PICK f \in {"funds", "duplicate", "error"} : Leave(p, "catch", f)
      BY <1>2, <2>2 DEF ReserveStake
    <3>2. /\ pc[p] = "reserve"
          /\ UNCHANGED <<wallet, ledger, lock, open, slip, bets, lapsed, kept>>
      BY <1>2, <2>2 DEF ReserveStake
    <3>3. f \in Faults
      BY DEF Faults
    <3>4. Control(p, "catch")
      BY <1>1, <3>1, <3>2, <3>3 DEF Control, Leave, Goto, InFlight
    <3> QED BY <3>4, ControlIInv
  <2> QED BY <2>1, <2>2
<1>3. CASE CreateBet(p)
  <2>1. CASE Charge(p)
    BY <2>1, ChargeIInv
  <2>2. CASE ~Charge(p)
    <3>1. /\ Leave(p, "catch", "funds") \/ Leave(p, "catch", "error")
          /\ pc[p] = "create"
          /\ UNCHANGED <<wallet, ledger, lock, open, slip, bets, lapsed, kept>>
      BY <1>3, <2>2 DEF CreateBet, Charge
    <3>2. "funds" \in Faults /\ "error" \in Faults
      BY DEF Faults
    <3>3. Control(p, "catch")
      BY <1>1, <3>1, <3>2 DEF Control, Leave, Goto, InFlight
    <3> QED BY <3>3, ControlIInv
  <2> QED BY <2>1, <2>2
<1>4. CASE CatchFault(p)
  <2>1. /\ pc[p] = "catch" /\ Goto(p, "unlock")
        /\ UNCHANGED <<lock, open, slip, fault, bets, lapsed>>
    BY <1>4 DEF CatchFault
  <2>2. CASE Release(slip[p].user, slip[p].stake) /\ UNCHANGED kept
    BY <2>1, <2>2, ReleaseIInv
  <2>3. CASE kept' = kept \cup ({p} \cap Posted(ledger)) /\ UNCHANGED <<wallet, ledger>>
    <3>1. Control(p, "unlock")
      BY <1>1, <2>1, <2>3 DEF Control, Goto, InFlight
    <3> QED BY <3>1, ControlIInv
  <2> QED BY <1>4, <2>2, <2>3 DEF CatchFault
<1> QED BY <1>2, <1>3, <1>4

\* Every step keeps the invariant.
LEMMA NextIInv == IInv /\ [Next]_vars => IInv'
<1> SUFFICES ASSUME IInv, [Next]_vars PROVE IInv'
  OBVIOUS
<1>1. ASSUME NEW p \in Requests, NEW u \in Users, NEW a \in Amounts, Place(p, u, a)
      PROVE  IInv'
  BY <1>1, PlaceIInv
<1>2. ASSUME NEW p \in Requests, Advance(p) \/ Crash(p)
      PROVE  IInv'
  BY <1>2, ControlSteps, MoneySteps DEF Advance
<1>3. ASSUME NEW p \in Requests, OtherWallet(p)
      PROVE  IInv'
  BY <1>3, OtherWalletIInv
<1>4. ASSUME NEW u \in Users, Expire(u)
      PROVE  IInv'
  BY <1>4, ExpireIInv
<1>5. CASE ToggleMarket
  BY <1>5, ToggleIInv DEF ToggleMarket, IInv, TypeOK
<1>6. CASE UNCHANGED vars
  BY <1>6, ToggleIInv DEF vars, IInv, TypeOK
<1> QED BY <1>1, <1>2, <1>3, <1>4, <1>5, <1>6 DEF Next

-------------------------------------------------------------------------------
\* The theorems.

\* The inductive invariant holds of every reachable state.
THEOREM Invariance == Spec => []IInv
<1> QED BY InitIInv, NextIInv, PTL DEF Spec

\* Wallets, rows, locks and slips keep their types; nothing reserved is negative.
THEOREM TypeCorrect == Spec => []TypeOK
<1>1. IInv => TypeOK
  BY DEF IInv
<1> QED BY <1>1, Invariance, PTL

\* Two placements of one user are in flight together only if the lock of one of
\* them expired under it.
THEOREM OneAtATime == Spec => []NoDoubleSubmission
<1>1. IInv => NoDoubleSubmission
  BY NoDouble DEF NoDoubleSubmission
<1> QED BY <1>1, Invariance, PTL

\* What is reserved is covered by the balance, unless an administrator took
\* credited money back.
THEOREM Solvency == Spec => []Solvent
<1>1. IInv => Solvent
  BY DEF IInv
<1> QED BY <1>1, Invariance, PTL

\* Until the bet exists its stake is reserved, and nothing is reserved for longer,
\* unless the placement died or its release failed.
THEOREM Holding == Spec => []StakeHeld
<1>1. IInv => StakeHeld
  <2> SUFFICES ASSUME IInv, NEW u \in Users
               PROVE  wallet[u].reserved <= Total(Stakes, Held(u))
    BY DEF StakeHeld, IInv
  <2>1. wallet[u].reserved \in Nat
    BY WalletNumbers DEF IInv
  <2>2. CASE Held(u) = {}
    <3>1. Total(Stakes, Held(u)) = 0
      BY <2>2, TotalEmpty
    <3>2. ~(wallet[u].reserved > 0)
      BY <2>2 DEF IInv, HeldOnce
    <3> QED BY <2>1, <3>1, <3>2
  <2>3. ASSUME NEW p \in Held(u)
        PROVE  wallet[u].reserved <= Total(Stakes, Held(u))
    <3>1. Held(u) = {p}
      BY <2>3, OneReservation DEF Held
    <3>2. p \in Requests /\ Stakes[p] \in Nat /\ Stakes[p] = slip[p].stake
      BY <2>3, Reserver, StakeNumbers DEF Held, IInv
    <3>3. Total(Stakes, {p}) = Stakes[p]
      <4>1. IsFiniteSet({p})
        BY FS_Singleton
      <4>2. {p} \ {p} = {}
        OBVIOUS
      <4>3. \A x \in {p} : Stakes[x] \in Int
        BY <3>2
      <4>4. Total(Stakes, {p}) = Stakes[p] + Total(Stakes, {p} \ {p})
        BY <4>1, <4>3, p \in {p}, TotalSplit
      <4>5. Total(Stakes, {}) = 0
        BY TotalEmpty
      <4> QED BY <3>2, <4>2, <4>4, <4>5
    <3>4. wallet[u].reserved > 0 => wallet[u].reserved <= slip[p].stake
      BY <3>1 DEF IInv, HeldOnce
    <3> QED BY <2>1, <3>1, <3>2, <3>3, <3>4
  <2> QED BY <2>2, <2>3
<1> QED BY <1>1, Invariance, PTL

\* A wallet has lost exactly the stakes of the bets that exist, whatever failed,
\* crashed or was retried.
THEOREM Charging == Spec => []StakesCharged
<1>1. IInv => StakesCharged
  BY DEF IInv
<1> QED BY <1>1, Invariance, PTL

\* Every bet has the ledger row of its stake, unless that row was rolled back
\* before the bet's transaction looked for it.
THEOREM Recording == Spec => []DebitRecorded
<1>1. IInv => DebitRecorded
  BY DEF IInv
<1> QED BY <1>1, Invariance, PTL
===============================================================================
