------------------------------ MODULE LedgerProofs ------------------------------
(***************************************************************************)
(* Facts about the operators of Ledger that the proofs about the wallet    *)
(* and the bets share: what a row is, and what inserting and marking rows  *)
(* does to the money a ledger moved.                                       *)
(***************************************************************************)
EXTENDS Ledger, TotalsProofs

-------------------------------------------------------------------------------
\* Wallets and ledger rows.

\* A balance-moving row is a row of the table.
LEMMA MoveRowType ==
    ASSUME NEW u \in Users, NEW ty \in Types, NEW a \in Int, NEW b \in Int,
           NEW r \in Refs, NEW k \in Keys
    PROVE  MoveRow(u, ty, a, b, r, k) \in Row
BY DEF MoveRow, Row, Statuses

\* So is the row of a reservation under the code's 'pre-check' reference.
LEMMA ReserveRowType ==
    ASSUME NEW u \in Users, NEW a \in Int, NEW b \in Int
    PROVE  ReserveRow(u, a, b, PreCheck) \in Row
BY DEF ReserveRow, Row, Statuses, Types, Refs, Keys, ReserveKey

\* The updateMany that marks rows ROLLED_BACK changes no column but status.
LEMMA MarkedRow ==
    ASSUME NEW l \in Ledgers, NEW R \in SUBSET Posted(l), NEW t \in Requests
    PROVE  /\ MarkRolledBack(l, R)[t] =
                IF t \in R THEN [l[t] EXCEPT !.status = "ROLLED_BACK"] ELSE l[t]
           /\ t \in R => /\ l[t] \in Row
                         /\ MarkRolledBack(l, R)[t] \in Row
                         /\ MarkRolledBack(l, R)[t].status = "ROLLED_BACK"
                         /\ MarkRolledBack(l, R)[t].type = l[t].type
                         /\ MarkRolledBack(l, R)[t].ref = l[t].ref
                         /\ MarkRolledBack(l, R)[t].key = l[t].key
                         /\ MarkRolledBack(l, R)[t].user = l[t].user
                         /\ MarkRolledBack(l, R)[t].amount = l[t].amount
BY DEF MarkRolledBack, Posted, Ledgers, Row, NoRow, Statuses

\* A row that is posted keeps its columns; only its status may change.
LEMMA MarkedKeeps ==
    ASSUME NEW l \in Ledgers, NEW R \in SUBSET Posted(l), NEW t \in Posted(l)
    PROVE  LET m == MarkRolledBack(l, R)[t]
           IN  /\ m.user = l[t].user /\ m.type = l[t].type
               /\ m.ref = l[t].ref /\ m.key = l[t].key
               /\ m.status \in {l[t].status, "ROLLED_BACK"}
<1>1. t \in Requests
  BY DEF Posted
<1>2. CASE t \in R
  <2> DEFINE m == MarkRolledBack(l, R)[t]
  <2>1. /\ m.status = "ROLLED_BACK" /\ m.type = l[t].type
        /\ m.ref = l[t].ref /\ m.key = l[t].key /\ m.user = l[t].user
    BY <1>1, <1>2, MarkedRow
  <2> HIDE DEF m
  <2>2. QED BY <2>1 DEF m
<1>3. CASE t \notin R
  BY <1>1, <1>3 DEF MarkRolledBack
<1> QED BY <1>2, <1>3

\* Marking rows neither adds nor removes rows, so the ledger keeps its type.
LEMMA MarkedLedger ==
    ASSUME NEW l \in Ledgers, NEW R \in SUBSET Posted(l)
    PROVE  /\ MarkRolledBack(l, R) \in Ledgers
           /\ Posted(MarkRolledBack(l, R)) = Posted(l)
<1>1. MarkRolledBack(l, R) \in Ledgers
  BY MarkedRow DEF MarkRolledBack, Ledgers
<1>2. ASSUME NEW t \in Requests
      PROVE  MarkRolledBack(l, R)[t].status # "NONE" <=> l[t].status # "NONE"
  <2>1. CASE t \in R
    BY <2>1, MarkedRow DEF Posted
  <2>2. CASE t \notin R
    BY <2>2 DEF MarkRolledBack
  <2> QED BY <2>1, <2>2
<1>3. Posted(MarkRolledBack(l, R)) = Posted(l)
  BY <1>2 DEF Posted
<1> QED BY <1>1, <1>3

\* A posted entry is a row; an entry that is not posted is NoRow.
LEMMA PostedRow ==
    ASSUME NEW l \in Ledgers, NEW t \in Requests
    PROVE  /\ t \in Posted(l) <=> l[t] \in Row
           /\ t \notin Posted(l) <=> l[t] = NoRow
BY DEF Posted, Ledgers, Row, NoRow, Statuses

\* Inserting a row adds exactly its id.
LEMMA InsertedLedger ==
    ASSUME NEW l \in Ledgers, NEW p \in Requests, NEW row \in Row
    PROVE  /\ [l EXCEPT ![p] = row] \in Ledgers
           /\ Posted([l EXCEPT ![p] = row]) = Posted(l) \cup {p}
BY DEF Posted, Ledgers, Row, Statuses

\* Marking no row changes nothing.
LEMMA MarkNone ==
    ASSUME NEW l \in Ledgers
    PROVE  MarkRolledBack(l, {}) = l
BY DEF MarkRolledBack, Ledgers

\* The two together, as the transactions that insert a row leave the ledger.
LEMMA MarkedInserted ==
    ASSUME NEW l \in Ledgers, NEW R \in SUBSET Posted(l), NEW p \in Requests,
           p \notin Posted(l), NEW row \in Row
    PROVE  LET m == [MarkRolledBack(l, R) EXCEPT ![p] = row]
           IN  /\ m \in Ledgers /\ Posted(m) = Posted(l) \cup {p} /\ m[p] = row
               /\ \A t \in Posted(l) :
                     /\ m[t].user = l[t].user /\ m[t].type = l[t].type
                     /\ m[t].ref = l[t].ref /\ m[t].key = l[t].key
                     /\ m[t].amount = l[t].amount
                     /\ m[t].status \in {l[t].status, "ROLLED_BACK"}
<1> DEFINE k == MarkRolledBack(l, R)
           m == [k EXCEPT ![p] = row]
<1>1. k \in Ledgers /\ Posted(k) = Posted(l)
  BY MarkedLedger
<1>2. ASSUME NEW t \in Posted(l)
      PROVE  /\ k[t].user = l[t].user /\ k[t].type = l[t].type
             /\ k[t].ref = l[t].ref /\ k[t].key = l[t].key
             /\ k[t].amount = l[t].amount
             /\ k[t].status \in {l[t].status, "ROLLED_BACK"}
  <2>1. t \in Requests /\ l[t] \in Row
    BY PostedRow DEF Posted
  <2>2. CASE t \in R
    <3>1. /\ k[t].status = "ROLLED_BACK" /\ k[t].user = l[t].user /\ k[t].type = l[t].type
          /\ k[t].ref = l[t].ref /\ k[t].key = l[t].key /\ k[t].amount = l[t].amount
      BY <2>1, <2>2, MarkedRow
    <3> HIDE DEF k
    <3> QED BY <3>1
  <2>3. CASE t \notin R
    BY <2>1, <2>3 DEF MarkRolledBack
  <2> QED BY <2>2, <2>3
<1> HIDE DEF k
<1>3. m \in Ledgers /\ Posted(m) = Posted(l) \cup {p}
  BY <1>1, InsertedLedger
<1>4. m[p] = row /\ \A t \in Posted(l) : m[t] = k[t]
  BY <1>1 DEF Ledgers, Posted
<1> HIDE DEF m
<1>5. \A t \in Posted(l) :
         /\ m[t].user = l[t].user /\ m[t].type = l[t].type
         /\ m[t].ref = l[t].ref /\ m[t].key = l[t].key
         /\ m[t].amount = l[t].amount
         /\ m[t].status \in {l[t].status, "ROLLED_BACK"}
  BY <1>2, <1>4
<1> QED BY <1>3, <1>4, <1>5 DEF m, k

\* The column updates keep a wallet a wallet and increment its version.
LEMMA WalletType ==
    ASSUME NEW w \in Wallet, NEW b \in Int
    PROVE  /\ SetBalance(w, b) \in Wallet
           /\ SetBalance(w, b).version = w.version + 1
           /\ SetBalance(w, b).reserved = w.reserved
           /\ SetBalance(w, b).balance = b
           /\ SetReserved(w, b) \in Wallet
           /\ SetReserved(w, b).version = w.version + 1
           /\ SetReserved(w, b).balance = w.balance
           /\ SetReserved(w, b).reserved = b
BY DEF SetBalance, SetReserved, Wallet

\* The amount of a posted row is an integer, so what a ledger moved is one.
LEMMA MovedType ==
    ASSUME NEW l \in Ledgers, IsFiniteSet(Posted(l)), NEW u
    PROVE  Moved(l, u) \in Int
<1> DEFINE f == [t \in Posted(l) |-> l[t].amount]
           S == {t \in Posted(l) : l[t].user = u /\ l[t].type # "BET_PLACEMENT"}
<1>1. \A t \in Posted(l) : l[t] \in Row
  BY PostedRow DEF Posted
<1>2. \A t \in S : f[t] \in Int
  BY <1>1 DEF Row
<1>3. IsFiniteSet(S)
  BY FS_Subset
<1> HIDE DEF f, S
<1>4. Total(f, S) \in Int
  BY <1>2, <1>3, TotalInt
<1> QED BY <1>4 DEF Moved, f, S

\* Two ledgers with the same balance-moving rows of u moved the same.
LEMMA MovedSame ==
    ASSUME NEW l, NEW m, IsFiniteSet(Posted(l)), NEW u,
           {t \in Posted(m) : m[t].user = u /\ m[t].type # "BET_PLACEMENT"} =
               {t \in Posted(l) : l[t].user = u /\ l[t].type # "BET_PLACEMENT"},
           \A t \in Posted(l) : l[t].type # "BET_PLACEMENT" => m[t].amount = l[t].amount
    PROVE  Moved(m, u) = Moved(l, u)
<1> DEFINE f == [t \in Posted(l) |-> l[t].amount]
           g == [t \in Posted(m) |-> m[t].amount]
           S == {t \in Posted(l) : l[t].user = u /\ l[t].type # "BET_PLACEMENT"}
<1>1. \A t \in S : f[t] = g[t]
  BY Zenon
<1>2. IsFiniteSet(S)
  BY FS_Subset
<1>3. Moved(l, u) = Total(f, S) /\ Moved(m, u) = Total(g, S)
  BY DEF Moved
<1> HIDE DEF f, g, S
<1> QED BY <1>1, <1>2, <1>3, TotalSame

\* Marking rows moves no money.
LEMMA MovedMark ==
    ASSUME NEW l \in Ledgers, IsFiniteSet(Posted(l)), NEW u, NEW R \in SUBSET Posted(l)
    PROVE  Moved(MarkRolledBack(l, R), u) = Moved(l, u)
<1> DEFINE m == MarkRolledBack(l, R)
<1>1. Posted(m) = Posted(l)
  BY MarkedLedger
<1>2. \A t \in Posted(l) :
         m[t].user = l[t].user /\ m[t].type = l[t].type /\ m[t].amount = l[t].amount
  BY MarkedRow DEF MarkRolledBack, Posted
<1> HIDE DEF m
<1>3. Moved(m, u) = Moved(l, u)
  BY <1>1, <1>2, MovedSame
<1> QED BY <1>3 DEF m

\* Inserting a row moves its amount, for its user, unless it is a reservation.
LEMMA MovedInsert ==
    ASSUME NEW l \in Ledgers, IsFiniteSet(Posted(l)), NEW u,
           NEW p \in Requests, p \notin Posted(l), NEW row \in Row
    PROVE  Moved([l EXCEPT ![p] = row], u) =
               Moved(l, u) + (IF row.user = u /\ row.type # "BET_PLACEMENT"
                              THEN row.amount ELSE 0)
<1> DEFINE m == [l EXCEPT ![p] = row]
           f == [t \in Posted(l) |-> l[t].amount]
           g == [t \in Posted(m) |-> m[t].amount]
           S == {t \in Posted(l) : l[t].user = u /\ l[t].type # "BET_PLACEMENT"}
           T == {t \in Posted(m) : m[t].user = u /\ m[t].type # "BET_PLACEMENT"}
<1>1. m \in Ledgers /\ Posted(m) = Posted(l) \cup {p}
  BY InsertedLedger
<1>2. m[p] = row /\ \A t \in Posted(l) : m[t] = l[t]
  BY DEF Ledgers, Posted
<1>3. T = IF row.user = u /\ row.type # "BET_PLACEMENT" THEN S \cup {p} ELSE S
  <2> HIDE DEF m
  <2> QED BY <1>1, <1>2
<1>4. p \notin S /\ \A t \in S : g[t] = f[t]
  <2> HIDE DEF m
  <2> QED BY <1>1, <1>2
<1>5. g[p] = row.amount /\ row.amount \in Int
  <2> HIDE DEF m
  <2> QED BY <1>1, <1>2 DEF Row
<1>6. Moved(l, u) = Total(f, S) /\ Moved(m, u) = Total(g, T)
  BY DEF Moved
<1>7. IsFiniteSet(S) /\ IsFiniteSet(S \cup {p})
  <2>1. IsFiniteSet(S)
    BY FS_Subset
  <2> QED BY <2>1, FS_AddElement
<1>8. \A t \in S : f[t] \in Int
  BY PostedRow DEF Posted, Row
<1>9. Total(f, S) \in Int
  <2> HIDE DEF f, S
  <2> QED BY <1>7, <1>8, TotalInt
<1> HIDE DEF f, g, m, S, T
<1>10. Total(g, S) = Total(f, S)
  BY <1>4, <1>7, TotalSame
<1>11. CASE row.user = u /\ row.type # "BET_PLACEMENT"
  <2>1. (S \cup {p}) \ {p} = S
    BY <1>4
  <2>2. \A t \in S \cup {p} : g[t] \in Int
    BY <1>4, <1>5, <1>8
  <2>3. Total(g, S \cup {p}) = g[p] + Total(g, S)
    BY <1>7, <2>1, <2>2, TotalSplit
  <2>4. Moved(m, u) = row.amount + Moved(l, u)
    BY <1>3, <1>5, <1>6, <1>10, <1>11, <2>3
  <2>5. Moved(m, u) = Moved(l, u) + row.amount
    BY <1>5, <1>6, <1>9, <2>4
  <2> QED BY <1>11, <2>5 DEF m
<1>12. CASE ~(row.user = u /\ row.type # "BET_PLACEMENT")
  <2>1. Moved(m, u) = Moved(l, u) + 0
    BY <1>3, <1>6, <1>9, <1>10, <1>12
  <2> QED BY <1>12, <2>1 DEF m
<1> QED BY <1>11, <1>12

\* The same when the transaction that inserts the row marks others first.
LEMMA MovedInserted ==
    ASSUME NEW l \in Ledgers, IsFiniteSet(Posted(l)), NEW R \in SUBSET Posted(l),
           NEW p \in Requests, p \notin Posted(l), NEW row \in Row
    PROVE  /\ IsFiniteSet(Posted([MarkRolledBack(l, R) EXCEPT ![p] = row]))
           /\ \A u : Moved([MarkRolledBack(l, R) EXCEPT ![p] = row], u) =
                         Moved(l, u) + (IF row.user = u /\ row.type # "BET_PLACEMENT"
                                        THEN row.amount ELSE 0)
<1> DEFINE k == MarkRolledBack(l, R)
<1>1. k \in Ledgers /\ Posted(k) = Posted(l)
  BY MarkedLedger
<1>2. ASSUME NEW u
      PROVE  Moved(k, u) = Moved(l, u)
  BY MovedMark
<1> HIDE DEF k
<1>3. IsFiniteSet(Posted([k EXCEPT ![p] = row]))
  <2>1. Posted([k EXCEPT ![p] = row]) = Posted(k) \cup {p}
    BY <1>1, InsertedLedger
  <2>2. IsFiniteSet(Posted(l) \cup {p})
    BY FS_AddElement
  <2> QED BY <1>1, <2>1, <2>2
<1>4. ASSUME NEW u
      PROVE  Moved([k EXCEPT ![p] = row], u) =
                 Moved(l, u) + (IF row.user = u /\ row.type # "BET_PLACEMENT"
                                THEN row.amount ELSE 0)
  <2>1. Moved([k EXCEPT ![p] = row], u) =
            Moved(k, u) + (IF row.user = u /\ row.type # "BET_PLACEMENT"
                           THEN row.amount ELSE 0)
    BY <1>1, MovedInsert
  <2> QED BY <1>2, <2>1
<1> QED BY <1>3, <1>4 DEF k
===============================================================================
