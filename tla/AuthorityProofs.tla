--------------------------- MODULE AuthorityProofs ---------------------------
(***************************************************************************)
(* What the right to trade rests on.  AccountReconciliation: the account,  *)
(* for orders of any size, any number of sessions, snapshots and attempts, *)
(* and whatever happens at the broker without the system.                  *)
(* PromotionEvidence: the sessions a build has behind it.                  *)
(***************************************************************************)
EXTENDS AccountReconciliation, PromotionEvidence, FiniteSetTheorems, SequenceTheorems, TLAPS

-----------------------------------------------------------------------------
(* The inductive invariant.                                                *)

AllOrders == Orders \cup {Foreign}
OrderFact == [state : {"none"} \cup Active \cup Terminal, filled : Nat]
OrderTable == [AllOrders -> OrderFact]
Position == {p \in [total : Nat, sellable : Nat] : p.sellable <= p.total}
FillSet == AllOrders \X (Nat \ {0})
Broker == [cash : Nat, position : Position, orders : OrderTable, fills : SUBSET FillSet]
Answer == Nat \cup Position \cup OrderTable \cup SUBSET FillSet
LedgerRow == [state : {"none", "UNKNOWN"} \cup Active \cup Terminal, filled : Nat, session : Nat]

\* Within a session an order only fills further, or ends.
Advances(x, y) ==
    \/ x = y
    \/ x.filled < y.filled
    \/ x.filled = y.filled /\ x.state \in Active /\ y.state = "CANCELLED"

Progress(a, b) == \A o \in AllOrders : Advances(a[o], b[o])

\* The broker b is a later moment of the session of a: fills only grow, shares move with a fill.
Later(a, b) ==
    /\ a.fills \subseteq b.fills
    /\ a.fills = b.fills => a.position = b.position
    /\ Progress(a.orders, b.orders)

BrokerInv ==
    /\ broker \in Broker
    /\ \A f \in broker.fills : f[2] <= broker.orders[f[1]].filled
    /\ \A f \in broker.fills : f[1] \in Orders => f \in traded
    /\ \A o \in Orders : /\ broker.orders[o].filled <= Shares[o]
                         /\ broker.orders[o].state \in Active => broker.orders[o].filled < Shares[o]
                         /\ ledger[o].state = "none" => broker.orders[o] = NoOrder

LedgerInv ==
    /\ ledger \in [Orders -> LedgerRow]
    /\ \A o \in Orders : ledger[o].filled <= Shares[o]
    /\ known \subseteq traded /\ account.fills \subseteq traded /\ IsFiniteSet(traded)

CounterInv ==
    /\ day \in 1..MaxDay /\ external \in 0..MaxExternal /\ captures \in 0..MaxCaptures
    /\ attempt \in 0..MaxAttempts
    /\ ~Idle => captures >= 1

\* What the answers so far prove of the moment at which the second read began.
ReadInv ==
    /\ reads \in Seq(Answer) /\ Len(reads) <= 8
    /\ Len(reads) >= 3 => reads[3] \in OrderTable /\ Progress(reads[3], broker.orders)
    /\ Len(reads) >= 4 => reads[4] \subseteq broker.fills
    /\ Len(reads) >= 5 => /\ between \in Broker /\ reads[5] = between.cash
                          /\ reads[4] \subseteq between.fills
                          /\ Progress(reads[3], between.orders) /\ Later(between, broker)
    /\ Len(reads) >= 6 => (broker.fills = between.fills => reads[6] = between.position)
    /\ Len(reads) >= 7 => reads[7] \in OrderTable /\ Progress(between.orders, reads[7])
    /\ Len(reads) >= 8 => /\ between.fills \subseteq reads[8]
                          /\ reads[8] = between.fills => reads[6] = between.position

\* The snapshot is the broker at that moment.
SnapshotInv ==
    snapshot # None =>
        /\ reads = <<>> /\ between \in Broker
        /\ snapshot = [id |-> captures, cash |-> between.cash, position |-> between.position,
                       orders |-> between.orders, fills |-> between.fills]

\* Reconciliations that have ended.
Settled == IF Idle THEN captures ELSE captures - 1

\* Expected and observed cash, as a review repeats them.
Amounts == Seq(Int)

\* A review names a snapshot that is gone.
ReviewInv ==
    /\ result.cash \in Amounts
    /\ \A r \in reviewed : r[1] \in Nat /\ r[1] <= Settled

AccountInv ==
    /\ account.cash \in Nat /\ account.total \in Nat /\ account.locked \in 0..account.total
    /\ account.total = Held0 + Net(account.fills)
    /\ Gap(account.cash, Cash0 - Price * Net(account.fills)) <= Tolerance * Settled

IInv == BrokerInv /\ LedgerInv /\ CounterInv /\ ReadInv /\ SnapshotInv /\ ReviewInv /\ AccountInv

-----------------------------------------------------------------------------
(* Moments of one session.                                                 *)

LEMMA AdvancesTransitive ==
    ASSUME NEW x \in OrderFact, NEW y \in OrderFact, NEW z \in OrderFact,
           Advances(x, y), Advances(y, z)
    PROVE  Advances(x, z)
  <1>1. x.filled \in Nat /\ y.filled \in Nat /\ z.filled \in Nat
    BY DEF OrderFact
  <1>. QED  BY <1>1 DEF Advances, Active

\* Whatever was the same before and after was never different in between.
LEMMA AdvancesBack ==
    ASSUME NEW x \in OrderFact, NEW y \in OrderFact, Advances(x, y), Advances(y, x)
    PROVE  x = y
  <1>1. x.filled \in Nat /\ y.filled \in Nat
    BY DEF OrderFact
  <1>. QED  BY <1>1 DEF Advances, Active

LEMMA ProgressTransitive ==
    ASSUME NEW a \in OrderTable, NEW b \in OrderTable, NEW c \in OrderTable,
           Progress(a, b), Progress(b, c)
    PROVE  Progress(a, c)
  <1>. SUFFICES ASSUME NEW o \in AllOrders PROVE Advances(a[o], c[o])
    BY DEF Progress
  <1>1. a[o] \in OrderFact /\ b[o] \in OrderFact /\ c[o] \in OrderFact
    BY DEF OrderTable
  <1>2. Advances(a[o], b[o]) /\ Advances(b[o], c[o])
    BY DEF Progress
  <1>. QED  BY <1>1, <1>2, AdvancesTransitive

LEMMA ProgressBack ==
    ASSUME NEW a \in OrderTable, NEW b \in OrderTable, Progress(a, b), Progress(b, a)
    PROVE  a = b
  <1>1. ASSUME NEW o \in AllOrders PROVE a[o] = b[o]
    <2>1. a[o] \in OrderFact /\ b[o] \in OrderFact
      BY DEF OrderTable
    <2>2. Advances(a[o], b[o]) /\ Advances(b[o], a[o])
      BY DEF Progress
    <2>. QED  BY <2>1, <2>2, AdvancesBack
  <1>. QED  BY <1>1 DEF OrderTable

LEMMA ProgressReflexive ==
    ASSUME NEW a PROVE Progress(a, a)
  BY DEF Progress, Advances

LEMMA BrokerFields ==
    ASSUME NEW b \in Broker
    PROVE  /\ b.cash \in Nat /\ b.position \in Position /\ b.orders \in OrderTable
           /\ b.fills \subseteq FillSet
           /\ b.position.total \in Nat /\ b.position.sellable \in Nat
           /\ b.position.sellable <= b.position.total
  BY DEF Broker, Position

LEMMA LaterTransitive ==
    ASSUME NEW a \in Broker, NEW b \in Broker, NEW c \in Broker, Later(a, b), Later(b, c)
    PROVE  Later(a, c)
  <1>1. Progress(a.orders, c.orders)
    BY BrokerFields, ProgressTransitive DEF Later
  <1>2. a.fills \subseteq c.fills /\ (a.fills = c.fills => a.position = c.position)
    BY DEF Later
  <1>. QED  BY <1>1, <1>2 DEF Later

\* What a read in progress has proved stays proved while the broker goes on.
LEMMA ReadsSurvive ==
    ASSUME BrokerInv, ReadInv, SnapshotInv, broker' \in Broker, Later(broker, broker'),
           UNCHANGED <<reads, between, snapshot, captures>>
    PROVE  ReadInv' /\ SnapshotInv'
  <1>1. broker \in Broker /\ broker.orders \in OrderTable /\ broker'.orders \in OrderTable
    BY BrokerFields DEF BrokerInv
  <1>2. SnapshotInv'
    BY DEF SnapshotInv
  <1>3. Len(reads) >= 3 => Progress(reads[3], broker'.orders)
    BY <1>1, ProgressTransitive DEF ReadInv, Later
  <1>4. Len(reads) >= 4 => reads[4] \subseteq broker'.fills
    BY DEF ReadInv, Later
  <1>5. Len(reads) >= 5 => Later(between, broker')
    BY <1>1, LaterTransitive DEF ReadInv
  <1>6. ASSUME Len(reads) >= 6, broker'.fills = between.fills PROVE reads[6] = between.position
    <2>1. Len(reads) \in Nat
      BY DEF ReadInv
    <2>2. between.fills \subseteq broker.fills /\ broker.fills \subseteq broker'.fills
      BY <1>6, <2>1 DEF ReadInv, Later
    <2>. QED  BY <1>6, <2>2 DEF ReadInv
  <1>. QED  BY <1>2, <1>3, <1>4, <1>5, <1>6 DEF ReadInv

-----------------------------------------------------------------------------
(* The account while nothing is adopted.                                   *)

LEMMA Constants ==
    ASSUME ReconciliationAssumption
    PROVE  /\ BuyShares \in Nat \ {0} /\ SellShares \in Nat \ {0} /\ Price \in Nat \ {0}
           /\ MaxDay \in Nat \ {0} /\ MaxCaptures \in Nat \ {0} /\ MaxAttempts \in Nat \ {0}
           /\ Tolerance \in Nat /\ Cash0 \in Nat /\ Held0 \in Nat /\ MaxExternal \in Nat
           /\ \A o \in Orders : Shares[o] \in Nat \ {0}
  BY DEF ReconciliationAssumption, Orders, Shares

LEMMA TimesIsNat ==
    ASSUME NEW t \in Nat, NEW n \in Nat
    PROVE  t * n \in Nat
  OBVIOUS

LEMMA TimesGrows ==
    ASSUME NEW t \in Nat, NEW m \in Nat, NEW n \in Nat, m <= n
    PROVE  t * m <= t * n
  <1>1. n - m \in Nat /\ t * n = t * m + t * (n - m) /\ t * (n - m) \in Nat
    OBVIOUS
  <1>2. t * m \in Nat /\ t * n \in Nat
    OBVIOUS
  <1>. QED  BY <1>1, <1>2

\* Of finitely many fills the net number of shares is a number, and counts each fill once.
LEMMA NetOfFills ==
    ASSUME NEW S, IsFiniteSet(S)
    PROVE  Bought(S) \in Nat /\ Sold(S) \in Nat /\ Net(S) \in Int
  <1>1. IsFiniteSet({f \in S : f[1] = "buy"}) /\ IsFiniteSet({f \in S : f[1] = "sell"})
    BY FS_Subset, Zenon
  <1>2. Cardinality({f \in S : f[1] = "buy"}) \in Nat /\ Cardinality({f \in S : f[1] = "sell"}) \in Nat
    BY <1>1, FS_CardinalityType
  <1>. QED  BY <1>2 DEF Bought, Sold, Net

LEMMA DisjointCount ==
    ASSUME NEW A, NEW B, IsFiniteSet(A), IsFiniteSet(B), A \cap B = {}
    PROVE  /\ Cardinality(A \cup B) = Cardinality(A) + Cardinality(B)
           /\ Cardinality(A) \in Nat /\ Cardinality(B) \in Nat
  <1>1. Cardinality(A \cup B) = Cardinality(A) + Cardinality(B) - Cardinality(A \cap B)
    BY FS_Union
  <1>2. Cardinality(A \cap B) = 0
    BY FS_EmptySet
  <1>3. Cardinality(A) \in Nat /\ Cardinality(B) \in Nat
    BY FS_CardinalityType
  <1>. QED  BY <1>1, <1>2, <1>3

LEMMA NetAdds ==
    ASSUME NEW S, NEW T, IsFiniteSet(S), IsFiniteSet(T), S \cap T = {}
    PROVE  Net(S \cup T) = Net(S) + Net(T)
  <1>1. ASSUME NEW o
        PROVE  LET Of(A) == {f \in A : f[1] = o}
               IN  /\ Cardinality(Of(S \cup T)) = Cardinality(Of(S)) + Cardinality(Of(T))
                   /\ Cardinality(Of(S)) \in Nat /\ Cardinality(Of(T)) \in Nat
    <2>. DEFINE A == {f \in S : f[1] = o}
                B == {f \in T : f[1] = o}
    <2>1. {f \in S \cup T : f[1] = o} = A \cup B /\ A \cap B = {}
      OBVIOUS
    <2>2. A \subseteq S /\ B \subseteq T
      OBVIOUS
    <2>3. IsFiniteSet(A) /\ IsFiniteSet(B)
      BY <2>2, FS_Subset
    <2>4. /\ Cardinality(A \cup B) = Cardinality(A) + Cardinality(B)
          /\ Cardinality(A) \in Nat /\ Cardinality(B) \in Nat
      BY <2>1, <2>3, DisjointCount
    <2>. QED  BY <2>1, <2>4
  <1>2. /\ Bought(S \cup T) = Bought(S) + Bought(T) /\ Bought(S) \in Nat /\ Bought(T) \in Nat
        /\ Sold(S \cup T) = Sold(S) + Sold(T) /\ Sold(S) \in Nat /\ Sold(T) \in Nat
    BY <1>1 DEF Bought, Sold
  <1>. QED  BY <1>2 DEF Net

LEMMA SettledIsNat ==
    ASSUME ReconciliationAssumption, CounterInv
    PROVE  Settled \in Nat /\ captures \in Nat
  BY Constants DEF CounterInv, Settled

LEMMA SettledStaysNat ==
    ASSUME ReconciliationAssumption, CounterInv'
    PROVE  Settled' \in Nat
  <1>1. captures' \in Nat /\ (~Idle' => captures' >= 1)
    BY Constants DEF CounterInv
  <1>. DEFINE c == captures'
  <1>2. Settled' = IF Idle' THEN c ELSE c - 1
    BY DEF Settled
  <1>3. c \in Nat /\ (~Idle' => c >= 1)
    BY <1>1
  <1>. HIDE DEF c
  <1>. QED  BY <1>2, <1>3

\* A step that adopts nothing leaves the account as exact as it was.
LEMMA NothingAdopted ==
    ASSUME ReconciliationAssumption, IInv, CounterInv', Settled <= Settled',
           UNCHANGED <<account, reviewed>>, result'.cash \in Amounts
    PROVE  ReviewInv' /\ AccountInv'
  <1>1. Settled \in Nat /\ Settled' \in Nat
    BY SettledIsNat, SettledStaysNat DEF IInv
  <1>2. Tolerance \in Nat /\ Cash0 \in Nat /\ Price \in Nat
    BY Constants
  <1>3. /\ Tolerance * Settled <= Tolerance * (Settled')
        /\ Tolerance * Settled \in Nat /\ Tolerance * (Settled') \in Nat
    <2>1. Tolerance * Settled <= Tolerance * (Settled')
      BY <1>1, <1>2, TimesGrows
    <2>2. Tolerance * Settled \in Nat /\ Tolerance * (Settled') \in Nat
      BY <1>1, <1>2, TimesIsNat
    <2>. QED  BY <2>1, <2>2
  <1>. DEFINE g == Gap(account.cash, Cash0 - Price * Net(account.fills))
  <1>4. g \in Int /\ g <= Tolerance * Settled
    <2>1. Net(account.fills) \in Int /\ account.cash \in Nat
      BY NetOfFills, FS_Subset DEF IInv, LedgerInv, AccountInv
    <2>. QED  BY <1>2, <2>1 DEF Gap, IInv, AccountInv
  <1>5. g <= Tolerance * (Settled')
    <2>. HIDE DEF g
    <2>. QED  BY <1>3, <1>4
  <1>6. AccountInv'
    BY <1>5 DEF IInv, AccountInv
  <1>7. ReviewInv'
    <2>1. ASSUME NEW r \in reviewed PROVE r[1] \in Nat /\ r[1] <= Settled'
      BY <1>1 DEF IInv, ReviewInv
    <2>. QED  BY <2>1 DEF ReviewInv
  <1>. QED  BY <1>6, <1>7

-----------------------------------------------------------------------------
(* The steps of the broker.                                                *)

\* During a session the broker only moves on, and nobody else moves with it.
LEMMA BrokerMoves ==
    ASSUME ReconciliationAssumption, IInv, BrokerInv', LedgerInv', external' \in 0..MaxExternal,
           Later(broker, broker'),
           UNCHANGED <<day, account, reads, attempt, captures, snapshot, result, reviewed, between>>
    PROVE  IInv'
  <1>1. CounterInv' /\ Settled' = Settled
    BY DEF IInv, CounterInv, Settled, Idle
  <1>2. Settled <= Settled'
    BY <1>1, SettledIsNat DEF IInv
  <1>3. ReviewInv' /\ AccountInv'
    BY <1>1, <1>2, NothingAdopted DEF IInv, ReviewInv
  <1>4. ReadInv' /\ SnapshotInv'
    BY ReadsSurvive DEF IInv, BrokerInv
  <1>. QED  BY <1>1, <1>3, <1>4 DEF IInv

LEMMA FillStep ==
    ASSUME ReconciliationAssumption, IInv, NEW o \in Orders, Fill(o)
    PROVE  IInv'
  <1>. DEFINE x == broker.orders[o]
              k == x.filled + 1
              y == [state |-> IF k = Shares[o] THEN "FILLED" ELSE "PARTIALLY_FILLED", filled |-> k]
              sign == IF o = "buy" THEN 1 ELSE -1
  <1>0. /\ broker \in Broker /\ o \in AllOrders /\ x \in OrderFact /\ x.filled \in Nat
        /\ Shares[o] \in Nat /\ x.filled < Shares[o] /\ x.state \in Active
        /\ Price \in Nat /\ o # Foreign
    BY Constants, BrokerFields
       DEF IInv, BrokerInv, Fill, OrderTable, OrderFact, AllOrders, Orders, Foreign
  <1>1. broker' = [cash |-> broker.cash - sign * Price,
                   position |-> [total |-> broker.position.total + sign,
                                 sellable |-> IF o = "buy" THEN broker.position.sellable
                                              ELSE broker.position.sellable - 1],
                   orders |-> [broker.orders EXCEPT ![o] = y],
                   fills |-> broker.fills \cup {<<o, k>>}]
    BY <1>0 DEF Fill, Broker, Position
  <1>2. /\ traded' = traded \cup {<<o, k>>}
        /\ UNCHANGED <<day, ledger, known, account, reads, attempt, captures, snapshot, result,
                       reviewed, external, between>>
    BY DEF Fill, ledgerVars, readVars
  <1>3. /\ broker.cash - sign * Price \in Nat
        /\ broker'.position \in Position
    <2>1. broker.cash \in Nat /\ broker.position.total \in Nat /\ broker.position.sellable \in Nat
          /\ broker.position.sellable <= broker.position.total
      BY <1>0, BrokerFields
    <2>2. IF o = "buy" THEN broker.cash >= Price ELSE broker.position.sellable > 0
      BY DEF Fill
    <2>3. CASE o = "buy"
      BY <1>0, <1>1, <2>1, <2>2, <2>3 DEF Position
    <2>4. CASE o # "buy"
      BY <1>0, <1>1, <2>1, <2>2, <2>4 DEF Position
    <2>. QED  BY <2>3, <2>4
  <1>4. y \in OrderFact /\ y.filled = k /\ k \in Nat \ {0} /\ k <= Shares[o]
        /\ (y.state \in Active => k < Shares[o])
    BY <1>0 DEF OrderFact, Active, Terminal
  <1>. HIDE DEF y, k, x, sign
  <1>5. broker'.orders \in OrderTable /\ broker'.orders[o] = y
        /\ \A p \in AllOrders \ {o} : broker'.orders[p] = broker.orders[p]
    BY <1>0, <1>1, <1>4, BrokerFields DEF OrderTable
  <1>6. broker'.fills = broker.fills \cup {<<o, k>>} /\ broker'.fills \subseteq FillSet
    BY <1>0, <1>1, <1>4, BrokerFields DEF FillSet
  <1>7. broker' \in Broker
    BY <1>1, <1>3, <1>5, <1>6 DEF Broker
  <1>8. k = x.filled + 1
    BY DEF k
  <1>9. x = broker.orders[o]
    BY DEF x
  <1>10. <<o, k>> \notin broker.fills
    <2>. SUFFICES ASSUME <<o, k>> \in broker.fills PROVE FALSE
      OBVIOUS
    <2>1. k <= x.filled
      BY <1>9 DEF IInv, BrokerInv
    <2>. QED  BY <1>0, <1>8, <2>1
  <1>11. Later(broker, broker')
    <2>1. Progress(broker.orders, broker'.orders)
      <3>1. Advances(broker.orders[o], broker'.orders[o])
        BY <1>0, <1>4, <1>5, <1>8, <1>9 DEF Advances
      <3>. QED  BY <3>1, <1>5 DEF Progress, Advances
    <2>2. broker.fills \subseteq broker'.fills /\ broker.fills # broker'.fills
      BY <1>6, <1>10
    <2>. QED  BY <2>1, <2>2 DEF Later
  <1>12. BrokerInv'
    <2>1. ASSUME NEW f \in broker'.fills PROVE f[2] <= broker'.orders[f[1]].filled
      <3>1. CASE f = <<o, k>>
        BY <1>4, <1>5, <3>1
      <3>2. CASE f \in broker.fills /\ f[1] = o
        <4>1. f[2] \in Nat /\ f[2] <= x.filled
          BY <1>0, <1>9, <3>2, BrokerFields DEF IInv, BrokerInv, FillSet
        <4>. QED  BY <1>0, <1>4, <1>5, <1>8, <3>2, <4>1
      <3>3. CASE f \in broker.fills /\ f[1] # o
        <4>1. f[1] \in AllOrders
          BY <1>0, <3>3, BrokerFields DEF FillSet
        <4>. QED  BY <1>5, <3>3, <4>1 DEF IInv, BrokerInv
      <3>. QED  BY <1>6, <3>1, <3>2, <3>3
    <2>2. \A f \in broker'.fills : f[1] \in Orders => f \in traded'
      BY <1>2, <1>6 DEF IInv, BrokerInv
    <2>3. ASSUME NEW p \in Orders
          PROVE  /\ broker'.orders[p].filled <= Shares[p]
                 /\ broker'.orders[p].state \in Active => broker'.orders[p].filled < Shares[p]
                 /\ ledger'[p].state = "none" => broker'.orders[p] = NoOrder
      <3>1. CASE p = o
        <4>1. ledger[o].state # "none"
          BY <1>0, <1>9 DEF IInv, BrokerInv, NoOrder, Active
        <4>. QED  BY <1>2, <1>4, <1>5, <3>1, <4>1
      <3>2. CASE p # o
        BY <1>2, <1>5, <3>2 DEF IInv, BrokerInv, AllOrders
      <3>. QED  BY <3>1, <3>2
    <2>. QED  BY <1>7, <2>1, <2>2, <2>3 DEF BrokerInv
  <1>13. LedgerInv'
    <2>1. IsFiniteSet(traded')
      BY <1>2, FS_AddElement DEF IInv, LedgerInv
    <2>. QED  BY <1>2, <2>1 DEF IInv, LedgerInv
  <1>14. external' \in 0..MaxExternal
    BY <1>2 DEF IInv, CounterInv
  <1>. QED  BY <1>2, <1>11, <1>12, <1>13, <1>14, BrokerMoves

LEMMA EndOrderStep ==
    ASSUME ReconciliationAssumption, IInv, NEW o \in Orders, EndOrder(o)
    PROVE  IInv'
  <1>. DEFINE x == broker.orders[o]
              y == [state |-> "CANCELLED", filled |-> x.filled]
  <1>0. /\ broker \in Broker /\ o \in AllOrders /\ x \in OrderFact /\ x.filled \in Nat
        /\ x.state \in Active
    BY BrokerFields DEF IInv, BrokerInv, EndOrder, OrderTable, OrderFact, AllOrders
  <1>1. broker' = [cash |-> broker.cash, position |-> broker.position,
                   orders |-> [broker.orders EXCEPT ![o] = y], fills |-> broker.fills]
    BY <1>0 DEF EndOrder, Broker, OrderTable, OrderFact
  <1>2. UNCHANGED <<day, ledger, known, account, reads, attempt, captures, snapshot, result,
                    reviewed, external, between, traded>>
    BY DEF EndOrder, ledgerVars, readVars, history
  <1>3. y \in OrderFact /\ y.filled = x.filled /\ y.state = "CANCELLED"
    BY <1>0 DEF OrderFact, Terminal
  <1>. HIDE DEF y
  <1>4. broker'.orders \in OrderTable /\ broker'.orders[o] = y
        /\ \A p \in AllOrders \ {o} : broker'.orders[p] = broker.orders[p]
    BY <1>0, <1>1, <1>3, BrokerFields DEF OrderTable
  <1>5. broker' \in Broker /\ broker'.fills = broker.fills /\ broker'.position = broker.position
    BY <1>0, <1>1, <1>4, BrokerFields DEF Broker
  <1>6. Later(broker, broker')
    <2>1. Progress(broker.orders, broker'.orders)
      BY <1>0, <1>3, <1>4 DEF Progress, Advances
    <2>. QED  BY <1>5, <2>1 DEF Later
  <1>7. BrokerInv'
    <2>1. ASSUME NEW p \in AllOrders PROVE broker'.orders[p].filled = broker.orders[p].filled
      BY <1>3, <1>4
    <2>2. ASSUME NEW f \in broker'.fills PROVE f[2] <= broker'.orders[f[1]].filled
      <3>1. f[1] \in AllOrders
        BY <1>0, <1>5, BrokerFields DEF FillSet
      <3>. QED  BY <1>5, <2>1, <3>1 DEF IInv, BrokerInv
    <2>3. ASSUME NEW p \in Orders
          PROVE  /\ broker'.orders[p].filled <= Shares[p]
                 /\ broker'.orders[p].state \in Active => broker'.orders[p].filled < Shares[p]
                 /\ ledger'[p].state = "none" => broker'.orders[p] = NoOrder
      <3>1. CASE p = o
        <4>1. ledger[o].state # "none"
          BY <1>0 DEF IInv, BrokerInv, NoOrder, Active
        <4>. QED  BY <1>0, <1>2, <1>3, <1>4, <3>1, <4>1 DEF IInv, BrokerInv, Active
      <3>2. CASE p # o
        BY <1>2, <1>4, <3>2 DEF IInv, BrokerInv, AllOrders
      <3>. QED  BY <3>1, <3>2
    <2>. QED  BY <1>2, <1>5, <2>2, <2>3 DEF IInv, BrokerInv
  <1>8. LedgerInv' /\ external' \in 0..MaxExternal
    BY <1>2 DEF IInv, LedgerInv, CounterInv
  <1>. QED  BY <1>2, <1>6, <1>7, <1>8, BrokerMoves

LEMMA CashStep ==
    ASSUME ReconciliationAssumption, IInv, NEW d \in Int, CashMoves(d)
    PROVE  IInv'
  <1>1. broker' = [cash |-> broker.cash + d, position |-> broker.position,
                   orders |-> broker.orders, fills |-> broker.fills]
    BY DEF CashMoves, IInv, BrokerInv, Broker
  <1>2. UNCHANGED <<day, ledger, known, account, reads, attempt, captures, snapshot, result,
                    reviewed, between, traded>>
    BY DEF CashMoves, ledgerVars, readVars, history
  <1>3. broker.cash + d \in Nat
    BY BrokerFields DEF CashMoves, IInv, BrokerInv
  <1>4. broker' \in Broker
    BY <1>1, <1>3, BrokerFields DEF IInv, BrokerInv, Broker
  <1>5. BrokerInv'
    BY <1>1, <1>2, <1>4 DEF IInv, BrokerInv
  <1>6. Later(broker, broker')
    BY <1>1, ProgressReflexive DEF Later
  <1>7. external' \in 0..MaxExternal
    BY Constants DEF CashMoves, IInv, CounterInv
  <1>8. LedgerInv'
    BY <1>2 DEF IInv, LedgerInv
  <1>. QED  BY <1>2, <1>5, <1>6, <1>7, <1>8, BrokerMoves

LEMMA HandStep ==
    ASSUME ReconciliationAssumption, IInv, TradeByHand
    PROVE  IInv'
  <1>. DEFINE y == [state |-> "FILLED", filled |-> 1]
  <1>0. broker \in Broker /\ Foreign \in AllOrders /\ broker.orders[Foreign] = NoOrder
        /\ Foreign \notin Orders
    BY DEF IInv, BrokerInv, TradeByHand, AllOrders, Foreign, Orders
  <1>1. broker' = [cash |-> broker.cash - Price,
                   position |-> [total |-> broker.position.total + 1,
                                 sellable |-> broker.position.sellable],
                   orders |-> [broker.orders EXCEPT ![Foreign] = y],
                   fills |-> broker.fills \cup {<<Foreign, 1>>}]
    BY <1>0 DEF TradeByHand, Broker, Position
  <1>2. UNCHANGED <<day, ledger, known, account, reads, attempt, captures, snapshot, result,
                    reviewed, between, traded>>
    BY DEF TradeByHand, ledgerVars, readVars, history
  <1>3. broker'.cash \in Nat /\ broker'.position \in Position
    <2>1. broker.cash \in Nat /\ broker.position.total \in Nat /\ broker.position.sellable \in Nat
          /\ broker.position.sellable <= broker.position.total /\ Price \in Nat
      BY <1>0, BrokerFields, Constants
    <2>2. broker.cash >= Price
      BY DEF TradeByHand
    <2>. QED  BY <1>1, <2>1, <2>2 DEF Position
  <1>4. y \in OrderFact /\ y.filled = 1
    BY DEF OrderFact, Terminal
  <1>. HIDE DEF y
  <1>5. broker'.orders \in OrderTable /\ broker'.orders[Foreign] = y
        /\ \A p \in Orders : broker'.orders[p] = broker.orders[p]
    BY <1>0, <1>1, <1>4, BrokerFields DEF OrderTable, AllOrders
  <1>6. broker'.fills = broker.fills \cup {<<Foreign, 1>>} /\ broker'.fills \subseteq FillSet
    BY <1>0, <1>1, BrokerFields DEF FillSet
  <1>7. broker' \in Broker
    BY <1>1, <1>3, <1>5, <1>6 DEF Broker
  <1>8. ASSUME NEW f \in broker.fills PROVE f[1] \in Orders
    <2>1. f \in FillSet /\ f[2] <= broker.orders[f[1]].filled
      BY <1>0, BrokerFields DEF IInv, BrokerInv
    <2>2. f[1] \in AllOrders /\ f[2] \in Nat \ {0}
      BY <2>1 DEF FillSet
    <2>3. f[1] # Foreign
      BY <1>0, <2>1, <2>2 DEF NoOrder
    <2>. QED  BY <2>2, <2>3 DEF AllOrders
  <1>9. Later(broker, broker')
    <2>1. Progress(broker.orders, broker'.orders)
      BY <1>0, <1>4, <1>5 DEF Progress, Advances, AllOrders, NoOrder
    <2>2. <<Foreign, 1>> \notin broker.fills
      BY <1>0, <1>8
    <2>. QED  BY <1>6, <2>1, <2>2 DEF Later
  <1>10. BrokerInv'
    <2>1. ASSUME NEW f \in broker'.fills PROVE f[2] <= broker'.orders[f[1]].filled
      <3>1. CASE f = <<Foreign, 1>>
        BY <1>4, <1>5, <3>1
      <3>2. CASE f \in broker.fills
        BY <1>5, <1>8, <3>2 DEF IInv, BrokerInv
      <3>. QED  BY <1>6, <3>1, <3>2
    <2>2. ASSUME NEW f \in broker'.fills, f[1] \in Orders PROVE f \in traded'
      BY <1>0, <1>2, <1>6, <2>2 DEF IInv, BrokerInv
    <2>. QED  BY <1>2, <1>5, <1>7, <2>1, <2>2 DEF IInv, BrokerInv
  <1>11. external' \in 0..MaxExternal
    BY Constants DEF TradeByHand, IInv, CounterInv
  <1>12. LedgerInv'
    BY <1>2 DEF IInv, LedgerInv
  <1>. QED  BY <1>2, <1>9, <1>10, <1>11, <1>12, BrokerMoves

LEMMA NothingRead ==
    ASSUME reads' = <<>>, snapshot' = None
    PROVE  ReadInv' /\ SnapshotInv' /\ Idle'
  <1>1. reads' \in Seq(Answer) /\ Len(reads') = 0
    BY EmptySeq
  <1>. QED  BY <1>1 DEF ReadInv, SnapshotInv, Idle

\* The steps that are taken only while no snapshot is read or reconciled.
LEMMA BetweenSnapshots ==
    ASSUME ReconciliationAssumption, IInv, Idle, BrokerInv', LedgerInv', day' \in 1..MaxDay,
           external' \in 0..MaxExternal, UNCHANGED <<account, readVars, result, reviewed>>
    PROVE  IInv'
  <1>1. reads' = <<>> /\ snapshot' = None /\ UNCHANGED <<captures, attempt>>
    BY DEF Idle, readVars
  <1>2. ReadInv' /\ SnapshotInv' /\ Idle'
    BY <1>1, NothingRead
  <1>3. CounterInv' /\ Settled' = Settled
    BY <1>1, <1>2 DEF IInv, CounterInv, Settled
  <1>4. Settled <= Settled'
    BY <1>3, SettledIsNat DEF IInv
  <1>5. ReviewInv' /\ AccountInv'
    BY <1>3, <1>4, NothingAdopted DEF IInv, ReviewInv
  <1>. QED  BY <1>2, <1>3, <1>5 DEF IInv

LEMMA OvernightStep ==
    ASSUME ReconciliationAssumption, IInv, NEW credited \in 0..1, Overnight(credited)
    PROVE  IInv'
  <1>. DEFINE held == broker.position.total + credited
              none == [o \in AllOrders |-> NoOrder]
  <1>0. broker \in Broker /\ broker.orders \in OrderTable /\ held \in Nat
    BY BrokerFields DEF IInv, BrokerInv
  <1>1. broker' = [cash |-> broker.cash, position |-> [total |-> held, sellable |-> held],
                   orders |-> none, fills |-> {}]
    BY <1>0 DEF Overnight, Broker, OrderTable
  <1>2. UNCHANGED <<ledger, known, account, readVars, result, reviewed, traded>> /\ Idle
    BY DEF Overnight, ledgerVars, Idle
  <1>3. none \in OrderTable /\ \A o \in AllOrders : none[o] = NoOrder
    BY DEF OrderTable, OrderFact, NoOrder
  <1>. HIDE DEF none, held
  <1>4. broker' \in Broker
    BY <1>0, <1>1, <1>3, BrokerFields DEF Broker, Position
  <1>5. BrokerInv'
    <2>1. ASSUME NEW p \in Orders
          PROVE  /\ broker'.orders[p].filled <= Shares[p]
                 /\ broker'.orders[p].state \in Active => broker'.orders[p].filled < Shares[p]
                 /\ broker'.orders[p] = NoOrder
      BY <1>1, <1>3, Constants DEF AllOrders, NoOrder, Active
    <2>. QED  BY <1>1, <1>4, <2>1 DEF BrokerInv
  <1>6. LedgerInv'
    BY <1>2 DEF IInv, LedgerInv
  <1>7. day' \in 1..MaxDay /\ external' \in 0..MaxExternal
    BY Constants DEF Overnight, IInv, CounterInv
  <1>. QED  BY <1>2, <1>5, <1>6, <1>7, BetweenSnapshots

LEMMA PlaceStep ==
    ASSUME ReconciliationAssumption, IInv, NEW o \in Orders, NEW lost \in BOOLEAN, Place(o, lost)
    PROVE  IInv'
  <1>. DEFINE y == [state |-> "ACKNOWLEDGED", filled |-> 0]
              row == [state |-> IF lost THEN "UNKNOWN" ELSE "ACKNOWLEDGED", filled |-> 0,
                      session |-> day]
  <1>0. broker \in Broker /\ broker.orders \in OrderTable /\ o \in AllOrders
        /\ broker.orders[o] = NoOrder /\ Shares[o] \in Nat \ {0}
    BY Constants, BrokerFields DEF IInv, BrokerInv, Place, AllOrders
  <1>1. broker' = [cash |-> broker.cash, position |-> broker.position,
                   orders |-> [broker.orders EXCEPT ![o] = y], fills |-> broker.fills]
    BY <1>0 DEF Place, Broker, OrderTable, NoOrder
  <1>2. /\ ledger' = [ledger EXCEPT ![o] = row] /\ Idle
        /\ UNCHANGED <<day, known, account, readVars, result, reviewed, external, traded>>
    BY DEF Place, history
  <1>3. y \in OrderFact /\ y.filled = 0 /\ row \in LedgerRow /\ row.filled = 0 /\ row.state # "none"
    BY DEF OrderFact, LedgerRow, Active, IInv, CounterInv
  <1>. HIDE DEF y, row
  <1>4. /\ broker'.orders \in OrderTable /\ broker'.orders[o] = y
        /\ \A p \in AllOrders \ {o} : broker'.orders[p] = broker.orders[p]
    BY <1>0, <1>1, <1>3 DEF OrderTable
  <1>5. broker' \in Broker /\ broker'.fills = broker.fills
    BY <1>0, <1>1, <1>4, BrokerFields DEF Broker
  <1>6. /\ ledger' \in [Orders -> LedgerRow] /\ ledger'[o] = row
        /\ \A p \in Orders \ {o} : ledger'[p] = ledger[p]
    BY <1>2, <1>3 DEF IInv, LedgerInv
  <1>7. BrokerInv'
    <2>1. ASSUME NEW f \in broker'.fills PROVE f[2] <= broker'.orders[f[1]].filled
      <3>1. f[1] \in AllOrders /\ f[2] <= broker.orders[f[1]].filled
        BY <1>0, <1>5, BrokerFields DEF IInv, BrokerInv, FillSet
      <3>2. broker'.orders[f[1]].filled = broker.orders[f[1]].filled
        BY <1>0, <1>3, <1>4, <3>1 DEF NoOrder
      <3>. QED  BY <3>1, <3>2
    <2>2. ASSUME NEW p \in Orders
          PROVE  /\ broker'.orders[p].filled <= Shares[p]
                 /\ broker'.orders[p].state \in Active => broker'.orders[p].filled < Shares[p]
                 /\ ledger'[p].state = "none" => broker'.orders[p] = NoOrder
      <3>1. CASE p = o
        BY <1>0, <1>3, <1>4, <1>6, <3>1
      <3>2. CASE p # o
        BY <1>4, <1>6, <3>2 DEF IInv, BrokerInv, AllOrders
      <3>. QED  BY <3>1, <3>2
    <2>. QED  BY <1>2, <1>5, <2>1, <2>2 DEF IInv, BrokerInv
  <1>8. LedgerInv'
    BY <1>0, <1>2, <1>3, <1>6 DEF IInv, LedgerInv
  <1>. QED  BY <1>2, <1>7, <1>8, BetweenSnapshots DEF IInv, CounterInv

LEMMA IngestStep ==
    ASSUME ReconciliationAssumption, IInv, NEW o \in Orders, Ingest(o)
    PROVE  IInv'
  <1>. DEFINE row == [state |-> broker.orders[o].state, filled |-> broker.orders[o].filled,
                      session |-> ledger[o].session]
  <1>0. broker.orders[o] \in OrderFact /\ ledger \in [Orders -> LedgerRow]
        /\ broker.orders[o].filled <= Shares[o] /\ broker.orders[o].state # "none"
    BY BrokerFields DEF IInv, BrokerInv, LedgerInv, OrderTable, AllOrders, Ingest
  <1>1. ledger' = [ledger EXCEPT ![o] = row]
    <2>. DEFINE half == [ledger EXCEPT ![o].state = broker.orders[o].state]
    <2>1. ledger' = [half EXCEPT ![o].filled = broker.orders[o].filled]
      BY DEF Ingest
    <2>2. half = [p \in Orders |-> IF p = o THEN [ledger[o] EXCEPT !.state = broker.orders[o].state]
                                   ELSE ledger[p]]
      BY <1>0
    <2>. HIDE DEF half
    <2>3. ledger' = [p \in Orders |-> IF p = o THEN [half[o] EXCEPT !.filled = broker.orders[o].filled]
                                      ELSE half[p]]
      BY <2>1, <2>2
    <2>4. [half[o] EXCEPT !.filled = broker.orders[o].filled] = row
      <3>1. half[o] = [state |-> broker.orders[o].state, filled |-> ledger[o].filled,
                       session |-> ledger[o].session]
        BY <1>0, <2>2 DEF LedgerRow
      <3>. QED  BY <3>1
    <2>. QED  BY <1>0, <2>2, <2>3, <2>4
  <1>2. /\ Idle /\ known' = known \cup {f \in broker.fills : f[1] = o}
        /\ UNCHANGED <<day, broker, account, readVars, result, reviewed, external, traded>>
    BY DEF Ingest, history
  <1>3. row \in LedgerRow /\ row.filled = broker.orders[o].filled /\ row.state # "none"
    BY <1>0 DEF OrderFact, LedgerRow
  <1>. HIDE DEF row
  <1>4. /\ ledger' \in [Orders -> LedgerRow] /\ ledger'[o] = row
        /\ \A p \in Orders \ {o} : ledger'[p] = ledger[p]
    BY <1>0, <1>1, <1>3
  <1>5. BrokerInv'
    BY <1>2, <1>3, <1>4 DEF IInv, BrokerInv
  <1>6. known' \subseteq traded'
    BY <1>2 DEF IInv, BrokerInv, LedgerInv
  <1>7. LedgerInv'
    BY <1>0, <1>2, <1>3, <1>4, <1>6 DEF IInv, LedgerInv
  <1>. QED  BY <1>2, <1>5, <1>7, BetweenSnapshots DEF IInv, CounterInv

-----------------------------------------------------------------------------
(* Reading a snapshot.                                                     *)

\* A step of the collector or of the reconciliation moves neither broker nor ledger.
LEMMA OnlyReads ==
    ASSUME ReconciliationAssumption, IInv, ReadInv', SnapshotInv', CounterInv', Settled <= Settled',
           UNCHANGED <<broker, ledger, known, account, reviewed, traded>>, result'.cash \in Amounts
    PROVE  IInv'
  <1>1. BrokerInv' /\ LedgerInv'
    BY DEF IInv, BrokerInv, LedgerInv
  <1>2. ReviewInv' /\ AccountInv'
    BY NothingAdopted
  <1>. QED  BY <1>1, <1>2 DEF IInv

\* A snapshot that is read or reconciled counts once it is gone.
LEMMA SettledGrows ==
    ASSUME ReconciliationAssumption, CounterInv, ~Idle, UNCHANGED captures
    PROVE  Settled <= Settled' /\ (Idle' => Settled' = captures) /\ Settled = captures - 1
  <1>1. captures \in Nat
    BY SettledIsNat
  <1>. QED  BY <1>1 DEF Settled

LEMMA BeginCaptureStep ==
    ASSUME ReconciliationAssumption, IInv, BeginCapture
    PROVE  IInv'
  <1>1. /\ Idle /\ captures \in Nat /\ captures < MaxCaptures /\ reads' = <<broker.cash>> /\ attempt' = 1
        /\ captures' = captures + 1 /\ snapshot' = None /\ result' = NoResult
        /\ UNCHANGED <<day, external, broker, ledger, known, account, reviewed, traded>>
    BY SettledIsNat DEF IInv, BeginCapture, Idle, ledgerVars, history
  <1>2. broker.cash \in Answer
    BY BrokerFields DEF IInv, BrokerInv, Answer
  <1>3. reads' \in Seq(Answer) /\ Len(reads') = 1 /\ reads' # <<>>
    BY <1>1, <1>2
  <1>4. ReadInv' /\ SnapshotInv' /\ ~Idle'
    BY <1>1, <1>3 DEF ReadInv, SnapshotInv, Idle
  <1>5. CounterInv'
    BY <1>1, Constants DEF IInv, CounterInv
  <1>6. Settled <= Settled'
    <2>. DEFINE c == captures'
    <2>1. Settled = captures /\ Settled' = c - 1 /\ c = captures + 1
      BY <1>1, <1>4 DEF Settled
    <2>. HIDE DEF c
    <2>. QED  BY <1>1, <2>1
  <1>7. result'.cash \in Amounts
    BY <1>1 DEF NoResult, Amounts
  <1>. QED  BY <1>1, <1>4, <1>5, <1>6, <1>7, OnlyReads

LEMMA ReadStep ==
    ASSUME ReconciliationAssumption, IInv, Read
    PROVE  IInv'
  <1>. DEFINE n == Len(reads)
              a == broker[Queries[(n % 4) + 1]]
  <1>1. /\ reads \in Seq(Answer) /\ reads # <<>> /\ n \in 1..7 /\ reads' = Append(reads, a)
        /\ between' = IF n = 4 THEN broker ELSE between
        /\ UNCHANGED <<day, external, broker, ledger, known, account, attempt, captures, snapshot,
                       result, reviewed, traded>>
    <2>1. reads \in Seq(Answer) /\ reads # <<>>
      BY DEF Read, IInv, ReadInv
    <2>2. n \in Nat \ {0} /\ n < 8
      BY <2>1, EmptySeq DEF Read
    <2>3. n \in 1..7
      <3>. HIDE DEF n
      <3>. QED  BY <2>2
    <2>. QED  BY <2>1, <2>3 DEF Read, ledgerVars
  <1>2. /\ n \in {1, 5} => a = broker.position
        /\ n \in {2, 6} => a = broker.orders
        /\ n \in {3, 7} => a = broker.fills
        /\ n = 4 => a = broker.cash
    <2>1. \A i \in 1..7 : i % 4 = IF i < 4 THEN i ELSE i - 4
      OBVIOUS
    <2>2. n % 4 = IF n < 4 THEN n ELSE n - 4
      BY <1>1, <2>1
    <2>3. Queries[1] = "cash" /\ Queries[2] = "position" /\ Queries[3] = "orders" /\ Queries[4] = "fills"
      BY DEF Queries
    <2>4. /\ n \in {1, 5} => (n % 4) + 1 = 2
          /\ n \in {2, 6} => (n % 4) + 1 = 3
          /\ n \in {3, 7} => (n % 4) + 1 = 4
          /\ n = 4 => (n % 4) + 1 = 1
      <3>. HIDE DEF n
      <3>. QED  BY <2>2
    <2>. HIDE DEF n
    <2>. QED  BY <2>3, <2>4
  <1>3. broker \in Broker /\ broker.orders \in OrderTable /\ a \in Answer
    BY <1>1, <1>2, BrokerFields DEF IInv, BrokerInv, Answer
  <1>. HIDE DEF a
  <1>4. /\ reads' \in Seq(Answer) /\ Len(reads') = n + 1 /\ reads'[n + 1] = a
        /\ \A i \in 1..n : reads'[i] = reads[i]
    BY <1>1, <1>3, AppendProperties
  <1>. DEFINE r == reads'
  <1>. HIDE DEF n, r
  <1>5. n >= 2 => r[3] \in OrderTable /\ Progress(r[3], broker.orders)
    BY <1>1, <1>2, <1>3, <1>4, ProgressReflexive DEF IInv, ReadInv, n, r
  <1>6. n >= 3 => r[4] \subseteq broker.fills
    BY <1>1, <1>2, <1>4 DEF IInv, ReadInv, n, r
  <1>7. n >= 4 => /\ between' \in Broker /\ r[5] = between'.cash /\ r[4] \subseteq between'.fills
                  /\ Progress(r[3], between'.orders) /\ Later(between', broker)
    <2>1. CASE n = 4
      <3>1. Later(broker, broker)
        BY ProgressReflexive DEF Later
      <3>. QED  BY <1>1, <1>2, <1>3, <1>4, <1>5, <1>6, <2>1, <3>1 DEF r
    <2>2. CASE n > 4
      BY <1>1, <1>4, <2>2 DEF IInv, ReadInv, n, r
    <2>. QED  BY <1>1, <2>1, <2>2
  <1>8. n >= 5 => (broker.fills = between'.fills => r[6] = between'.position)
    <2>1. CASE n = 5
      BY <1>1, <1>2, <1>4, <1>7, <2>1 DEF Later, r
    <2>2. CASE n > 5
      BY <1>1, <1>4, <2>2 DEF IInv, ReadInv, n, r
    <2>. QED  BY <1>1, <2>1, <2>2
  <1>9. n >= 6 => r[7] \in OrderTable /\ Progress(between'.orders, r[7])
    <2>1. CASE n = 6
      BY <1>1, <1>2, <1>3, <1>4, <1>7, <2>1 DEF Later, r
    <2>2. CASE n > 6
      <3>1. reads[7] \in OrderTable /\ Progress(between.orders, reads[7])
        BY <1>1, <2>2 DEF IInv, ReadInv, n
      <3>2. r[7] = reads[7] /\ between' = between
        BY <1>1, <1>4, <2>2 DEF r
      <3>. QED  BY <3>1, <3>2
    <2>. QED  BY <1>1, <2>1, <2>2
  <1>10. n >= 7 => between'.fills \subseteq r[8] /\ (r[8] = between'.fills => r[6] = between'.position)
    BY <1>1, <1>2, <1>4, <1>7, <1>8 DEF Later, r
  <1>11. ReadInv'
    <2>1. Len(reads') = n + 1 /\ n \in 1..7 /\ reads' \in Seq(Answer) /\ broker' = broker
      BY <1>1, <1>4
    <2>. QED  BY <1>5, <1>6, <1>7, <1>8, <1>9, <1>10, <2>1 DEF ReadInv, r
  <1>12. ~Idle /\ ~Idle' /\ snapshot = None
    BY <1>1, <1>4 DEF Idle, IInv, SnapshotInv
  <1>13. SnapshotInv' /\ CounterInv' /\ result'.cash \in Amounts
    BY <1>1, <1>12 DEF SnapshotInv, IInv, CounterInv, ReviewInv
  <1>14. Settled <= Settled'
    BY <1>1, <1>12, SettledGrows DEF IInv
  <1>. QED  BY <1>1, <1>11, <1>13, <1>14, OnlyReads

\* Two equal reads leave no room for the broker to have been elsewhere in between.
LEMMA StableReads ==
    ASSUME IInv, Len(reads) = 8, Stable
    PROVE  /\ between \in Broker /\ reads[5] = between.cash /\ reads[6] = between.position
           /\ reads[7] = between.orders /\ reads[8] = between.fills
  <1>1. reads[3] = reads[7] /\ reads[4] = reads[8]
    BY DEF Stable
  <1>2. /\ between \in Broker /\ between.orders \in OrderTable /\ reads[7] \in OrderTable
        /\ reads[5] = between.cash
    BY BrokerFields DEF IInv, ReadInv
  <1>3. reads[7] = between.orders
    BY <1>1, <1>2, ProgressBack DEF IInv, ReadInv
  <1>4. reads[8] = between.fills
    <2>1. reads[4] \subseteq between.fills /\ between.fills \subseteq reads[8]
      BY DEF IInv, ReadInv
    <2>. QED  BY <1>1, <2>1
  <1>. QED  BY <1>2, <1>3, <1>4 DEF IInv, ReadInv

LEMMA EndCaptureStep ==
    ASSUME ReconciliationAssumption, IInv, EndCapture
    PROVE  IInv'
  <1>1. /\ Len(reads) = 8 /\ ~Idle /\ snapshot = None
        /\ UNCHANGED <<day, external, broker, ledger, known, account, captures, result, reviewed, traded>>
    BY DEF EndCapture, Idle, IInv, SnapshotInv, ledgerVars
  <1>2. Settled <= Settled' /\ result'.cash \in Amounts
    BY <1>1, SettledGrows DEF IInv, ReviewInv
  <1>3. attempt' \in 0..MaxAttempts => CounterInv'
    BY <1>1 DEF IInv, CounterInv
  <1>4. CASE /\ Stable
             /\ snapshot' = [id |-> captures, cash |-> reads[5], position |-> reads[6],
                             orders |-> reads[7], fills |-> reads[8]]
             /\ reads' = <<>> /\ attempt' = 0 /\ UNCHANGED between
    <2>1. snapshot' = [id |-> captures, cash |-> between.cash, position |-> between.position,
                       orders |-> between.orders, fills |-> between.fills]
          /\ between \in Broker
      BY <1>1, <1>4, StableReads
    <2>2. SnapshotInv'
      BY <1>1, <1>4, <2>1 DEF SnapshotInv
    <2>3. ReadInv'
      <3>1. reads' \in Seq(Answer) /\ Len(reads') = 0
        BY <1>4, EmptySeq
      <3>. QED  BY <3>1 DEF ReadInv
    <2>. QED  BY <1>1, <1>2, <1>3, <1>4, <2>2, <2>3, Constants, OnlyReads
  <1>5. CASE ~Stable /\ attempt < MaxAttempts /\ reads' = <<broker.cash>> /\ attempt' = attempt + 1
             /\ UNCHANGED snapshot
    <2>1. broker.cash \in Answer
      BY BrokerFields DEF IInv, BrokerInv, Answer
    <2>2. reads' \in Seq(Answer) /\ Len(reads') = 1
      BY <1>5, <2>1
    <2>3. ReadInv' /\ SnapshotInv'
      BY <1>1, <1>5, <2>2 DEF ReadInv, SnapshotInv
    <2>4. attempt' \in 0..MaxAttempts
      BY <1>5, Constants DEF IInv, CounterInv
    <2>. QED  BY <1>1, <1>2, <1>3, <2>3, <2>4, OnlyReads
  <1>6. CASE reads' = <<>> /\ attempt' = 0 /\ UNCHANGED snapshot
    <2>1. ReadInv' /\ SnapshotInv'
      BY <1>1, <1>6, NothingRead
    <2>. QED  BY <1>1, <1>2, <1>3, <1>6, <2>1, Constants, OnlyReads
  <1>. QED  BY <1>4, <1>5, <1>6 DEF EndCapture

LEMMA CrashStep ==
    ASSUME ReconciliationAssumption, IInv, Crash
    PROVE  IInv'
  <1>1. /\ ~Idle /\ reads' = <<>> /\ attempt' = 0 /\ snapshot' = None
        /\ UNCHANGED <<day, external, broker, ledger, known, account, captures, result, reviewed, traded>>
    BY DEF Crash, ledgerVars
  <1>2. Settled <= Settled' /\ result'.cash \in Amounts
    BY <1>1, SettledGrows DEF IInv, ReviewInv
  <1>3. ReadInv' /\ SnapshotInv'
    BY <1>1, NothingRead
  <1>4. CounterInv'
    BY <1>1, Constants DEF IInv, CounterInv
  <1>. QED  BY <1>1, <1>2, <1>3, <1>4, OnlyReads

\* The operator reviews a snapshot that is gone, so no later one will match.
LEMMA ReviewStep ==
    ASSUME ReconciliationAssumption, IInv, Review
    PROVE  IInv'
  <1>. DEFINE new == <<captures>> \o result.cash
  <1>1. Idle /\ reviewed' = reviewed \cup {new} /\ captures \in Nat
        /\ UNCHANGED <<day, external, broker, ledger, known, account, reads, attempt, captures,
                       snapshot, between, result, traded>>
    BY SettledIsNat DEF Review, IInv, ledgerVars, readVars, history
  <1>2. new[1] = captures
    <2>1. result.cash \in Seq(Int) /\ <<captures>> \in Seq(Int) /\ Len(<<captures>>) = 1
      BY <1>1 DEF IInv, ReviewInv, Amounts
    <2>. QED  BY <2>1, ConcatProperties
  <1>. HIDE DEF new
  <1>3. Settled = captures /\ Settled' = Settled
    BY <1>1 DEF Settled, Idle
  <1>4. ReviewInv'
    BY <1>1, <1>2, <1>3 DEF IInv, ReviewInv
  <1>5. AccountInv'
    BY <1>1, <1>3 DEF IInv, AccountInv
  <1>6. BrokerInv' /\ LedgerInv'
    BY <1>1 DEF IInv, BrokerInv, LedgerInv
  <1>7. CounterInv' /\ ReadInv' /\ SnapshotInv'
    BY <1>1 DEF IInv, CounterInv, Idle, ReadInv, SnapshotInv
  <1>. QED  BY <1>4, <1>5, <1>6, <1>7 DEF IInv

-----------------------------------------------------------------------------
(* Adopting a snapshot.                                                    *)

LEMMA TimesAdds ==
    ASSUME NEW p \in Int, NEW a \in Int, NEW b \in Int
    PROVE  p * (a + b) = p * a + p * b /\ p * a \in Int /\ p * b \in Int
  OBVIOUS

\* What counts as new is in the ledger already.
LEMMA NewFills ==
    ASSUME IInv
    PROVE  /\ Explained \subseteq traded /\ New \subseteq traded /\ New \cap account.fills = {}
           /\ IsFiniteSet(New) /\ IsFiniteSet(account.fills)
           /\ Net(New) \in Int /\ Net(account.fills) \in Int /\ Sold(New) \in Nat
           /\ Net(account.fills \cup New) = Net(account.fills) + Net(New)
  <1>1. Explained \subseteq traded /\ New \subseteq traded /\ New \cap account.fills = {}
    BY DEF Explained, KnownFills, New, IInv, LedgerInv
  <1>2. IsFiniteSet(New) /\ IsFiniteSet(account.fills)
    BY <1>1, FS_Subset DEF IInv, LedgerInv
  <1>3. account.fills \cap New = {}
    BY <1>1
  <1>4. Net(New) \in Int /\ Net(account.fills) \in Int /\ Sold(New) \in Nat
    BY <1>2, NetOfFills
  <1>5. Net(account.fills \cup New) = Net(account.fills) + Net(New)
    BY <1>2, <1>3, NetAdds
  <1>. QED  BY <1>1, <1>2, <1>4, <1>5

\* A snapshot that the preflight lets through holds the ledger's fills and nothing else.
LEMMA PreflightPassed ==
    ASSUME ReconciliationAssumption, IInv, snapshot # None, Preflight = {}
    PROVE  /\ snapshot.fills = Explained /\ snapshot.position = Expected
           /\ Gap(snapshot.cash, ExpectedCash) <= Tolerance
  <1>1. /\ ~PreflightBlocks("UNMAPPED_BROKER_FILL")
        /\ ~PreflightBlocks("SYSTEM_FILL_CONTRADICTS_ACCOUNT_STATE")
        /\ ~PreflightBlocks("UNEXPLAINED_CASH_CHANGE")
        /\ ~PreflightBlocks("UNEXPLAINED_POSITION_CHANGE")
    BY DEF Preflight
  <1>2. snapshot.fills = Explained
    BY <1>1 DEF PreflightBlocks
  <1>3. snapshot.position = Expected
    BY <1>1 DEF PreflightBlocks
  <1>4. ~(ExpectedCash < 0)
    BY <1>1 DEF PreflightBlocks
  <1>5. ~(/\ ExpectedCash >= 0 /\ Gap(snapshot.cash, ExpectedCash) > Tolerance
          /\ <<snapshot.id, ExpectedCash, snapshot.cash>> \notin reviewed)
    BY <1>1 DEF PreflightBlocks
  <1>6. <<snapshot.id, ExpectedCash, snapshot.cash>> \notin reviewed
    <2>1. snapshot.id = captures /\ captures \in Nat /\ Settled = captures - 1
      BY SettledIsNat DEF IInv, SnapshotInv, Settled, Idle
    <2>. DEFINE e == ExpectedCash
                o == snapshot.cash
                i == snapshot.id
    <2>. HIDE DEF e, o, i
    <2>2. <<i, e, o>>[1] = i
      OBVIOUS
    <2>3. i = captures
      BY <2>1 DEF i
    <2>4. <<i, e, o>> \notin reviewed
      BY <2>1, <2>2, <2>3 DEF IInv, ReviewInv
    <2>. QED  BY <2>4 DEF i, e, o
  <1>7. ExpectedCash \in Int /\ snapshot.cash \in Int /\ Tolerance \in Nat
    <2>1. account.cash \in Nat /\ Price \in Nat /\ Net(New) \in Int /\ Tolerance \in Nat
      BY NewFills, Constants DEF IInv, AccountInv
    <2>2. snapshot.cash \in Nat
      BY BrokerFields DEF IInv, SnapshotInv
    <2>. QED  BY <2>1, <2>2 DEF ExpectedCash
  <1>8. Gap(snapshot.cash, ExpectedCash) <= Tolerance
    <2>. DEFINE e == ExpectedCash
                o == snapshot.cash
    <2>1. e \in Int /\ o \in Int /\ ~(e < 0) /\ ~(e >= 0 /\ Gap(o, e) > Tolerance)
      BY <1>4, <1>5, <1>6, <1>7
    <2>. HIDE DEF e, o
    <2>2. Gap(o, e) <= Tolerance
      BY <1>7, <2>1 DEF Gap
    <2>. QED  BY <2>2 DEF e, o
  <1>. QED  BY <1>2, <1>3, <1>8

\* What is adopted is the account's own history, one reconciliation further.
LEMMA AdoptedIsExact ==
    ASSUME ReconciliationAssumption, IInv, snapshot # None, Preflight = {}
    PROVE  /\ Prepared.cash \in Nat /\ Prepared.total \in Nat
           /\ Prepared.locked \in 0..Prepared.total
           /\ Prepared.fills \subseteq traded
           /\ Prepared.total = Held0 + Net(Prepared.fills)
           /\ Gap(Prepared.cash, Cash0 - Price * Net(Prepared.fills)) <= Tolerance * captures
  <1>1. /\ snapshot.fills = Explained /\ snapshot.position = Expected
        /\ Gap(snapshot.cash, ExpectedCash) <= Tolerance
    BY PreflightPassed
  <1>2. /\ Price \in Nat /\ Tolerance \in Nat /\ Cash0 \in Nat /\ Held0 \in Nat
        /\ captures \in Nat /\ Settled = captures - 1 /\ Settled \in Nat
    BY Constants, SettledIsNat DEF IInv, Settled, Idle
  <1>3. /\ snapshot.cash \in Nat /\ snapshot.position.total \in Nat
        /\ snapshot.position.sellable \in Nat
        /\ snapshot.position.sellable <= snapshot.position.total
    BY BrokerFields DEF IInv, SnapshotInv
  <1>4. Prepared.fills = account.fills \cup New /\ Prepared.fills \subseteq traded
    BY <1>1, NewFills DEF Prepared, New, IInv, LedgerInv
  <1>. DEFINE a == Net(account.fills)
              b == Net(New)
  <1>5. a \in Int /\ b \in Int /\ Net(Prepared.fills) = a + b
    BY <1>4, NewFills
  <1>6. /\ account.cash \in Nat /\ account.total = Held0 + a
        /\ Gap(account.cash, Cash0 - Price * a) <= Tolerance * Settled
    BY DEF IInv, AccountInv
  <1>7. Prepared.total = Held0 + Net(Prepared.fills)
    <2>1. Prepared.total = account.total + b
      BY <1>1 DEF Prepared, Expected
    <2>. HIDE DEF a, b
    <2>. QED  BY <1>2, <1>5, <1>6, <2>1
  <1>8. Gap(Prepared.cash, Cash0 - Price * Net(Prepared.fills)) <= Tolerance * captures
    <2>. DEFINE c == snapshot.cash
    <2>1. ExpectedCash = account.cash - Price * b /\ Prepared.cash = c
      BY DEF ExpectedCash, Prepared
    <2>. HIDE DEF a, b
    <2>2. /\ Price * (a + b) = Price * a + Price * b /\ Price * a \in Int /\ Price * b \in Int
          /\ Tolerance * Settled \in Int /\ Tolerance * 1 = Tolerance
          /\ Tolerance * (Settled + 1) = Tolerance * Settled + Tolerance * 1
      BY <1>2, <1>5, TimesAdds
    <2>3. Settled + 1 = captures
      BY <1>2
    <2>4. Tolerance * captures = Tolerance * Settled + Tolerance
      BY <2>2, <2>3
    <2>. DEFINE x == Price * a
                y == Price * b
                s == Tolerance * Settled
                q == account.cash
    <2>5. /\ x \in Int /\ y \in Int /\ s \in Int /\ q \in Int /\ c \in Int
          /\ Gap(c, q - y) <= Tolerance /\ Gap(q, Cash0 - x) <= s
      BY <1>1, <1>3, <1>6, <2>1, <2>2
    <2>. HIDE DEF x, y, s, q, c
    <2>6. Gap(c, Cash0 - (x + y)) <= s + Tolerance
      BY <1>2, <2>5 DEF Gap
    <2>. QED  BY <1>5, <2>1, <2>2, <2>4, <2>6 DEF x, y, s
  <1>9. Prepared.cash \in Nat /\ Prepared.total \in Nat /\ Prepared.locked \in 0..Prepared.total
    <2>1. /\ Prepared.cash = snapshot.cash /\ Prepared.total = snapshot.position.total
          /\ Prepared.locked = snapshot.position.total - snapshot.position.sellable
      BY DEF Prepared
    <2>. QED  BY <1>3, <2>1
  <1>. QED  BY <1>4, <1>7, <1>8, <1>9

LEMMA ReconcileStep ==
    ASSUME ReconciliationAssumption, IInv, Reconcile
    PROVE  IInv'
  <1>. DEFINE blockers == IF Preflight # {} THEN Preflight ELSE Final
  <1>1. /\ snapshot # None /\ snapshot' = None /\ reads = <<>> /\ reads' = <<>> /\ ~Idle
        /\ result'.cash = <<ExpectedCash, snapshot.cash>>
        /\ account' = IF blockers = {} THEN Prepared ELSE account
        /\ UNCHANGED <<day, external, broker, ledger, known, captures, attempt, reviewed, traded>>
    BY DEF Reconcile, Idle, IInv, SnapshotInv, ledgerVars
  <1>2. ReadInv' /\ SnapshotInv' /\ Idle'
    BY <1>1, NothingRead
  <1>3. CounterInv'
    BY <1>1, <1>2 DEF IInv, CounterInv
  <1>4. Settled <= Settled' /\ Settled' = captures
    BY <1>1, <1>2, SettledGrows DEF IInv
  <1>5. result'.cash \in Amounts
    <2>1. account.cash \in Nat /\ Price \in Nat /\ Net(New) \in Int
      BY NewFills, Constants DEF IInv, AccountInv
    <2>2. snapshot.cash \in Nat
      BY <1>1, BrokerFields DEF IInv, SnapshotInv
    <2>3. ExpectedCash \in Int /\ snapshot.cash \in Int
      BY <2>1, <2>2 DEF ExpectedCash
    <2>. QED  BY <1>1, <2>3 DEF Amounts
  <1>6. CASE blockers = {}
    <2>1. Preflight = {} /\ account' = Prepared
      BY <1>1, <1>6
    <2>2. AccountInv' /\ account'.fills \subseteq traded
      BY <1>1, <1>4, <2>1, AdoptedIsExact DEF AccountInv
    <2>3. BrokerInv' /\ LedgerInv'
      BY <1>1, <2>2 DEF IInv, BrokerInv, LedgerInv
    <2>4. ReviewInv'
      <3>1. Settled \in Nat /\ captures \in Nat
        BY SettledIsNat DEF IInv
      <3>2. ASSUME NEW r \in reviewed PROVE r[1] \in Nat /\ r[1] <= Settled'
        BY <1>4, <3>1 DEF IInv, ReviewInv
      <3>. QED  BY <1>1, <1>5, <3>2 DEF ReviewInv
    <2>. QED  BY <1>2, <1>3, <2>2, <2>3, <2>4 DEF IInv
  <1>7. CASE blockers # {}
    BY <1>1, <1>2, <1>3, <1>4, <1>5, <1>7, OnlyReads
  <1>. QED  BY <1>6, <1>7

-----------------------------------------------------------------------------
(* The theorems.                                                           *)

LEMMA InitHolds ==
    ASSUME ReconciliationAssumption, Init
    PROVE  IInv
  <1>. USE Constants
  <1>1. BrokerInv
    BY DEF Init, BrokerInv, Broker, Position, OrderTable, OrderFact, AllOrders, NoOrder, Active, Orders
  <1>2. LedgerInv
    BY FS_EmptySet DEF Init, LedgerInv, LedgerRow
  <1>3. ReadInv /\ SnapshotInv
    <2>1. reads \in Seq(Answer) /\ Len(reads) = 0 /\ snapshot = None
      BY EmptySeq DEF Init
    <2>. QED  BY <2>1 DEF ReadInv, SnapshotInv
  <1>4. CounterInv /\ Idle
    BY DEF Init, CounterInv, Idle
  <1>5. ReviewInv
    BY DEF Init, ReviewInv, NoResult, Amounts
  <1>6. AccountInv
    <2>1. Net({}) = 0
      <3>1. {f \in {} : f[1] = "buy"} = {} /\ {f \in {} : f[1] = "sell"} = {}
        OBVIOUS
      <3>2. Cardinality({}) = 0
        BY FS_EmptySet
      <3>. QED  BY <3>1, <3>2 DEF Net, Bought, Sold
    <2>2. Settled = 0 /\ Price * 0 = 0 /\ Tolerance * 0 = 0
      BY <1>4 DEF Settled, Init
    <2>. QED  BY <2>1, <2>2 DEF Init, AccountInv, Gap
  <1>. QED  BY <1>1, <1>2, <1>3, <1>4, <1>5, <1>6 DEF IInv

LEMMA NextHolds ==
    ASSUME ReconciliationAssumption, IInv, [Next]_vars
    PROVE  IInv'
  <1>1. CASE UNCHANGED vars
    <2>1. UNCHANGED <<day, external, broker, ledger, known, account, captures, attempt, reads,
                      snapshot, between, result, reviewed, traded>>
      BY <1>1 DEF vars, ledgerVars, readVars, history
    <2>2. Settled' = Settled
      BY <2>1 DEF Settled, Idle
    <2>3. BrokerInv' /\ LedgerInv' /\ ReadInv' /\ SnapshotInv'
      BY <2>1 DEF IInv, BrokerInv, LedgerInv, ReadInv, SnapshotInv
    <2>4. CounterInv' /\ ReviewInv' /\ AccountInv'
      BY <2>1, <2>2 DEF IInv, CounterInv, Idle, ReviewInv, AccountInv
    <2>. QED  BY <2>3, <2>4 DEF IInv
  <1>2. ASSUME NEW o \in Orders, Fill(o) \/ EndOrder(o) \/ Ingest(o) PROVE IInv'
    BY <1>2, FillStep, EndOrderStep, IngestStep
  <1>3. ASSUME NEW o \in Orders, NEW lost \in BOOLEAN, Place(o, lost) PROVE IInv'
    BY <1>3, PlaceStep
  <1>4. ASSUME NEW d \in {-1, 3}, CashMoves(d) PROVE IInv'
    BY <1>4, CashStep
  <1>5. ASSUME NEW credited \in 0..1, Overnight(credited) PROVE IInv'
    BY <1>5, OvernightStep
  <1>6. CASE TradeByHand
    BY <1>6, HandStep
  <1>7. CASE BeginCapture \/ Read \/ EndCapture
    BY <1>7, BeginCaptureStep, ReadStep, EndCaptureStep
  <1>8. CASE Reconcile \/ Review \/ Crash
    BY <1>8, ReconcileStep, ReviewStep, CrashStep
  <1>. QED  BY <1>1, <1>2, <1>3, <1>4, <1>5, <1>6, <1>7, <1>8 DEF Next

THEOREM ReconciliationInvariant ==
    ASSUME ReconciliationAssumption
    PROVE  Spec => []IInv
  <1>1. Init => IInv
    BY InitHolds
  <1>2. IInv /\ [Next]_vars => IInv'
    BY NextHolds
  <1>. QED  BY <1>1, <1>2, PTL DEF Spec

\* Facts and account are never negative, nothing is sellable that is not held, and the account
\* holds no fill that the ledger's orders did not have (domain/broker_facts.py).
LEMMA TypesHold ==
    ASSUME ReconciliationAssumption, IInv
    PROVE  TypeOK
  <1>1. broker.cash \in Nat /\ broker.position.sellable \in 0..broker.position.total
    BY BrokerFields DEF IInv, BrokerInv
  <1>2. \A o \in Orders : ledger[o].filled \in 0..Shares[o]
    BY Constants DEF IInv, LedgerInv, LedgerRow
  <1>3. Len(reads) \in 0..8
    <2>. DEFINE n == Len(reads)
    <2>1. n \in Nat /\ n <= 8
      BY LenProperties DEF IInv, ReadInv
    <2>. HIDE DEF n
    <2>2. n \in 0..8
      BY <2>1
    <2>. QED  BY <2>2 DEF n
  <1>. QED  BY <1>1, <1>2, <1>3 DEF IInv, CounterInv, LedgerInv, AccountInv, TypeOK

\* A snapshot that is accepted is one moment of the broker, and the account, never negative, is
\* what it began with and the system's own fills, up to the cash tolerance (production_snapshot.py,
\* capture; account_preflight.py, evaluate_account_preflight; account_sync.py).
THEOREM AccountStaysExact ==
    ASSUME ReconciliationAssumption
    PROVE  Spec => []AccountIsExact
  <1>1. ASSUME IInv PROVE AccountIsExact
    <2>1. SnapshotIsConsistent
      BY <1>1 DEF IInv, SnapshotInv, SnapshotIsConsistent
    <2>2. AdoptsOnlyOwnFills
      <3>1. /\ account.cash \in Nat /\ account.total = Held0 + Net(account.fills)
            /\ Gap(account.cash, Cash0 - Price * Net(account.fills)) <= Tolerance * Settled
        BY <1>1 DEF IInv, AccountInv
      <3>2. /\ Settled \in Nat /\ captures \in Nat /\ Tolerance \in Nat /\ Cash0 \in Nat /\ Price \in Nat
            /\ Settled <= captures
        BY <1>1, Constants, SettledIsNat DEF IInv, Settled
      <3>3. /\ Tolerance * Settled <= Tolerance * captures
            /\ Tolerance * Settled \in Nat /\ Tolerance * captures \in Nat
        BY <3>2, TimesGrows, TimesIsNat
      <3>4. Net(account.fills) \in Int
        BY <1>1, NewFills
      <3>. DEFINE g == Gap(account.cash, Cash0 - Price * Net(account.fills))
      <3>5. g \in Int
        BY <3>1, <3>2, <3>4 DEF Gap
      <3>6. g <= Tolerance * captures
        <4>1. g <= Tolerance * Settled
          BY <3>1
        <4>. HIDE DEF g
        <4>. QED  BY <3>3, <3>5, <4>1
      <3>. QED  BY <3>1, <3>6 DEF AdoptsOnlyOwnFills
    <2>3. TypeOK
      BY <1>1, TypesHold
    <2>. QED  BY <2>1, <2>2, <2>3 DEF AccountIsExact
  <1>. QED  BY <1>1, ReconciliationInvariant, PTL

-----------------------------------------------------------------------------
(* A quiet history: nothing happened at the broker without the system, and *)
(* every session ended with its orders over and its fills in the account.  *)

Quiet == external = 0 /\ ~missed

\* Fills of earlier sessions, which the broker has forgotten.
Earlier == traded \ broker.fills

FillsOf(fills, o) == {f \in fills : f[1] = o}
Executions(o, n) == {<<o, k>> : k \in 1..n}

\* The broker b as a moment of this session in which only the system has traded.
Moment(b) ==
    /\ b.fills \subseteq traded /\ b.fills \cap Earlier = {}
    /\ b.cash = Cash0 - Price * Net(Earlier \cup b.fills)
    /\ b.position.total = Held0 + Net(Earlier \cup b.fills)
    /\ b.position.sellable = Held0 + Net(Earlier) - Sold(b.fills)
    /\ b.orders[Foreign] = NoOrder
    /\ \A o \in Orders : /\ FillsOf(b.fills, o) = Executions(o, b.orders[o].filled)
                         /\ b.orders[o].state = "none" => b.orders[o] = NoOrder
                         /\ b.orders[o].state # "none" <=> ledger[o].session = day

\* An order is placed in one session, and is over when that session is.
OrderInv ==
    \A o \in Orders :
        /\ FillsOf(known, o) = Executions(o, ledger[o].filled)
        /\ ledger[o].session <= day
        /\ ledger[o].session # day => ledger[o].state \in Terminal \cup {"none"}

TradeInv ==
    /\ \A f \in traded : f[1] \in Orders /\ ledger[f[1]].state # "none"
    /\ \A f \in Earlier : ledger[f[1]].session # day

\* The account has what earlier sessions brought, and what it adopted in this one.
AdoptedInv ==
    /\ Earlier \subseteq account.fills
    /\ account.cash = Cash0 - Price * Net(account.fills)
    /\ account.asOf \in Nat /\ account.asOf <= day
    /\ account.asOf # day => account.fills \subseteq Earlier
    /\ account.asOf = day =>
           account.total - account.locked = Held0 + Net(Earlier) - Sold(account.fills \ Earlier)

\* Once the second read has begun.
ReadAgain == Len(reads) >= 5 \/ snapshot # None

QuietInv ==
    Quiet =>
        /\ Moment(broker) /\ OrderInv /\ TradeInv /\ AdoptedInv
        /\ ReadAgain => Moment(between) /\ account.fills \subseteq Earlier \cup between.fills
        /\ result.current => result.blockers = {}

\* What an ingest leaves in the ledger.
LEMMA IngestedRow ==
    ASSUME NEW o \in Orders, Ingest(o), ledger \in [Orders -> LedgerRow]
    PROVE  /\ ledger'[o].state = broker.orders[o].state /\ ledger'[o].filled = broker.orders[o].filled
           /\ ledger'[o].session = ledger[o].session
           /\ \A p \in Orders \ {o} : ledger'[p] = ledger[p]
  BY DEF Ingest, LedgerRow

-----------------------------------------------------------------------------
(* Counting fills.                                                         *)

LEMMA SoldAdds ==
    ASSUME NEW S, NEW T, IsFiniteSet(S), IsFiniteSet(T), S \cap T = {}
    PROVE  Sold(S \cup T) = Sold(S) + Sold(T)
  <1>. DEFINE A == {f \in S : f[1] = "sell"}
              B == {f \in T : f[1] = "sell"}
  <1>1. {f \in S \cup T : f[1] = "sell"} = A \cup B /\ A \cap B = {}
    OBVIOUS
  <1>2. A \subseteq S /\ B \subseteq T
    OBVIOUS
  <1>3. IsFiniteSet(A) /\ IsFiniteSet(B)
    BY <1>2, FS_Subset
  <1>4. Cardinality(A \cup B) = Cardinality(A) + Cardinality(B)
    BY <1>1, <1>3, DisjointCount
  <1>. QED  BY <1>1, <1>4 DEF Sold

LEMMA NoFills ==
    Net({}) = 0 /\ Sold({}) = 0
  <1>1. {f \in {} : f[1] = "buy"} = {} /\ {f \in {} : f[1] = "sell"} = {}
    OBVIOUS
  <1>2. Cardinality({}) = 0
    BY FS_EmptySet
  <1>. QED  BY <1>1, <1>2 DEF Net, Bought, Sold

LEMMA OneFill ==
    ASSUME NEW o \in Orders, NEW k
    PROVE  /\ IsFiniteSet({<<o, k>>})
           /\ Net({<<o, k>>}) = IF o = "buy" THEN 1 ELSE -1
           /\ Sold({<<o, k>>}) = IF o = "buy" THEN 0 ELSE 1
  <1>. DEFINE S == {<<o, k>>}
              Of(p) == {f \in S : f[1] = p}
  <1>1. IsFiniteSet(S) /\ Cardinality(S) = 1 /\ Cardinality({}) = 0
    BY FS_Singleton, FS_EmptySet
  <1>2. CASE o = "buy"
    <2>1. Of("buy") = S /\ Of("sell") = {}
      BY <1>2
    <2>2. Bought(S) = 1 /\ Sold(S) = 0
      BY <1>1, <2>1 DEF Bought, Sold
    <2>. QED  BY <1>1, <1>2, <2>2 DEF Net
  <1>3. CASE o = "sell"
    <2>1. Of("sell") = S /\ Of("buy") = {}
      BY <1>3
    <2>2. Bought(S) = 0 /\ Sold(S) = 1
      BY <1>1, <2>1 DEF Bought, Sold
    <2>. QED  BY <1>1, <1>3, <2>2 DEF Net
  <1>. QED  BY <1>2, <1>3 DEF Orders

\* An order has as many executions as shares were filled.
LEMMA ExecutionsCount ==
    ASSUME NEW o, NEW n \in Nat
    PROVE  Cardinality(Executions(o, n)) = n
  <1>. DEFINE f == [k \in 1..n |-> <<o, k>>]
  <1>1. f \in Bijection(1..n, Executions(o, n))
    BY DEF Executions, Bijection, Injection, Surjection, IsInjective
  <1>2. ExistsBijection(1..n, Executions(o, n))
    BY <1>1 DEF ExistsBijection
  <1>. QED  BY <1>2, FS_CountingElements

LEMMA ExecutionsGrow ==
    ASSUME NEW o, NEW n \in Nat
    PROVE  Executions(o, n + 1) = Executions(o, n) \cup {<<o, n + 1>>}
           /\ <<o, n + 1>> \notin Executions(o, n)
  <1>1. 1..(n + 1) = 1..n \cup {n + 1}
    OBVIOUS
  <1>. QED  BY <1>1 DEF Executions

\* In a quiet session what was ever traded is what earlier sessions brought and this one.
LEMMA EarlierAndToday ==
    ASSUME IInv, NEW b, Moment(b)
    PROVE  /\ IsFiniteSet(traded) /\ IsFiniteSet(Earlier) /\ IsFiniteSet(b.fills)
           /\ IsFiniteSet(account.fills)
           /\ Net(Earlier) \in Int /\ Net(b.fills) \in Int /\ Sold(b.fills) \in Nat
           /\ Net(account.fills) \in Int
           /\ Net(Earlier \cup b.fills) = Net(Earlier) + Net(b.fills)
  <1>1. /\ IsFiniteSet(traded) /\ Earlier \subseteq traded /\ b.fills \subseteq traded
        /\ account.fills \subseteq traded /\ Earlier \cap b.fills = {}
    BY DEF IInv, LedgerInv, Earlier, Moment
  <1>2. IsFiniteSet(Earlier) /\ IsFiniteSet(b.fills) /\ IsFiniteSet(account.fills)
    BY <1>1, FS_Subset
  <1>. QED  BY <1>1, <1>2, NetOfFills, NetAdds

-----------------------------------------------------------------------------
(* The broker trades.                                                      *)

\* A moment of the session stays one.
LEMMA MomentStays ==
    ASSUME Moment(between), Earlier' = Earlier, traded \subseteq traded',
           UNCHANGED <<between, ledger, day>>
    PROVE  Moment(between)'
  BY DEF Moment

\* Later moments of the session change nothing that was read or adopted.
LEMMA QuietTrading ==
    ASSUME QuietInv, Quiet, Earlier' = Earlier, traded \subseteq traded', Moment(broker)',
           TradeInv',
           UNCHANGED <<day, ledger, known, account, reads, snapshot, result, between>>
    PROVE  QuietInv'
  <1>1. OrderInv' /\ AdoptedInv'
    BY DEF QuietInv, OrderInv, AdoptedInv
  <1>2. ASSUME ReadAgain'
        PROVE  Moment(between)' /\ (account.fills \subseteq Earlier \cup between.fills)'
    <2>1. Moment(between) /\ account.fills \subseteq Earlier \cup between.fills
      BY <1>2 DEF QuietInv, ReadAgain
    <2>. QED  BY <2>1, MomentStays
  <1>3. (result.current => result.blockers = {})'
    BY DEF QuietInv
  <1>. QED  BY <1>1, <1>2, <1>3 DEF QuietInv

LEMMA QuietFill ==
    ASSUME ReconciliationAssumption, IInv, QuietInv, NEW o \in Orders, Fill(o)
    PROVE  QuietInv'
  <1>. SUFFICES ASSUME Quiet' PROVE QuietInv'
    BY DEF QuietInv
  <1>. DEFINE x == broker.orders[o]
              k == x.filled + 1
              sign == IF o = "buy" THEN 1 ELSE -1
              y == [state |-> IF k = Shares[o] THEN "FILLED" ELSE "PARTIALLY_FILLED", filled |-> k]
              new == <<o, k>>
  <1>0. /\ broker \in Broker /\ broker.orders \in OrderTable /\ o \in AllOrders /\ x \in OrderFact
        /\ x.state \in Active /\ x.filled \in Nat /\ k \in Nat \ {0}
    <2>1. broker \in Broker /\ broker.orders \in OrderTable /\ o \in AllOrders /\ x.state \in Active
      BY BrokerFields DEF IInv, BrokerInv, Fill, AllOrders
    <2>2. x \in OrderFact
      BY <2>1 DEF OrderTable
    <2>. HIDE DEF x
    <2>. QED  BY <2>1, <2>2 DEF OrderFact
  <1>1. /\ Quiet /\ UNCHANGED <<day, ledger, known, account, reads, snapshot, result, between>>
        /\ traded' = traded \cup {new}
    BY DEF Fill, Quiet, ledgerVars, readVars
  <1>2. broker' = [cash |-> broker.cash - sign * Price,
                   position |-> [total |-> broker.position.total + sign,
                                 sellable |-> IF o = "buy" THEN broker.position.sellable
                                              ELSE broker.position.sellable - 1],
                   orders |-> [broker.orders EXCEPT ![o] = y],
                   fills |-> broker.fills \cup {new}]
    BY <1>0 DEF Fill, Broker, OrderTable, Position
  <1>3. Moment(broker) /\ TradeInv
    BY <1>1 DEF QuietInv
  <1>4. ledger[o].session = day /\ ledger[o].state # "none"
    BY <1>0, <1>3 DEF Moment, IInv, BrokerInv, Active, NoOrder
  <1>. HIDE DEF y, sign
  <1>5. new \notin Earlier /\ Earlier' = Earlier /\ new \notin broker.fills
    <2>1. new \notin Earlier
      BY <1>3, <1>4 DEF TradeInv
    <2>2. new \notin broker.fills
      <3>1. FillsOf(broker.fills, o) = Executions(o, x.filled)
        BY <1>3 DEF Moment
      <3>. QED  BY <1>0, <3>1, ExecutionsGrow DEF FillsOf
    <2>3. Earlier' = Earlier
      BY <1>1, <1>2, <2>1 DEF Earlier
    <2>. QED  BY <2>1, <2>2, <2>3
  <1>6. /\ broker'.orders[o] = y /\ y.filled = k /\ y.state # "none"
        /\ \A p \in AllOrders \ {o} : broker'.orders[p] = broker.orders[p]
    BY <1>0, <1>2 DEF y, OrderTable
  <1>7. TradeInv'
    BY <1>1, <1>3, <1>4, <1>5 DEF TradeInv
  <1>8. \A p \in Orders : /\ FillsOf(broker'.fills, p) = Executions(p, broker'.orders[p].filled)
                          /\ broker'.orders[p].state = "none" => broker'.orders[p] = NoOrder
                          /\ broker'.orders[p].state # "none" <=> ledger[p].session = day
    <2>. TAKE p \in Orders
    <2>1. CASE p = o
      <3>1. FillsOf(broker'.fills, o) = FillsOf(broker.fills, o) \cup {new}
        BY <1>2 DEF FillsOf
      <3>2. FillsOf(broker.fills, o) = Executions(o, x.filled)
        BY <1>3 DEF Moment
      <3>3. FillsOf(broker'.fills, o) = Executions(o, k)
        BY <1>0, <3>1, <3>2, ExecutionsGrow
      <3>. QED  BY <1>4, <1>6, <2>1, <3>3
    <2>2. CASE p # o
      <3>1. FillsOf(broker'.fills, p) = FillsOf(broker.fills, p)
        BY <1>2, <2>2 DEF FillsOf
      <3>2. broker'.orders[p] = broker.orders[p]
        BY <1>6, <2>2 DEF AllOrders
      <3>. QED  BY <1>3, <3>1, <3>2 DEF Moment
    <2>. QED  BY <2>1, <2>2
  <1>9. broker'.orders[Foreign] = NoOrder
    BY <1>3, <1>6 DEF Moment, AllOrders, Foreign, Orders
  <1>. DEFINE n == Net(Earlier \cup broker.fills)
              e == Net(Earlier)
              s == Sold(broker.fills)
  <1>10. /\ n \in Int /\ e \in Int /\ s \in Nat
         /\ Net(Earlier \cup broker'.fills) = n + sign
         /\ Sold(broker'.fills) = s + IF o = "buy" THEN 0 ELSE 1
    <2>1. IsFiniteSet(Earlier) /\ IsFiniteSet(broker.fills) /\ s \in Nat /\ e \in Int
      BY <1>3, EarlierAndToday
    <2>2. IsFiniteSet(Earlier \cup broker.fills)
      BY <2>1, FS_Union
    <2>3. n \in Int
      BY <2>2, NetOfFills
    <2>4. IsFiniteSet({new}) /\ Net({new}) = sign /\ Sold({new}) = IF o = "buy" THEN 0 ELSE 1
      BY OneFill DEF sign
    <2>5. (Earlier \cup broker.fills) \cap {new} = {} /\ broker.fills \cap {new} = {}
      BY <1>5
    <2>6. Net((Earlier \cup broker.fills) \cup {new}) = n + sign
      BY <2>2, <2>4, <2>5, NetAdds
    <2>7. Sold(broker.fills \cup {new}) = s + Sold({new})
      BY <2>1, <2>4, <2>5, SoldAdds
    <2>8. broker'.fills = broker.fills \cup {new}
          /\ Earlier \cup broker'.fills = (Earlier \cup broker.fills) \cup {new}
      BY <1>2
    <2>. QED  BY <2>1, <2>3, <2>4, <2>6, <2>7, <2>8
  <1>11. /\ broker'.cash = Cash0 - Price * Net(Earlier \cup broker'.fills)
         /\ broker'.position.total = Held0 + Net(Earlier \cup broker'.fills)
         /\ broker'.position.sellable = Held0 + Net(Earlier) - Sold(broker'.fills)
    <2>1. /\ broker.cash = Cash0 - Price * n /\ broker.position.total = Held0 + n
          /\ broker.position.sellable = Held0 + e - s
      BY <1>3 DEF Moment
    <2>2. /\ broker'.cash = broker.cash - sign * Price
          /\ broker'.position.total = broker.position.total + sign
          /\ broker'.position.sellable = IF o = "buy" THEN broker.position.sellable
                                         ELSE broker.position.sellable - 1
      BY <1>2
    <2>3. Price \in Nat /\ Cash0 \in Nat /\ Held0 \in Nat /\ sign \in {1, -1}
      BY Constants DEF sign
    <2>. HIDE DEF n, e, s
    <2>4. Price * (n + sign) = Price * n + Price * sign /\ Price * n \in Int /\ Price * sign \in Int
          /\ Price * sign = sign * Price
      BY <1>10, <2>3, TimesAdds
    <2>5. broker'.cash = Cash0 - Price * (n + sign)
      BY <2>1, <2>2, <2>3, <2>4
    <2>6. broker'.position.total = Held0 + (n + sign)
      BY <1>10, <2>1, <2>2, <2>3
    <2>7. broker'.position.sellable = Held0 + e - (s + IF o = "buy" THEN 0 ELSE 1)
      BY <1>10, <2>1, <2>2, <2>3
    <2>. QED  BY <1>10, <2>5, <2>6, <2>7 DEF e
  <1>12. broker'.fills \subseteq traded' /\ broker'.fills \cap Earlier' = {}
    BY <1>1, <1>2, <1>3, <1>5 DEF Moment
  <1>13. Moment(broker)'
    BY <1>1, <1>5, <1>8, <1>9, <1>11, <1>12 DEF Moment
  <1>. QED  BY <1>1, <1>5, <1>7, <1>13, QuietTrading

LEMMA QuietEndOrder ==
    ASSUME ReconciliationAssumption, IInv, QuietInv, NEW o \in Orders, EndOrder(o)
    PROVE  QuietInv'
  <1>. SUFFICES ASSUME Quiet' PROVE QuietInv'
    BY DEF QuietInv
  <1>. DEFINE x == broker.orders[o]
              y == [state |-> "CANCELLED", filled |-> x.filled]
  <1>0. /\ broker \in Broker /\ broker.orders \in OrderTable /\ o \in AllOrders /\ x \in OrderFact
        /\ x.state \in Active
    BY BrokerFields DEF IInv, BrokerInv, EndOrder, AllOrders, OrderTable
  <1>1. /\ Quiet /\ UNCHANGED <<day, ledger, known, account, reads, snapshot, result, between, traded>>
    BY DEF EndOrder, Quiet, ledgerVars, readVars, history
  <1>2. broker' = [cash |-> broker.cash, position |-> broker.position,
                   orders |-> [broker.orders EXCEPT ![o] = y], fills |-> broker.fills]
    <2>1. [x EXCEPT !.state = "CANCELLED"] = y
      <3>1. x = [state |-> x.state, filled |-> x.filled]
        BY <1>0 DEF OrderFact
      <3>. HIDE DEF x
      <3>. QED  BY <3>1
    <2>2. [broker.orders EXCEPT ![o].state = "CANCELLED"]
            = [broker.orders EXCEPT ![o] = [x EXCEPT !.state = "CANCELLED"]]
      BY <1>0 DEF OrderTable
    <2>3. broker' = [broker EXCEPT !.orders = [broker.orders EXCEPT ![o].state = "CANCELLED"]]
      BY <1>0 DEF EndOrder, Broker
    <2>. QED  BY <1>0, <2>1, <2>2, <2>3 DEF Broker
  <1>3. Moment(broker) /\ TradeInv
    BY <1>1 DEF QuietInv
  <1>. HIDE DEF y
  <1>4. /\ broker'.orders[o] = y /\ y.filled = x.filled /\ y.state # "none" /\ x.state # "none"
        /\ \A p \in AllOrders \ {o} : broker'.orders[p] = broker.orders[p]
    BY <1>0, <1>2 DEF y, OrderTable, Active
  <1>5. Earlier' = Earlier /\ TradeInv'
    BY <1>1, <1>2, <1>3 DEF Earlier, TradeInv
  <1>6. \A p \in Orders : /\ FillsOf(broker'.fills, p) = Executions(p, broker'.orders[p].filled)
                          /\ broker'.orders[p].state = "none" => broker'.orders[p] = NoOrder
                          /\ broker'.orders[p].state # "none" <=> ledger[p].session = day
    <2>. TAKE p \in Orders
    <2>1. broker'.fills = broker.fills
      BY <1>2
    <2>2. CASE p = o
      BY <1>3, <1>4, <2>1, <2>2 DEF Moment
    <2>3. CASE p # o
      BY <1>3, <1>4, <2>1, <2>3 DEF Moment, AllOrders
    <2>. QED  BY <2>2, <2>3
  <1>7. broker'.orders[Foreign] = NoOrder
    BY <1>3, <1>4 DEF Moment, AllOrders, Foreign, Orders
  <1>8. broker'.cash = broker.cash /\ broker'.position = broker.position /\ broker'.fills = broker.fills
    BY <1>2
  <1>9. Moment(broker)'
    BY <1>1, <1>3, <1>5, <1>6, <1>7, <1>8 DEF Moment
  <1>. QED  BY <1>1, <1>5, <1>9, QuietTrading

\* Nothing that happens at the broker without the system belongs to a quiet history.
LEMMA QuietExternal ==
    ASSUME IInv, external' = external + 1
    PROVE  QuietInv'
  BY DEF IInv, CounterInv, QuietInv, Quiet

\* What a night forgets has been adopted.
LEMMA QuietOvernight ==
    ASSUME ReconciliationAssumption, IInv, QuietInv, NEW credited \in 0..1, Overnight(credited)
    PROVE  QuietInv'
  <1>. SUFFICES ASSUME Quiet' PROVE QuietInv'
    BY DEF QuietInv
  <1>. DEFINE none == [o \in AllOrders |-> NoOrder]
              held == broker.position.total
  <1>0. broker \in Broker /\ broker.orders \in OrderTable /\ held \in Nat
    BY BrokerFields DEF IInv, BrokerInv
  <1>1. /\ Quiet /\ credited = 0 /\ day \in Nat /\ day' = day + 1
        /\ traded \subseteq account.fills
        /\ \A o \in Orders : ledger[o].state \in Terminal \cup {"none"}
        /\ UNCHANGED <<ledger, known, account, reads, snapshot, result, traded>>
        /\ reads = <<>> /\ snapshot = None
    <2>1. external \in Nat /\ day \in Nat
      BY Constants DEF IInv, CounterInv
    <2>2. external' = external + credited /\ external' = 0
      BY DEF Overnight, Quiet
    <2>3. external = 0 /\ credited = 0
      BY <2>1, <2>2
    <2>4. /\ missed' = (missed \/ ~(traded \subseteq account.fills)
                           \/ \E o \in Orders : ledger[o].state \notin Terminal \cup {"none"})
          /\ ~missed'
      BY DEF Overnight, Quiet
    <2>5. day' = day + 1 /\ UNCHANGED <<ledger, known, account, reads, snapshot, result, traded>>
          /\ reads = <<>> /\ snapshot = None
      BY DEF Overnight, ledgerVars, readVars
    <2>. QED  BY <2>1, <2>3, <2>4, <2>5 DEF Quiet
  <1>2. broker' = [cash |-> broker.cash, position |-> [total |-> held, sellable |-> held],
                   orders |-> none, fills |-> {}]
    <2>1. broker.position.total + credited = held
      BY <1>0, <1>1
    <2>. QED  BY <1>0, <2>1 DEF Overnight, Broker, OrderTable
  <1>3. Moment(broker) /\ OrderInv /\ TradeInv /\ AdoptedInv
    BY <1>1 DEF QuietInv
  <1>4. Earlier' = traded /\ Earlier \cup broker.fills = traded /\ broker'.fills = {}
    BY <1>1, <1>2, <1>3 DEF Earlier, Moment
  <1>5. account.fills = traded
    BY <1>1 DEF IInv, LedgerInv
  <1>6. \A o \in Orders : ledger[o].session \in Nat /\ ledger[o].session # day'
    BY <1>1, <1>3 DEF OrderInv, IInv, LedgerInv, LedgerRow
  <1>7. none[Foreign] = NoOrder /\ \A o \in Orders : none[o] = NoOrder
    BY DEF AllOrders
  <1>. HIDE DEF none, held
  <1>8. \A o \in Orders : FillsOf({}, o) = Executions(o, 0)
    BY DEF FillsOf, Executions
  <1>9. Moment(broker)'
    <2>1. Earlier' \cup broker'.fills = traded /\ broker'.fills \subseteq traded'
          /\ broker'.fills \cap Earlier' = {}
      BY <1>1, <1>4
    <2>2. /\ broker.cash = Cash0 - Price * Net(traded)
          /\ held = Held0 + Net(traded)
      BY <1>3, <1>4 DEF Moment, held
    <2>3. held = Held0 + Net(traded) - Sold({})
      <3>1. Sold({}) = 0 /\ Net(traded) \in Int /\ Held0 \in Nat
        BY NoFills, NetOfFills, Constants DEF IInv, LedgerInv
      <3>. QED  BY <2>2, <3>1
    <2>4. /\ broker'.cash = Cash0 - Price * Net(Earlier' \cup broker'.fills)
          /\ broker'.position.total = Held0 + Net(Earlier' \cup broker'.fills)
          /\ broker'.position.sellable = Held0 + Net(Earlier') - Sold(broker'.fills)
      BY <1>2, <1>4, <2>1, <2>2, <2>3
    <2>5. \A o \in Orders : /\ FillsOf(broker'.fills, o) = Executions(o, broker'.orders[o].filled)
                            /\ broker'.orders[o] = NoOrder /\ broker'.orders[o].state = "none"
      BY <1>2, <1>7, <1>8 DEF NoOrder
    <2>6. broker'.orders[Foreign] = NoOrder
      BY <1>2, <1>7
    <2>. QED  BY <1>1, <1>6, <2>1, <2>4, <2>5, <2>6 DEF Moment
  <1>10. OrderInv'
    <2>1. \A o \in Orders : ledger[o].session <= day'
      BY <1>1, <1>3, <1>6 DEF OrderInv
    <2>. QED  BY <1>1, <1>3, <2>1 DEF OrderInv
  <1>11. TradeInv'
    BY <1>1, <1>3, <1>4, <1>6 DEF TradeInv
  <1>12. AdoptedInv'
    BY <1>1, <1>3, <1>4, <1>5 DEF AdoptedInv
  <1>13. ~ReadAgain'
    BY <1>1 DEF ReadAgain
  <1>14. (result.current => result.blockers = {})'
    BY <1>1 DEF QuietInv
  <1>. QED  BY <1>9, <1>10, <1>11, <1>12, <1>13, <1>14 DEF QuietInv

-----------------------------------------------------------------------------
(* The ledger.                                                             *)

LEMMA QuietPlace ==
    ASSUME ReconciliationAssumption, IInv, QuietInv, NEW o \in Orders, NEW lost \in BOOLEAN,
           Place(o, lost)
    PROVE  QuietInv'
  <1>. SUFFICES ASSUME Quiet' PROVE QuietInv'
    BY DEF QuietInv
  <1>. DEFINE y == [state |-> "ACKNOWLEDGED", filled |-> 0]
              row == [state |-> IF lost THEN "UNKNOWN" ELSE "ACKNOWLEDGED", filled |-> 0,
                      session |-> day]
  <1>0. /\ broker \in Broker /\ broker.orders \in OrderTable /\ o \in AllOrders /\ day \in Nat
        /\ broker.orders[o] = NoOrder /\ ledger[o].state = "none" /\ ledger \in [Orders -> LedgerRow]
    BY BrokerFields DEF IInv, BrokerInv, LedgerInv, CounterInv, Place, AllOrders
  <1>1. broker' = [cash |-> broker.cash, position |-> broker.position,
                   orders |-> [broker.orders EXCEPT ![o] = y], fills |-> broker.fills]
    BY <1>0 DEF Place, Broker, OrderTable, NoOrder
  <1>2. /\ ledger' = [ledger EXCEPT ![o] = row] /\ reads = <<>> /\ snapshot = None
        /\ UNCHANGED <<day, known, account, reads, snapshot, result, traded>> /\ Quiet
    BY DEF Place, history, Idle, readVars, Quiet
  <1>3. Moment(broker) /\ OrderInv /\ TradeInv /\ AdoptedInv
    BY <1>2 DEF QuietInv
  <1>4. /\ y.filled = 0 /\ y.state # "none" /\ row.filled = 0 /\ row.state # "none"
        /\ row.session = day
    OBVIOUS
  <1>. HIDE DEF y, row
  <1>5. /\ broker'.orders[o] = y /\ broker'.fills = broker.fills
        /\ broker'.cash = broker.cash /\ broker'.position = broker.position
        /\ \A p \in AllOrders \ {o} : broker'.orders[p] = broker.orders[p]
    BY <1>0, <1>1 DEF OrderTable
  <1>6. ledger'[o] = row /\ \A p \in Orders \ {o} : ledger'[p] = ledger[p]
    BY <1>0, <1>2
  <1>7. Earlier' = Earlier
    BY <1>2, <1>5 DEF Earlier
  <1>8. \A f \in traded : f[1] \in Orders \ {o}
    BY <1>0, <1>3 DEF TradeInv
  <1>9. TradeInv'
    <2>1. Earlier \subseteq traded
      BY DEF Earlier
    <2>. QED  BY <1>2, <1>3, <1>6, <1>7, <1>8, <2>1 DEF TradeInv
  <1>10. FillsOf(broker.fills, o) = Executions(o, 0) /\ FillsOf(known, o) = Executions(o, 0)
    BY <1>3, <1>8 DEF FillsOf, Executions, Moment, IInv, LedgerInv
  <1>11. OrderInv'
    <2>1. ASSUME NEW p \in Orders
          PROVE  /\ FillsOf(known, p) = Executions(p, ledger'[p].filled)
                 /\ ledger'[p].session <= day
                 /\ ledger'[p].session # day => ledger'[p].state \in Terminal \cup {"none"}
      <3>1. CASE p = o
        BY <1>0, <1>4, <1>6, <1>10, <3>1
      <3>2. CASE p # o
        BY <1>3, <1>6, <3>2 DEF OrderInv
      <3>. QED  BY <3>1, <3>2
    <2>. QED  BY <1>2, <2>1 DEF OrderInv
  <1>12. Moment(broker)'
    <2>1. ASSUME NEW p \in Orders
          PROVE  /\ FillsOf(broker'.fills, p) = Executions(p, broker'.orders[p].filled)
                 /\ broker'.orders[p].state = "none" => broker'.orders[p] = NoOrder
                 /\ broker'.orders[p].state # "none" <=> ledger'[p].session = day
      <3>1. CASE p = o
        BY <1>4, <1>5, <1>6, <1>10, <3>1
      <3>2. CASE p # o
        BY <1>3, <1>5, <1>6, <3>2 DEF Moment, AllOrders
      <3>. QED  BY <3>1, <3>2
    <2>2. broker'.orders[Foreign] = NoOrder
      BY <1>3, <1>5 DEF Moment, AllOrders, Foreign, Orders
    <2>. QED  BY <1>2, <1>3, <1>5, <1>7, <2>1, <2>2 DEF Moment
  <1>13. AdoptedInv'
    BY <1>2, <1>3, <1>7 DEF AdoptedInv
  <1>14. ~ReadAgain'
    BY <1>2 DEF ReadAgain
  <1>15. (result.current => result.blockers = {})'
    BY <1>2 DEF QuietInv
  <1>. QED  BY <1>9, <1>11, <1>12, <1>13, <1>14, <1>15 DEF QuietInv

LEMMA QuietIngest ==
    ASSUME ReconciliationAssumption, IInv, QuietInv, NEW o \in Orders, Ingest(o)
    PROVE  QuietInv'
  <1>. SUFFICES ASSUME Quiet' PROVE QuietInv'
    BY DEF QuietInv
  <1>0. /\ broker \in Broker /\ broker.orders[o] \in OrderFact /\ ledger \in [Orders -> LedgerRow]
        /\ broker.orders[o].state # "none"
    BY BrokerFields DEF IInv, BrokerInv, LedgerInv, OrderTable, AllOrders, Ingest
  <1>1. /\ ledger'[o].state = broker.orders[o].state /\ ledger'[o].filled = broker.orders[o].filled
        /\ ledger'[o].session = ledger[o].session
        /\ \A p \in Orders \ {o} : ledger'[p] = ledger[p]
    BY <1>0, IngestedRow
  <1>2. /\ reads = <<>> /\ snapshot = None /\ known' = known \cup FillsOf(broker.fills, o)
        /\ UNCHANGED <<day, broker, account, reads, snapshot, result, traded>> /\ Quiet
    BY DEF Ingest, history, Idle, readVars, Quiet, FillsOf
  <1>3. Moment(broker) /\ OrderInv /\ TradeInv /\ AdoptedInv
    BY <1>2 DEF QuietInv
  <1>4. ledger[o].session = day
    BY <1>0, <1>3 DEF Moment
  <1>5. Earlier' = Earlier /\ \A p \in Orders : ledger'[p].session = ledger[p].session
    BY <1>1, <1>2 DEF Earlier
  <1>6. FillsOf(known, o) \subseteq FillsOf(broker.fills, o)
    <2>1. ASSUME NEW f \in known, f[1] = o PROVE f \in broker.fills
      <3>1. f \in traded /\ f \notin Earlier
        BY <1>3, <1>4, <2>1 DEF TradeInv, IInv, LedgerInv
      <3>. QED  BY <3>1 DEF Earlier
    <2>. QED  BY <2>1 DEF FillsOf
  <1>7. OrderInv'
    <2>1. ASSUME NEW p \in Orders
          PROVE  /\ FillsOf(known', p) = Executions(p, ledger'[p].filled)
                 /\ ledger'[p].session <= day
                 /\ ledger'[p].session # day => ledger'[p].state \in Terminal \cup {"none"}
      <3>1. CASE p = o
        <4>1. FillsOf(known', o) = FillsOf(broker.fills, o)
          BY <1>2, <1>6 DEF FillsOf
        <4>2. FillsOf(broker.fills, o) = Executions(o, broker.orders[o].filled)
          BY <1>3 DEF Moment
        <4>. QED  BY <1>1, <1>3, <1>4, <3>1, <4>1, <4>2 DEF OrderInv
      <3>2. CASE p # o
        <4>1. FillsOf(known', p) = FillsOf(known, p)
          BY <1>2, <3>2 DEF FillsOf
        <4>. QED  BY <1>1, <1>3, <3>2, <4>1 DEF OrderInv
      <3>. QED  BY <3>1, <3>2
    <2>. QED  BY <1>2, <2>1 DEF OrderInv
  <1>8. TradeInv'
    <2>1. \A p \in Orders : ledger[p].state # "none" => ledger'[p].state # "none"
      BY <1>0, <1>1
    <2>2. Earlier \subseteq traded
      BY DEF Earlier
    <2>. QED  BY <1>2, <1>3, <1>5, <2>1, <2>2 DEF TradeInv
  <1>9. Moment(broker)'
    BY <1>2, <1>3, <1>5 DEF Moment
  <1>10. AdoptedInv'
    BY <1>2, <1>3, <1>5 DEF AdoptedInv
  <1>11. ~ReadAgain'
    BY <1>2 DEF ReadAgain
  <1>12. (result.current => result.blockers = {})'
    BY <1>2 DEF QuietInv
  <1>. QED  BY <1>7, <1>8, <1>9, <1>10, <1>11, <1>12 DEF QuietInv

-----------------------------------------------------------------------------
(* Reading and reconciling.                                                *)

\* A step that moves neither broker, ledger nor account keeps what is known of them.
LEMMA QuietReading ==
    ASSUME QuietInv, Quiet,
           UNCHANGED <<day, broker, ledger, known, account, traded>>,
           ReadAgain' => Moment(between)' /\ (account.fills \subseteq Earlier \cup between.fills)',
           (result.current => result.blockers = {})'
    PROVE  QuietInv'
  <1>1. Earlier' = Earlier
    BY DEF Earlier
  <1>2. Moment(broker)' /\ OrderInv' /\ TradeInv' /\ AdoptedInv'
    BY <1>1 DEF QuietInv, Moment, OrderInv, TradeInv, AdoptedInv
  <1>. QED  BY <1>2 DEF QuietInv

LEMMA QuietRead ==
    ASSUME ReconciliationAssumption, IInv, QuietInv, Read
    PROVE  QuietInv'
  <1>. SUFFICES ASSUME Quiet' PROVE QuietInv'
    BY DEF QuietInv
  <1>1. /\ Quiet /\ UNCHANGED <<day, broker, ledger, known, account, traded, snapshot, result>>
        /\ between' = IF Len(reads) = 4 THEN broker ELSE between
    BY DEF Read, Quiet, ledgerVars
  <1>2. Len(reads) \in Nat /\ Len(reads') = Len(reads) + 1
    <2>1. reads \in Seq(Answer)
      BY DEF IInv, ReadInv
    <2>. QED  BY <2>1, LenProperties, AppendProperties DEF Read
  <1>3. Earlier' = Earlier
    BY <1>1 DEF Earlier
  <1>4. snapshot = None
    <2>1. reads # <<>>
      BY DEF Read
    <2>. QED  BY <2>1 DEF IInv, SnapshotInv
  <1>5. ASSUME ReadAgain'
        PROVE  Moment(between)' /\ (account.fills \subseteq Earlier \cup between.fills)'
    <2>1. Len(reads) >= 4
      BY <1>1, <1>2, <1>4, <1>5 DEF ReadAgain
    <2>2. CASE Len(reads) = 4
      <3>1. Moment(broker) /\ account.fills \subseteq Earlier \cup broker.fills
        BY <1>1 DEF QuietInv, IInv, LedgerInv, Earlier
      <3>. QED  BY <1>1, <1>3, <2>2, <3>1 DEF Moment
    <2>3. CASE Len(reads) # 4
      <3>1. ReadAgain
        <4>. DEFINE n == Len(reads)
        <4>1. n \in Nat /\ n >= 4 /\ n # 4
          BY <1>2, <2>1, <2>3
        <4>. HIDE DEF n
        <4>2. n >= 5
          BY <4>1
        <4>. QED  BY <4>2 DEF n, ReadAgain
      <3>2. Moment(between) /\ account.fills \subseteq Earlier \cup between.fills
        BY <1>1, <3>1 DEF QuietInv
      <3>. QED  BY <1>1, <1>3, <2>3, <3>2 DEF Moment
    <2>. QED  BY <2>2, <2>3
  <1>6. (result.current => result.blockers = {})'
    BY <1>1 DEF QuietInv
  <1>. QED  BY <1>1, <1>5, <1>6, QuietReading

\* The steps that begin, accept, refuse or forget a snapshot, and the review of a refused one.
LEMMA QuietCapture ==
    ASSUME ReconciliationAssumption, IInv, QuietInv, BeginCapture \/ EndCapture \/ Review \/ Crash
    PROVE  QuietInv'
  <1>. SUFFICES ASSUME Quiet' PROVE QuietInv'
    BY DEF QuietInv
  <1>1. Quiet /\ UNCHANGED <<day, broker, ledger, known, account, traded>>
    BY DEF BeginCapture, EndCapture, Review, Crash, Quiet, ledgerVars, history
  <1>2. (result.current => result.blockers = {})'
    BY <1>1 DEF BeginCapture, EndCapture, Review, Crash, QuietInv, NoResult
  <1>3. Earlier' = Earlier
    BY <1>1 DEF Earlier
  <1>4. ASSUME ReadAgain' PROVE ReadAgain /\ between' = between
    <2>1. CASE BeginCapture
      <3>1. Len(reads') = 1 /\ snapshot' = None
        BY <2>1 DEF BeginCapture, Idle
      <3>. QED  BY <1>4, <3>1 DEF ReadAgain
    <2>2. CASE EndCapture
      <3>1. Len(reads) = 8 /\ snapshot = None
        <4>1. Len(reads) = 8
          BY <2>2 DEF EndCapture
        <4>2. reads # <<>>
          BY <4>1
        <4>. QED  BY <4>1, <4>2 DEF IInv, SnapshotInv
      <3>2. ReadAgain
        BY <3>1 DEF ReadAgain
      <3>3. Len(reads') = 0 \/ Len(reads') = 1
        BY <2>2 DEF EndCapture
      <3>4. snapshot' # None
        <4>. DEFINE n == Len(reads')
        <4>1. n >= 5 \/ snapshot' # None
          BY <1>4 DEF ReadAgain
        <4>2. n = 0 \/ n = 1
          BY <3>3
        <4>. HIDE DEF n
        <4>. QED  BY <4>1, <4>2
      <3>5. between' = between
        BY <2>2, <3>1, <3>4 DEF EndCapture
      <3>. QED  BY <3>2, <3>5
    <2>3. CASE Review
      BY <1>4, <2>3 DEF Review, readVars, history, ReadAgain
    <2>4. CASE Crash
      BY <1>4, <2>4 DEF Crash, ReadAgain
    <2>. QED  BY <2>1, <2>2, <2>3, <2>4
  <1>5. ASSUME ReadAgain'
        PROVE  Moment(between)' /\ (account.fills \subseteq Earlier \cup between.fills)'
    <2>1. Moment(between) /\ account.fills \subseteq Earlier \cup between.fills /\ between' = between
      BY <1>1, <1>4, <1>5 DEF QuietInv
    <2>. QED  BY <1>1, <1>3, <2>1, MomentStays
  <1>. QED  BY <1>1, <1>2, <1>5, QuietReading

\* The snapshot of a quiet session, in the terms of its moment.
LEMMA QuietSnapshot ==
    ASSUME ReconciliationAssumption, IInv, QuietInv, Quiet, snapshot # None
    PROVE  /\ Moment(between) /\ between \in Broker
           /\ account.fills \cup snapshot.fills = Earlier \cup between.fills
           /\ snapshot.cash = between.cash /\ snapshot.position = between.position
           /\ snapshot.orders = between.orders /\ snapshot.fills = between.fills
           /\ OrderInv /\ TradeInv /\ AdoptedInv
  <1>1. ReadAgain /\ OrderInv /\ TradeInv /\ AdoptedInv
    BY DEF ReadAgain, QuietInv
  <1>2. Moment(between) /\ account.fills \subseteq Earlier \cup between.fills
        /\ Earlier \subseteq account.fills
    BY <1>1 DEF QuietInv, AdoptedInv
  <1>3. /\ between \in Broker /\ snapshot.cash = between.cash /\ snapshot.position = between.position
        /\ snapshot.orders = between.orders /\ snapshot.fills = between.fills
    BY DEF IInv, SnapshotInv
  <1>. QED  BY <1>1, <1>2, <1>3

\* What a passed reconciliation adopts in a quiet session.
LEMMA QuietAdoption ==
    ASSUME ReconciliationAssumption, IInv, QuietInv, Quiet, snapshot # None, account' = Prepared,
           UNCHANGED <<day, broker, ledger, traded>>
    PROVE  AdoptedInv'
  <1>. DEFINE s == snapshot
  <1>0. /\ Moment(between) /\ account.fills \cup s.fills = Earlier \cup between.fills
        /\ s.cash = between.cash /\ s.position = between.position /\ s.fills = between.fills
        /\ between \in Broker /\ AdoptedInv
    BY QuietSnapshot
  <1>1. Earlier' = Earlier
    BY DEF Earlier
  <1>2. /\ account'.cash = s.cash /\ account'.total = s.position.total
        /\ account'.locked = s.position.total - s.position.sellable
        /\ account'.asOf = day /\ account'.fills = account.fills \cup s.fills
    BY DEF Prepared
  <1>3. day \in Nat
    BY DEF IInv, CounterInv
  <1>4. Earlier \subseteq account'.fills /\ account'.cash = Cash0 - Price * Net(account'.fills)
    BY <1>0, <1>2 DEF Moment
  <1>5. account'.fills \ Earlier = between.fills
    BY <1>0, <1>2 DEF Moment
  <1>6. account'.total - account'.locked = s.position.sellable
    <2>1. s.position.total \in Nat /\ s.position.sellable \in Nat
      BY <1>0, BrokerFields
    <2>. QED  BY <1>2, <2>1
  <1>7. account'.total - account'.locked = Held0 + Net(Earlier) - Sold(account'.fills \ Earlier)
    BY <1>0, <1>5, <1>6 DEF Moment
  <1>. QED  BY <1>1, <1>2, <1>3, <1>4, <1>7 DEF AdoptedInv

\* The expectations of the preflight are the snapshot, when every fill of it is explained.
LEMMA QuietExpectation ==
    ASSUME ReconciliationAssumption, IInv, QuietInv, Quiet, snapshot # None,
           Explained = snapshot.fills
    PROVE  /\ ExpectedCash = snapshot.cash /\ snapshot.cash \in Nat
           /\ snapshot.position = Expected
           /\ Sold(New) <= Sellable
  <1>0. /\ Moment(between) /\ account.fills \cup snapshot.fills = Earlier \cup between.fills
        /\ snapshot.cash = between.cash /\ snapshot.position = between.position
        /\ snapshot.fills = between.fills
        /\ between \in Broker /\ AdoptedInv
    BY QuietSnapshot
  <1>1. /\ between.cash \in Nat /\ between.position.total \in Nat
        /\ between.position.sellable \in Nat /\ between.position \in Position
    BY <1>0, BrokerFields
  <1>2. /\ Cash0 \in Nat /\ Held0 \in Nat /\ Price \in Nat
        /\ account.total \in Nat /\ account.total = Held0 + Net(account.fills)
        /\ account.locked \in Nat
    BY Constants DEF IInv, AccountInv
  <1>3. New = between.fills \ account.fills
    BY <1>0 DEF New
  <1>4. /\ IsFiniteSet(New) /\ IsFiniteSet(account.fills) /\ Net(New) \in Int
        /\ Net(account.fills) \in Int /\ Sold(New) \in Nat
        /\ Net(account.fills \cup New) = Net(account.fills) + Net(New)
    BY NewFills
  <1>5. account.fills \cup New = Earlier \cup between.fills
    BY <1>0, <1>3
  <1>6. ExpectedCash = snapshot.cash
    <2>. DEFINE a == Net(account.fills)
                b == Net(New)
                c == account.cash
    <2>1. c = Cash0 - Price * a /\ between.cash = Cash0 - Price * (a + b) /\ ExpectedCash = c - Price * b
      BY <1>0, <1>4, <1>5 DEF AdoptedInv, Moment, ExpectedCash
    <2>2. a \in Int /\ b \in Int
      BY <1>4
    <2>. HIDE DEF a, b, c
    <2>3. Price * (a + b) = Price * a + Price * b /\ Price * a \in Int /\ Price * b \in Int
      BY <1>2, <2>2, TimesAdds
    <2>. QED  BY <1>0, <1>2, <2>1, <2>3
  <1>7. between.position.total = account.total + Net(New)
    <2>1. between.position.total = Held0 + (Net(account.fills) + Net(New))
      BY <1>0, <1>4, <1>5 DEF Moment
    <2>. QED  BY <1>2, <1>4, <2>1
  <1>8. between.position.sellable = Sellable - Sold(New) /\ Sellable \in Int
    <2>. DEFINE had == account.fills \ Earlier
    <2>1. between.fills = had \cup New /\ had \cap New = {} /\ had \subseteq account.fills
      BY <1>0, <1>3 DEF Moment, AdoptedInv
    <2>2. IsFiniteSet(had) /\ Sold(had) \in Nat
      <3>1. IsFiniteSet(had)
        BY <1>4, <2>1, FS_Subset
      <3>. QED  BY <3>1, NetOfFills
    <2>3. Sold(between.fills) = Sold(had) + Sold(New)
      BY <1>4, <2>1, <2>2, SoldAdds
    <2>4. Net(Earlier) \in Int
      BY <1>0, EarlierAndToday
    <2>5. between.position.sellable = Held0 + Net(Earlier) - Sold(between.fills)
      BY <1>0 DEF Moment
    <2>6. CASE account.asOf = day
      <3>1. Sellable = account.total - account.locked
        BY <2>6 DEF Sellable
      <3>2. account.total - account.locked = Held0 + Net(Earlier) - Sold(had)
        BY <1>0, <2>6 DEF AdoptedInv
      <3>. HIDE DEF had
      <3>. QED  BY <1>2, <1>4, <2>2, <2>3, <2>4, <2>5, <3>1, <3>2
    <2>7. CASE account.asOf # day
      <3>1. had = {} /\ account.fills = Earlier
        BY <1>0, <2>7 DEF AdoptedInv
      <3>2. Sold(had) = 0
        BY <3>1, NoFills
      <3>3. Sellable = account.total - 0
        BY <2>7 DEF Sellable
      <3>4. account.total = Held0 + Net(Earlier)
        BY <1>2, <3>1
      <3>. HIDE DEF had
      <3>. QED  BY <1>2, <1>4, <2>2, <2>3, <2>4, <2>5, <3>2, <3>3, <3>4
    <2>. QED  BY <2>6, <2>7
  <1>9. snapshot.position = Expected
    <2>. DEFINE p == between.position
    <2>1. p = [total |-> p.total, sellable |-> p.sellable]
      BY <1>1 DEF Position
    <2>2. Expected = [total |-> account.total + Net(New), sellable |-> Sellable - Sold(New)]
      BY DEF Expected
    <2>. QED  BY <1>0, <1>7, <1>8, <2>1, <2>2
  <1>10. Sold(New) <= Sellable
    BY <1>1, <1>4, <1>8
  <1>. QED  BY <1>0, <1>1, <1>6, <1>9, <1>10

\* An order of a quiet session that the ledger is current about is the broker's order.
LEMMA QuietOrders ==
    ASSUME ReconciliationAssumption, IInv, QuietInv, Quiet, snapshot # None, LedgerCurrent
    PROVE  /\ Listed \subseteq Orders
           /\ \A o \in Orders : ledger[o].session = day <=> o \in Listed
           /\ \A o \in Listed : /\ Mapped(o) /\ ~OrderDiffers(o) /\ ~SyncRefuses(o)
                                /\ FillsOf(known, o) = FillsOf(snapshot.fills, o)
           /\ \A o \in Orders : Mapped(o) => o \in Listed
           /\ \A f \in snapshot.fills : f[1] \in Listed
  <1>0. /\ Moment(between) /\ between \in Broker
        /\ snapshot.orders = between.orders /\ snapshot.fills = between.fills
        /\ OrderInv /\ TradeInv
    BY QuietSnapshot
  <1>1. Listed \subseteq Orders
    BY <1>0 DEF Listed, Moment, NoOrder
  <1>2. \A o \in Orders : ledger[o].session = day <=> o \in Listed
    BY <1>0 DEF Listed, Moment
  <1>3. \A o \in Orders : between.orders[o] \in OrderFact /\ between.orders[o].filled \in Nat
    BY <1>0, BrokerFields DEF OrderTable, AllOrders, OrderFact
  <1>4. ASSUME NEW o \in Listed
        PROVE  /\ ledger[o].state = between.orders[o].state
               /\ ledger[o].filled = between.orders[o].filled
               /\ ledger[o].session = day /\ between.orders[o].state \in Active \cup Terminal
    <2>1. o \in Orders /\ between.orders[o].state # "none"
      BY <1>0, <1>1 DEF Listed
    <2>. QED  BY <1>0, <1>2, <1>3, <2>1 DEF LedgerCurrent, OrderFact
  <1>5. ASSUME NEW o \in Listed PROVE Mapped(o) /\ ~OrderDiffers(o)
    BY <1>0, <1>1, <1>4 DEF Mapped, OrderInWindow, OrderDiffers, Active, Terminal
  <1>6. ASSUME NEW o \in Listed
        PROVE  ~SyncRefuses(o) /\ FillsOf(known, o) = FillsOf(snapshot.fills, o)
    <2>. DEFINE n == between.orders[o].filled
    <2>1. n \in Nat /\ FillsOf(between.fills, o) = Executions(o, n) /\ FillsOf(known, o) = Executions(o, n)
      BY <1>0, <1>1, <1>3, <1>4 DEF Moment, OrderInv
    <2>. HIDE DEF n
    <2>2. Cardinality(FillsOf(between.fills, o)) = n
      BY <2>1, ExecutionsCount
    <2>3. Cardinality({f \in snapshot.fills : f[1] = o}) = n /\ snapshot.orders[o].filled = n
      BY <1>0, <2>2 DEF FillsOf, n
    <2>4. ~(n > n)
      BY <2>1
    <2>. QED  BY <1>0, <2>1, <2>3, <2>4 DEF SyncRefuses
  <1>7. ASSUME NEW o \in Orders, Mapped(o) PROVE o \in Listed
    <2>1. ledger[o].state \notin {"none", "UNKNOWN"}
          /\ (ledger[o].session = day \/ ledger[o].state \in CrossSession)
      BY <1>7 DEF Mapped, OrderInWindow
    <2>2. ledger[o].session = day
      BY <1>0, <2>1 DEF OrderInv, CrossSession, Active, Terminal
    <2>. QED  BY <1>2, <2>2
  <1>8. ASSUME NEW f \in snapshot.fills PROVE f[1] \in Listed
    <2>1. f[1] \in Orders /\ f \in FillsOf(between.fills, f[1])
      BY <1>0 DEF Moment, TradeInv, FillsOf
    <2>2. f \in Executions(f[1], between.orders[f[1]].filled)
      BY <1>0, <2>1 DEF Moment
    <2>3. between.orders[f[1]].filled # 0
      BY <2>2 DEF Executions
    <2>4. between.orders[f[1]].state # "none"
      BY <1>0, <2>1, <2>3 DEF Moment, NoOrder
    <2>. QED  BY <1>0, <2>1, <2>4 DEF Listed
  <1>. QED  BY <1>1, <1>2, <1>5, <1>6, <1>7, <1>8

\* No rule of the reconciliation blocks a quiet session that the ledger is current about.
LEMMA QuietPasses ==
    ASSUME ReconciliationAssumption, IInv, QuietInv, Quiet, snapshot # None, LedgerCurrent
    PROVE  Preflight = {} /\ Final = {}
  <1>0. /\ Listed \subseteq Orders
        /\ \A o \in Orders : ledger[o].session = day <=> o \in Listed
        /\ \A o \in Listed : /\ Mapped(o) /\ ~OrderDiffers(o) /\ ~SyncRefuses(o)
                             /\ FillsOf(known, o) = FillsOf(snapshot.fills, o)
        /\ \A o \in Orders : Mapped(o) => o \in Listed
        /\ \A f \in snapshot.fills : f[1] \in Listed
    BY QuietOrders
  <1>1. Explained = snapshot.fills
    <2>1. ASSUME NEW f \in snapshot.fills PROVE f \in KnownFills
      <3>1. f[1] \in Listed /\ f \in FillsOf(snapshot.fills, f[1])
        BY <1>0 DEF FillsOf
      <3>2. f \in known
        BY <1>0, <3>1 DEF FillsOf
      <3>. QED  BY <1>0, <3>1, <3>2 DEF KnownFills, FillInWindow
    <2>. QED  BY <1>0, <2>1 DEF Explained
  <1>2. /\ ExpectedCash = snapshot.cash /\ snapshot.cash \in Nat /\ snapshot.position = Expected
        /\ Sold(New) <= Sellable
    BY <1>1, QuietExpectation
  <1>3. ~PreflightBlocks("EXTERNAL_BROKER_ORDER")
    BY <1>0 DEF PreflightBlocks
  <1>4. ~PreflightBlocks("UNMAPPED_BROKER_FILL")
    BY <1>1 DEF PreflightBlocks
  <1>5. ~PreflightBlocks("SYSTEM_FILL_CONTRADICTS_ACCOUNT_STATE")
    <2>1. ~(ExpectedCash < 0)
      BY <1>2
    <2>2. Sold(New) \in Nat /\ Sellable \in Int
      <3>1. Sold(New) \in Nat
        BY NewFills
      <3>2. account.total \in Nat /\ account.locked \in Nat
        BY DEF IInv, AccountInv
      <3>. QED  BY <3>1, <3>2 DEF Sellable
    <2>3. ~(Sold(New) > Sellable)
      BY <1>2, <2>2
    <2>. QED  BY <2>1, <2>3 DEF PreflightBlocks
  <1>6. ~PreflightBlocks("UNEXPLAINED_CASH_CHANGE")
    <2>. DEFINE c == snapshot.cash
    <2>1. ExpectedCash = c /\ c \in Nat /\ Tolerance \in Nat
      BY <1>2, Constants
    <2>. HIDE DEF c
    <2>2. ~(Gap(c, c) > Tolerance)
      BY <2>1 DEF Gap
    <2>3. ~(Gap(snapshot.cash, ExpectedCash) > Tolerance)
      BY <2>1, <2>2 DEF c
    <2>. QED  BY <2>3 DEF PreflightBlocks
  <1>7. ~PreflightBlocks("UNEXPLAINED_POSITION_CHANGE")
    BY <1>2 DEF PreflightBlocks
  <1>8. ~FinalBlocks("ORDER_STATE_MISMATCH")
    BY <1>0 DEF FinalBlocks
  <1>9. ~FinalBlocks("SYSTEM_ORDER_MISSING_AT_BROKER")
    BY <1>0 DEF FinalBlocks
  <1>10. ~FinalBlocks("STRATEGY_SYNC_ERROR")
    BY <1>0 DEF FinalBlocks
  <1>11. ~FinalBlocks("LOCAL_FILL_MISSING_AT_BROKER")
    <2>1. ASSUME NEW f \in KnownFills PROVE f \in snapshot.fills
      <3>1. f \in known /\ ledger[f[1]].session = day /\ f[1] \in Orders
        BY QuietSnapshot DEF KnownFills, FillInWindow, TradeInv, IInv, LedgerInv
      <3>2. f[1] \in Listed /\ f \in FillsOf(known, f[1])
        BY <1>0, <3>1 DEF FillsOf
      <3>. QED  BY <1>0, <3>2 DEF FillsOf
    <2>. QED  BY <2>1 DEF FinalBlocks
  <1>12. ~FinalBlocks("UNRESOLVED_LOCAL_ORDER")
    BY DEF FinalBlocks, LedgerCurrent
  <1>13. Preflight = {}
    BY <1>3, <1>4, <1>5, <1>6, <1>7 DEF Preflight
  <1>14. Final = {}
    BY <1>8, <1>9, <1>10, <1>11, <1>12 DEF Final
  <1>. QED  BY <1>13, <1>14

LEMMA QuietReconcile ==
    ASSUME ReconciliationAssumption, IInv, QuietInv, Reconcile
    PROVE  QuietInv'
  <1>. SUFFICES ASSUME Quiet' PROVE QuietInv'
    BY DEF QuietInv
  <1>. DEFINE blockers == IF Preflight # {} THEN Preflight ELSE Final
  <1>1. /\ snapshot # None /\ snapshot' = None /\ reads = <<>> /\ reads' = <<>>
        /\ result'.blockers = blockers /\ result'.current = LedgerCurrent
        /\ account' = IF blockers = {} THEN Prepared ELSE account
        /\ UNCHANGED <<day, broker, ledger, known, traded>> /\ Quiet
    BY DEF Reconcile, Quiet, ledgerVars, IInv, SnapshotInv
  <1>2. (result.current => result.blockers = {})'
    BY <1>1, QuietPasses
  <1>3. ~ReadAgain'
    <2>1. Len(reads') = 0
      BY <1>1
    <2>. QED  BY <1>1, <2>1 DEF ReadAgain
  <1>4. Earlier' = Earlier
    BY <1>1 DEF Earlier
  <1>5. Moment(broker)' /\ OrderInv' /\ TradeInv'
    BY <1>1, <1>4 DEF QuietInv, Moment, OrderInv, TradeInv
  <1>6. AdoptedInv'
    <2>1. CASE blockers = {}
      BY <1>1, <2>1, QuietAdoption
    <2>2. CASE blockers # {}
      BY <1>1, <1>4, <2>2 DEF QuietInv, AdoptedInv
    <2>. QED  BY <2>1, <2>2
  <1>. QED  BY <1>2, <1>3, <1>5, <1>6 DEF QuietInv

LEMMA QuietInit ==
    ASSUME ReconciliationAssumption, Init
    PROVE  QuietInv
  <1>1. Earlier = {} /\ account.fills = {} /\ known = {} /\ broker.fills = {} /\ traded = {}
    BY DEF Init, Earlier
  <1>2. \A o \in Orders : FillsOf({}, o) = Executions(o, 0)
    BY DEF FillsOf, Executions
  <1>3. Price * 0 = 0 /\ Cash0 \in Nat /\ Held0 \in Nat /\ Net({}) = 0 /\ Sold({}) = 0
    BY Constants, NoFills
  <1>4. Moment(broker)
    <2>1. \A o \in Orders \cup {Foreign} : broker.orders[o] = NoOrder
      BY DEF Init
    <2>2. /\ broker.cash = Cash0 /\ broker.position.total = Held0 /\ broker.position.sellable = Held0
          /\ day = 1 /\ \A o \in Orders : ledger[o].session = 0
      BY DEF Init
    <2>3. Earlier \cup broker.fills = {}
      BY <1>1
    <2>4. /\ broker.cash = Cash0 - Price * Net(Earlier \cup broker.fills)
          /\ broker.position.total = Held0 + Net(Earlier \cup broker.fills)
          /\ broker.position.sellable = Held0 + Net(Earlier) - Sold(broker.fills)
      BY <1>1, <1>3, <2>2, <2>3
    <2>. QED  BY <1>1, <1>2, <2>1, <2>2, <2>4 DEF Moment, NoOrder
  <1>5. OrderInv
    BY <1>1, <1>2 DEF Init, OrderInv
  <1>6. TradeInv
    BY <1>1 DEF TradeInv
  <1>7. AdoptedInv
    BY <1>1, <1>3 DEF Init, AdoptedInv
  <1>8. ~ReadAgain
    BY DEF Init, ReadAgain
  <1>9. result.current => result.blockers = {}
    BY DEF Init, NoResult
  <1>. QED  BY <1>4, <1>5, <1>6, <1>7, <1>8, <1>9 DEF QuietInv

LEMMA QuietNext ==
    ASSUME ReconciliationAssumption, IInv, QuietInv, [Next]_vars
    PROVE  QuietInv'
  <1>1. CASE UNCHANGED vars
    <2>1. UNCHANGED <<day, broker, ledger, known, account, reads, snapshot, result, between, traded,
                      external, missed>>
      BY <1>1 DEF vars, ledgerVars, readVars, history
    <2>2. CASE Quiet
      <3>1. Earlier' = Earlier
        BY <2>1 DEF Earlier
      <3>2. Moment(broker)' /\ TradeInv'
        BY <2>1, <2>2, <3>1 DEF QuietInv, Moment, TradeInv
      <3>. QED  BY <2>1, <2>2, <3>1, <3>2, QuietTrading
    <2>3. CASE ~Quiet
      BY <2>1, <2>3 DEF Quiet, QuietInv
    <2>. QED  BY <2>2, <2>3
  <1>2. ASSUME NEW o \in Orders, Fill(o) \/ EndOrder(o) \/ Ingest(o) PROVE QuietInv'
    BY <1>2, QuietFill, QuietEndOrder, QuietIngest
  <1>3. ASSUME NEW o \in Orders, NEW lost \in BOOLEAN, Place(o, lost) PROVE QuietInv'
    BY <1>3, QuietPlace
  <1>4. ASSUME NEW d \in {-1, 3}, CashMoves(d) PROVE QuietInv'
    BY <1>4, QuietExternal DEF CashMoves
  <1>5. ASSUME NEW credited \in 0..1, Overnight(credited) PROVE QuietInv'
    BY <1>5, QuietOvernight
  <1>6. CASE TradeByHand
    BY <1>6, QuietExternal DEF TradeByHand
  <1>7. CASE BeginCapture \/ EndCapture \/ Review \/ Crash
    BY <1>7, QuietCapture
  <1>8. CASE Read \/ Reconcile
    BY <1>8, QuietRead, QuietReconcile
  <1>. QED  BY <1>1, <1>2, <1>3, <1>4, <1>5, <1>6, <1>7, <1>8 DEF Next

\* When nothing happened at the broker without the system, every earlier session was reconciled to
\* its end and the ledger has caught up, no rule of the reconciliation blocks: neither the preflight
\* nor the final comparison contradicts a history of the system's own making, for orders of any
\* size, split over any number of fills, snapshots and sessions (account_preflight.py, service.py).
THEOREM QuietDaysPass ==
    ASSUME ReconciliationAssumption
    PROVE  Spec => []QuietDayPasses
  <1>1. Init => QuietInv
    BY QuietInit
  <1>2. IInv /\ QuietInv /\ [Next]_vars => QuietInv'
    BY QuietNext
  <1>3. QuietInv => QuietDayPasses
    BY DEF QuietInv, Quiet, QuietDayPasses
  <1>. QED  BY <1>1, <1>2, <1>3, ReconciliationInvariant, PTL DEF Spec

-----------------------------------------------------------------------------
(* Promotion: what an observation says stays true.                         *)

\* A day on which nothing more happens to the orders.
Fixed(d) == d < session \/ (d = session /\ phase # "open")

\* The day's CANARY evidence is in the store.
Observed(d) == \E o \in obs : o.stage = "CANARY" /\ o.day = d /\ o.build = Last(plans[d]).build

\* An observation says of its day what the orders say.
Told(o) ==
    LET p == Last(plans[o.day])
    IN  /\ Fixed(o.day) /\ plans[o.day] # <<>> /\ o.build = p.build
        /\ o.rejected = Cardinality(With(intents[o.day], p.orders, {"REJECTED", "REFUSED"}))
        /\ o.unknown = Cardinality(With(intents[o.day], p.orders, {"UNKNOWN", Nothing}))

\* One observation per stage, day and build.
StoreInv ==
    /\ IsFiniteSet(obs)
    /\ \A o1, o2 \in obs : Key(o1) = Key(o2) => o1 = o2

\* The step of the daemon against the session.
StageInv ==
    /\ pc \in {"planned", "observed", "submitting"} => phase = "open" /\ plan \in PlanRecord
    /\ finalized => phase = "eod"
    /\ phase # "open" => \A o \in DayOrders : intents[session][o] # "UNKNOWN"
    /\ pc = "submitting" => mode # "SHADOW" /\ Promoted

\* Every CANARY observation is still true.
CanaryInv == \A o \in obs : o.stage = "CANARY" => Told(o)

\* No day is closed in CANARY mode without its evidence.
ClosedInv ==
    /\ finalized /\ plans[session] # <<>> => Observed(session)
    /\ \A d \in Days : closedAs[d] # Nothing => d < session \/ (d = session /\ phase = "closed")
    /\ CanaryDayIsObserved

PromotionInv == PromotionTypeOK /\ StoreInv /\ StageInv /\ CanaryInv /\ ClosedInv

-----------------------------------------------------------------------------
(* The initial state.                                                      *)

LEMMA PromotionInitHolds ==
    ASSUME PromotionAssumption, PromotionInit
    PROVE  PromotionInv
  <1>1. PromotionTypeOK
    <2>1. build \in Builds
      BY DEF PromotionAssumption, PromotionInit
    <2>2. session \in Days
      BY DEF PromotionAssumption, PromotionInit, Days
    <2>3. plans \in [Days -> Seq(PlanRecord)]
      BY DEF PromotionInit
    <2>4. budget \in Budget
      BY DEF PromotionAssumption, PromotionInit, Budget
    <2>5. intents \in [Days -> [DayOrders -> Outcome]]
      BY DEF PromotionInit, Outcome
    <2> QED
      BY <2>1, <2>2, <2>3, <2>4, <2>5 DEF PromotionInit, PromotionTypeOK, Mode
  <1>2. StoreInv
    BY FS_EmptySet DEF PromotionInit, StoreInv
  <1>3. StageInv
    BY DEF PromotionInit, StageInv
  <1>4. CanaryInv
    BY DEF PromotionInit, CanaryInv
  <1>5. ClosedInv
    BY DEF PromotionInit, ClosedInv, CanaryDayIsObserved
  <1> QED
    BY <1>1, <1>2, <1>3, <1>4, <1>5 DEF PromotionInv

-----------------------------------------------------------------------------
(* Types.                                                                  *)

\* A bound that is spent stays within its type.
LEMMA SpendKeepsType ==
    ASSUME PromotionAssumption, PromotionTypeOK, NEW what \in {"crashes", "edits", "foreign"},
           NEW bound \in Nat, Spend(what, bound)
    PROVE  budget' \in Budget
  <1>1. budget \in Budget /\ budget' = [budget EXCEPT ![what] = @ + 1]
    BY DEF PromotionTypeOK, Spend
  <1>2. CASE what = "crashes"
    <2>1. budget.crashes + 1 \in Nat
      BY <1>1 DEF Budget
    <2> QED
      BY <1>1, <1>2, <2>1 DEF Budget
  <1>3. CASE what = "edits"
    <2>1. budget.edits + 1 \in Nat
      BY <1>1 DEF Budget
    <2> QED
      BY <1>1, <1>3, <2>1 DEF Budget
  <1>4. CASE what = "foreign"
    <2>1. budget.foreign + 1 \in Nat
      BY <1>1 DEF Budget
    <2> QED
      BY <1>1, <1>4, <2>1 DEF Budget
  <1> QED
    BY <1>2, <1>3, <1>4

\* The identity of a new plan is within its bound.
LEMMA SpendPlan ==
    ASSUME PromotionAssumption, PromotionTypeOK, Spend("plans", MaxPlans)
    PROVE  budget' \in Budget /\ budget'.plans \in 1..MaxPlans
  <1>1. budget \in Budget /\ budget' = [budget EXCEPT !["plans"] = @ + 1]
    BY DEF PromotionTypeOK, Spend
  <1>2. budget.plans \in 0..MaxPlans /\ budget.plans < MaxPlans /\ MaxPlans \in Nat
    BY <1>1 DEF Budget, Spend, PromotionAssumption
  <1>3. budget.plans + 1 \in 1..MaxPlans /\ budget.plans + 1 \in 0..MaxPlans
    BY <1>2
  <1> QED
    BY <1>1, <1>3 DEF Budget

\* The observation of a step has the types of its plan.
LEMMA ObservationType ==
    ASSUME PromotionTypeOK, NEW stage, NEW p \in PlanRecord, NEW planned, NEW outcome,
           NEW rejected, NEW unknown, NEW other
    PROVE  LET o == Observation(stage, p, planned, outcome, rejected, unknown, other)
           IN  /\ o.stage = stage /\ o.day = session /\ o.day \in Days
               /\ o.build = p.build /\ o.build \in Builds
               /\ o.rejected = rejected /\ o.unknown = unknown
  BY DEF Observation, PlanRecord, PromotionTypeOK

\* The latest plan of a day.
LEMMA LatestPlan ==
    ASSUME PromotionTypeOK, NEW d \in Days, plans[d] # <<>>
    PROVE  Last(plans[d]) \in PlanRecord
  <1>1. plans[d] \in Seq(PlanRecord)
    BY DEF PromotionTypeOK
  <1>2. Len(plans[d]) \in 1..Len(plans[d])
    BY <1>1
  <1> QED
    BY <1>1, <1>2 DEF Last

\* The steps that leave session, evidence, orders and closing alone.
Aside ==
    \/ \E m \in Mode : SetMode(m)
    \/ \E b \in Builds : Deploy(b)
    \/ RunSmoke \/ Arm \/ Start \/ Startup \/ Plan \/ Executed
    \/ PromotionCrash \/ Stop \/ PlaceForeign

LEMMA AsideTypes ==
    ASSUME PromotionAssumption, PromotionTypeOK, Aside
    PROVE  PromotionTypeOK'
  <1>1. ASSUME NEW m \in Mode, SetMode(m) PROVE PromotionTypeOK'
    <2>1. budget' \in Budget
      BY <1>1, SpendKeepsType DEF SetMode, PromotionAssumption
    <2> QED
      BY <1>1, <2>1 DEF SetMode, PromotionTypeOK, daemon, records
  <1>2. ASSUME NEW b \in Builds, Deploy(b) PROVE PromotionTypeOK'
    <2>1. budget' \in Budget
      BY <1>2, SpendKeepsType DEF Deploy, PromotionAssumption
    <2> QED
      BY <1>2, <2>1 DEF Deploy, PromotionTypeOK, daemon, records
  <1>3. CASE RunSmoke
    BY <1>3 DEF RunSmoke, Smoked, PromotionTypeOK, daemon, records
  <1>4. CASE Arm
    BY <1>4 DEF Arm, PromotionTypeOK, daemon, records
  <1>5. CASE Start
    BY <1>5 DEF Start, PromotionTypeOK, deployment, records
  <1>6. CASE Startup
    BY <1>6 DEF Startup, Smoked, Down, PromotionTypeOK, records
  <1>7. CASE Plan
    <2>1. /\ budget' \in Budget
          /\ budget'.plans \in 1..MaxPlans
      BY <1>7, SpendPlan DEF Plan
    <2>2. plan' \in PlanRecord
      BY <1>7, <2>1 DEF Plan, PlanRecord, PlannedOrders, PromotionTypeOK
    <2> QED
      BY <1>7, <2>1, <2>2 DEF Plan, PromotionTypeOK, deployment, records
  <1>8. CASE Executed
    BY <1>8 DEF Executed, PromotionTypeOK, deployment
  <1>9. CASE PromotionCrash
    <2>1. budget' \in Budget
      BY <1>9, SpendKeepsType DEF PromotionCrash, PromotionAssumption
    <2> QED
      BY <1>9, <2>1 DEF PromotionCrash, Down, PromotionTypeOK, deployment, records
  <1>10. CASE Stop
    BY <1>10 DEF Stop, Down, PromotionTypeOK, deployment, records
  <1>11. CASE PlaceForeign
    <2>1. budget' \in Budget
      BY <1>11, SpendKeepsType DEF PlaceForeign, PromotionAssumption
    <2> QED
      BY <1>11, <2>1 DEF PlaceForeign, PromotionTypeOK, daemon, deployment, records
  <1> QED
    BY <1>1, <1>2, <1>3, <1>4, <1>5, <1>6, <1>7, <1>8, <1>9, <1>10, <1>11 DEF Aside

\* The steps that change the orders of the session.
LEMMA IntentTypes ==
    ASSUME PromotionTypeOK, NEW o \in DayOrders, NEW state \in Outcome,
           intents' = [intents EXCEPT ![session][o] = state]
    PROVE  /\ intents' \in [Days -> [DayOrders -> Outcome]]
           /\ \A d \in Days : d # session => intents'[d] = intents[d]
           /\ \A x \in DayOrders : x # o => intents'[session][x] = intents[session][x]
           /\ intents'[session][o] = state
  <1>1. intents \in [Days -> [DayOrders -> Outcome]] /\ session \in Days
    BY DEF PromotionTypeOK
  <1>2. [intents[session] EXCEPT ![o] = state] \in [DayOrders -> Outcome]
    BY <1>1
  <1>3. intents' = [intents EXCEPT ![session] = [intents[session] EXCEPT ![o] = state]]
    BY <1>1
  <1> QED
    BY <1>1, <1>2, <1>3

\* A new observation keeps the types and the store.
LEMMA AppendKeeps ==
    ASSUME PromotionTypeOK, StoreInv, NEW o, o.stage \in {"SHADOW", "CANARY"}, o.day \in Days,
           o.build \in Builds, ~Conflicts(o), AppendEvidence(o)
    PROVE  /\ \A x \in obs' : x.stage \in {"SHADOW", "CANARY"} /\ x.day \in Days /\ x.build \in Builds
           /\ StoreInv'
  <1>1. obs' = obs \cup {o}
    BY DEF AppendEvidence
  <1>2. \A x \in obs' : x.stage \in {"SHADOW", "CANARY"} /\ x.day \in Days /\ x.build \in Builds
    BY <1>1 DEF PromotionTypeOK
  <1>3. IsFiniteSet(obs')
    BY <1>1, FS_AddElement DEF StoreInv
  <1>4. ASSUME NEW o1 \in obs', NEW o2 \in obs', Key(o1) = Key(o2) PROVE o1 = o2
    BY <1>1, <1>4 DEF StoreInv, Conflicts
  <1> QED
    BY <1>2, <1>3, <1>4 DEF StoreInv, Key

LEMMA SimulateKeeps ==
    ASSUME PromotionTypeOK, StoreInv, StageInv, NEW sim, Simulate(sim)
    PROVE  /\ PromotionTypeOK' /\ StoreInv'
           /\ \A o \in obs' : o \in obs \/ o.stage = "SHADOW"
           /\ obs \subseteq obs'
  <1> DEFINE new == Observation("SHADOW", plan, plan.orders, sim, 0, 0, IF foreign THEN 1 ELSE 0)
  <1>1. plan \in PlanRecord
    BY DEF Simulate, StageInv
  <1>2. new.stage = "SHADOW" /\ new.day \in Days /\ new.build \in Builds
    BY <1>1, ObservationType
  <1>3. /\ \/ Conflicts(new) /\ Down /\ UNCHANGED obs
           \/ ~Conflicts(new) /\ AppendEvidence(new) /\ pc' = "observed" /\ UNCHANGED <<finalized, plan>>
        /\ UNCHANGED <<session, phase, plans, intents, executed, deployment, foreign, closedAs, budget>>
    BY DEF Simulate
  <1> HIDE DEF new
  <1>4. CASE Conflicts(new) /\ Down /\ UNCHANGED obs
    BY <1>3, <1>4 DEF Down, PromotionTypeOK, deployment, StoreInv, Key
  <1>5. CASE ~Conflicts(new) /\ AppendEvidence(new) /\ pc' = "observed" /\ UNCHANGED <<finalized, plan>>
    <2>1. /\ \A x \in obs' : x.stage \in {"SHADOW", "CANARY"} /\ x.day \in Days /\ x.build \in Builds
          /\ StoreInv'
      BY <1>2, <1>5, AppendKeeps
    <2>2. PromotionTypeOK'
      BY <1>3, <1>5, <2>1 DEF PromotionTypeOK, deployment
    <2> QED
      BY <1>2, <1>5, <2>1, <2>2 DEF AppendEvidence
  <1> QED
    BY <1>3, <1>4, <1>5

\* What is finalized is told of the session as it stands.
LEMMA FinalizeKeeps ==
    ASSUME PromotionTypeOK, StoreInv, Finalize
    PROVE  /\ PromotionTypeOK' /\ StoreInv' /\ obs \subseteq obs'
           /\ UNCHANGED <<session, phase, plans, intents, closedAs>>
           /\ \A o \in obs' : o \in obs \/ (o.stage = "CANARY" /\ o.day = session /\ Told(o))
           /\ finalized' /\ plans[session] # <<>> => Observed(session)'
  <1>1. /\ phase = "eod" /\ session \in Days
        /\ UNCHANGED <<session, phase, plans, intents, executed, deployment, foreign, closedAs, budget>>
    BY DEF Finalize, PromotionTypeOK
  <1>2. CASE plans[session] = <<>>
    <2>1. finalized' = TRUE /\ UNCHANGED <<obs, pc, plan>>
      BY <1>2 DEF Finalize
    <2> QED
      BY <1>1, <1>2, <2>1 DEF PromotionTypeOK, deployment, StoreInv, Key
  <1>3. CASE plans[session] # <<>>
    <2> DEFINE p == Last(plans[session])
               new == CanaryObservation(p)
    <2>1. p \in PlanRecord
      BY <1>1, <1>3, LatestPlan
    <2>2. /\ new.stage = "CANARY" /\ new.day = session /\ new.build = p.build /\ new.build \in Builds
          /\ new.rejected = Cardinality(With(intents[session], p.orders, {"REJECTED", "REFUSED"}))
          /\ new.unknown = Cardinality(With(intents[session], p.orders, {"UNKNOWN", Nothing}))
      <3> HIDE DEF p
      <3> QED
        BY <2>1, ObservationType DEF CanaryObservation
    <2>3. \/ Conflicts(new) /\ Down /\ UNCHANGED obs
          \/ ~Conflicts(new) /\ AppendEvidence(new) /\ finalized' = TRUE /\ UNCHANGED <<pc, plan>>
      BY <1>3 DEF Finalize
    <2>4. Told(new)
      <3> HIDE DEF new
      <3> QED
        BY <1>1, <1>3, <2>2 DEF Told, Fixed
    <2> HIDE DEF new
    <2>5. CASE Conflicts(new) /\ Down /\ UNCHANGED obs
      BY <1>1, <2>5 DEF Down, PromotionTypeOK, deployment, StoreInv, Key
    <2>6. CASE ~Conflicts(new) /\ AppendEvidence(new) /\ finalized' = TRUE /\ UNCHANGED <<pc, plan>>
      <3>1. /\ \A x \in obs' : x.stage \in {"SHADOW", "CANARY"} /\ x.day \in Days /\ x.build \in Builds
            /\ StoreInv'
        BY <1>1, <2>2, <2>6, AppendKeeps
      <3>2. PromotionTypeOK'
        BY <1>1, <2>6, <3>1 DEF PromotionTypeOK, deployment
      <3>3. Observed(session)'
        BY <1>1, <2>2, <2>6 DEF AppendEvidence, Observed
      <3> QED
        BY <1>1, <2>2, <2>4, <2>6, <3>1, <3>2, <3>3 DEF AppendEvidence
    <2> QED
      BY <2>3, <2>5, <2>6
  <1> QED
    BY <1>2, <1>3

\* What an order may come to is an outcome.
LEMMA OutcomesAreOutcome ==
    ASSUME PromotionAssumption
    PROVE  Outcomes \cup {"UNKNOWN"} \subseteq Outcome
  BY DEF PromotionAssumption, Outcome, FinalState

LEMMA TypesStay ==
    ASSUME PromotionAssumption, PromotionTypeOK, StoreInv, StageInv, [PromotionNext]_promotionVars
    PROVE  PromotionTypeOK' /\ StoreInv'
  <1>1. CASE Aside
    <2>1. UNCHANGED obs
      BY <1>1 DEF Aside, SetMode, Deploy, RunSmoke, Arm, Start, Startup, Plan, Executed,
                  PromotionCrash, Stop, PlaceForeign, records
    <2> QED
      BY <1>1, <2>1, AsideTypes DEF StoreInv, Key
  <1>2. ASSUME NEW o \in DayOrders, NEW state \in Outcomes, Resolve(o, state)
        PROVE  PromotionTypeOK' /\ StoreInv'
    <2>1. intents' \in [Days -> [DayOrders -> Outcome]]
      BY <1>2, IntentTypes, OutcomesAreOutcome DEF Resolve
    <2> QED
      BY <1>2, <2>1 DEF Resolve, PromotionTypeOK, daemon, deployment, StoreInv, Key
  <1>3. CASE RecordPlan
    <2>1. plan \in PlanRecord /\ session \in Days
      BY <1>3 DEF RecordPlan, StageInv, PromotionTypeOK
    <2>2. plans' \in [Days -> Seq(PlanRecord)]
      BY <1>3, <2>1 DEF RecordPlan, PromotionTypeOK
    <2> QED
      BY <1>3, <2>2 DEF RecordPlan, Down, PromotionTypeOK, deployment, StoreInv, Key
  <1>4. ASSUME NEW sim, Simulate(sim) PROVE PromotionTypeOK' /\ StoreInv'
    BY <1>4, SimulateKeeps
  <1>5. ASSUME NEW o \in DayOrders, NEW state \in Outcomes \cup {"UNKNOWN"}, Submit(o, state)
        PROVE  PromotionTypeOK' /\ StoreInv'
    <2>1. intents' \in [Days -> [DayOrders -> Outcome]]
      BY <1>5, IntentTypes, OutcomesAreOutcome DEF Submit
    <2> QED
      BY <1>5, <2>1 DEF Submit, Down, PromotionTypeOK, daemon, deployment, StoreInv, Key
  <1>6. CASE ReconcileEod
    BY <1>6 DEF ReconcileEod, PromotionTypeOK, daemon, deployment, records, StoreInv, Key
  <1>7. CASE Finalize
    BY <1>7, FinalizeKeeps
  <1>8. CASE CloseDay
    BY <1>8 DEF CloseDay, PromotionTypeOK, deployment, records, StoreInv, Key
  <1>9. CASE NextDay
    <2>1. session' \in Days
      BY <1>9 DEF NextDay, PromotionTypeOK, Days, PromotionAssumption
    <2>2. budget' \in Budget
      <3>1. budget \in Budget /\ budget' = [budget EXCEPT !.plans = 0] /\ 0 \in 0..MaxPlans
        BY <1>9 DEF NextDay, PromotionTypeOK, PromotionAssumption
      <3> QED
        BY <3>1 DEF Budget
    <2> QED
      BY <1>9, <2>1, <2>2 DEF NextDay, PromotionTypeOK, daemon, records, StoreInv, Key
  <1>10. CASE UNCHANGED promotionVars
    BY <1>10 DEF promotionVars, daemon, records, deployment, PromotionTypeOK, StoreInv, Key
  <1> QED
    BY <1>1, <1>2, <1>3, <1>4, <1>5, <1>6, <1>7, <1>8, <1>9, <1>10 DEF PromotionNext, Aside

-----------------------------------------------------------------------------
(* The step of the daemon against the session.                             *)

\* The gate answers the same on the same evidence, mode and build.
LEMMA PromotedStays ==
    ASSUME Promoted, UNCHANGED <<obs, mode, build>>
    PROVE  Promoted'
  BY DEF Promoted, ShadowQualified, CanaryQualified, Qualifies, Evidence, Clean

LEMMA StageStays ==
    ASSUME PromotionAssumption, PromotionTypeOK, StoreInv, StageInv, [PromotionNext]_promotionVars
    PROVE  StageInv'
  <1>1. CASE Aside
    <2>1. UNCHANGED <<session, phase, intents, obs>>
      BY <1>1 DEF Aside, SetMode, Deploy, RunSmoke, Arm, Start, Startup, Plan, Executed,
                  PromotionCrash, Stop, PlaceForeign, records
    <2>2. pc' = "submitting" => pc = "submitting" /\ UNCHANGED <<mode, build>>
      BY <1>1 DEF Aside, SetMode, Deploy, RunSmoke, Arm, Start, Startup, Plan, Executed, Down,
                  PromotionCrash, Stop, PlaceForeign, daemon, deployment
    <2>3. pc' \in {"planned", "observed", "submitting"} => phase = "open" /\ plan' \in PlanRecord
      <3>1. CASE Plan
        <4>1. budget'.plans \in 1..MaxPlans
          BY <3>1, SpendPlan DEF Plan
        <4> QED
          BY <3>1, <4>1 DEF Plan, PlanRecord, PlannedOrders, PromotionTypeOK
      <3>2. CASE ~Plan
        BY <1>1, <3>2 DEF Aside, SetMode, Deploy, RunSmoke, Arm, Start, Startup, Executed, Down,
                    PromotionCrash, Stop, PlaceForeign, daemon, StageInv
      <3> QED
        BY <3>1, <3>2
    <2>4. finalized' => finalized
      BY <1>1 DEF Aside, SetMode, Deploy, RunSmoke, Arm, Start, Startup, Plan, Executed, Down,
                  PromotionCrash, Stop, PlaceForeign, daemon
    <2>5. pc' = "submitting" => mode' # "SHADOW" /\ Promoted'
      BY <2>1, <2>2, PromotedStays DEF StageInv
    <2> QED
      BY <2>1, <2>3, <2>4, <2>5 DEF StageInv
  <1>2. ASSUME NEW o \in DayOrders, NEW state \in Outcomes, Resolve(o, state)
        PROVE  StageInv'
    <2>1. phase = "open" /\ pc = "down" /\ UNCHANGED <<phase, daemon>>
      BY <1>2 DEF Resolve, StageInv
    <2> QED
      BY <2>1 DEF StageInv, daemon
  <1>3. CASE RecordPlan
    <2>1. phase = "open" /\ ~finalized /\ mode # "SHADOW" /\ plan \in PlanRecord
      BY <1>3 DEF RecordPlan, StageInv
    <2>2. /\ UNCHANGED <<phase, obs, mode, build>>
          /\ \/ Promoted /\ pc' = "submitting" /\ UNCHANGED <<finalized, plan>>
             \/ Down
      BY <1>3 DEF RecordPlan, deployment
    <2>3. pc' = "submitting" => Promoted'
      BY <2>2, PromotedStays DEF Down
    <2> QED
      BY <2>1, <2>2, <2>3 DEF StageInv, Down
  <1>4. ASSUME NEW sim, Simulate(sim) PROVE StageInv'
    <2>1. phase = "open" /\ ~finalized /\ plan \in PlanRecord
      BY <1>4 DEF Simulate, StageInv
    <2>2. phase' = "open" /\ (Down \/ (pc' = "observed" /\ UNCHANGED <<finalized, plan>>))
      BY <1>4, <2>1 DEF Simulate
    <2> QED
      BY <2>1, <2>2 DEF StageInv, Down
  <1>5. ASSUME NEW o \in DayOrders, NEW state \in Outcomes \cup {"UNKNOWN"}, Submit(o, state)
        PROVE  StageInv'
    <2>1. phase = "open" /\ ~finalized /\ pc = "submitting" /\ mode # "SHADOW" /\ Promoted
          /\ plan \in PlanRecord
      BY <1>5 DEF Submit, StageInv
    <2>2. UNCHANGED <<phase, obs, mode, build>> /\ (Down \/ UNCHANGED daemon)
      BY <1>5 DEF Submit, deployment
    <2>3. Promoted'
      BY <2>1, <2>2, PromotedStays
    <2> QED
      BY <2>1, <2>2, <2>3 DEF StageInv, Down, daemon
  <1>6. CASE ReconcileEod
    <2>1. \A o \in DayOrders : intents[session][o] # "UNKNOWN"
      BY <1>6 DEF ReconcileEod, Reconciles, Unresolved, PromotionTypeOK
    <2> QED
      BY <1>6, <2>1 DEF ReconcileEod, StageInv, daemon, records
  <1>7. CASE Finalize
    BY <1>7 DEF Finalize, Down, StageInv
  <1>8. CASE CloseDay
    BY <1>8 DEF CloseDay, StageInv, records
  <1>9. CASE NextDay
    BY <1>9 DEF NextDay, StageInv, daemon
  <1>10. CASE UNCHANGED promotionVars
    <2>1. UNCHANGED <<session, phase, intents, obs, mode, build, pc, plan, finalized>>
      BY <1>10 DEF promotionVars, daemon, records, deployment
    <2>2. pc' = "submitting" => Promoted'
      BY <2>1, PromotedStays DEF StageInv
    <2> QED
      BY <2>1, <2>2 DEF StageInv
  <1> QED
    BY <1>1, <1>2, <1>3, <1>4, <1>5, <1>6, <1>7, <1>8, <1>9, <1>10 DEF PromotionNext, Aside

-----------------------------------------------------------------------------
(* What an observation says stays true.                                    *)

\* No step touches the plans and orders of a fixed day, and it stays fixed.
LEMMA FixedDaysStay ==
    ASSUME PromotionAssumption, PromotionTypeOK, StoreInv, StageInv, [PromotionNext]_promotionVars,
           NEW d \in Days, Fixed(d)
    PROVE  Fixed(d)' /\ plans'[d] = plans[d] /\ intents'[d] = intents[d]
  <1>0. session \in Days /\ d \in Int /\ session \in Int
    BY DEF PromotionTypeOK, Days
  <1>1. CASE UNCHANGED <<session, phase, plans, intents>>
    BY <1>1 DEF Fixed
  <1>2. ASSUME NEW o \in DayOrders, NEW state \in Outcome, phase = "open",
               intents' = [intents EXCEPT ![session][o] = state], UNCHANGED <<session, phase, plans>>
        PROVE  Fixed(d)' /\ plans'[d] = plans[d] /\ intents'[d] = intents[d]
    <2>1. d # session
      BY <1>0, <1>2 DEF Fixed
    <2> QED
      BY <1>2, <2>1, IntentTypes DEF Fixed
  <1>3. CASE RecordPlan
    <2>1. phase = "open" /\ UNCHANGED <<session, phase, intents>>
      BY <1>3 DEF RecordPlan, StageInv
    <2>2. d # session
      BY <1>0, <2>1 DEF Fixed
    <2>3. plans'[d] = plans[d]
      BY <1>0, <1>3, <2>2 DEF RecordPlan, PromotionTypeOK
    <2> QED
      BY <2>1, <2>3 DEF Fixed
  <1>4. CASE ReconcileEod \/ CloseDay
    BY <1>4 DEF ReconcileEod, CloseDay, records, Fixed
  <1>5. CASE NextDay
    BY <1>0, <1>5 DEF NextDay, records, Fixed
  <1>6. ASSUME NEW o \in DayOrders, NEW state \in Outcomes, Resolve(o, state)
        PROVE  phase = "open"
    BY <1>6 DEF Resolve, StageInv
  <1>7. ASSUME NEW o \in DayOrders, NEW state \in Outcomes \cup {"UNKNOWN"}, Submit(o, state)
        PROVE  phase = "open"
    BY <1>7 DEF Submit, StageInv
  <1>8. CASE Aside
    BY <1>1, <1>8 DEF Aside, SetMode, Deploy, RunSmoke, Arm, Start, Startup, Plan, Executed,
                PromotionCrash, Stop, PlaceForeign, records
  <1>9. CASE (\E sim : Simulate(sim)) \/ Finalize \/ UNCHANGED promotionVars
    BY <1>1, <1>9 DEF Simulate, Finalize, promotionVars, records
  <1>10. ASSUME NEW o \in DayOrders, NEW state \in Outcomes, Resolve(o, state)
         PROVE  Fixed(d)' /\ plans'[d] = plans[d] /\ intents'[d] = intents[d]
    BY <1>2, <1>6, <1>10, OutcomesAreOutcome DEF Resolve
  <1>11. ASSUME NEW o \in DayOrders, NEW state \in Outcomes \cup {"UNKNOWN"}, Submit(o, state)
         PROVE  Fixed(d)' /\ plans'[d] = plans[d] /\ intents'[d] = intents[d]
    BY <1>2, <1>7, <1>11, OutcomesAreOutcome DEF Submit
  <1> QED
    BY <1>3, <1>4, <1>5, <1>8, <1>9, <1>10, <1>11 DEF PromotionNext, Aside

\* What was told of a fixed day is told of it still.
LEMMA ToldStays ==
    ASSUME PromotionTypeOK, PromotionAssumption, StoreInv, StageInv, [PromotionNext]_promotionVars,
           NEW o, o.day \in Days, Told(o)
    PROVE  Told(o)'
  <1>1. Fixed(o.day)' /\ plans'[o.day] = plans[o.day] /\ intents'[o.day] = intents[o.day]
    BY FixedDaysStay DEF Told
  <1> QED
    BY <1>1 DEF Told, With

\* Observations are only ever added, a CANARY one about the session as it ended.
LEMMA ObservationsAdded ==
    ASSUME PromotionAssumption, PromotionTypeOK, StoreInv, StageInv, [PromotionNext]_promotionVars
    PROVE  /\ obs \subseteq obs'
           /\ \A o \in obs' : o \in obs \/ o.stage = "SHADOW" \/ (o.day \in Days /\ Told(o))
  <1>1. CASE UNCHANGED obs
    BY <1>1
  <1>2. ASSUME NEW sim, Simulate(sim)
        PROVE  /\ obs \subseteq obs'
               /\ \A o \in obs' : o \in obs \/ o.stage = "SHADOW"
    BY <1>2, SimulateKeeps
  <1>3. CASE Finalize
    <2>1. session \in Days
      BY DEF PromotionTypeOK
    <2> QED
      BY <1>3, <2>1, FinalizeKeeps
  <1>4. CASE Aside
    BY <1>1, <1>4 DEF Aside, SetMode, Deploy, RunSmoke, Arm, Start, Startup, Plan, Executed,
                PromotionCrash, Stop, PlaceForeign, records
  <1>5. CASE RecordPlan \/ ReconcileEod \/ CloseDay \/ NextDay \/ UNCHANGED promotionVars
    BY <1>1, <1>5 DEF RecordPlan, ReconcileEod, CloseDay, NextDay, promotionVars, records
  <1>6. CASE (\E o \in DayOrders, state \in Outcomes : Resolve(o, state))
             \/ (\E o \in DayOrders, state \in Outcomes \cup {"UNKNOWN"} : Submit(o, state))
    BY <1>1, <1>6 DEF Resolve, Submit
  <1> QED
    BY <1>2, <1>3, <1>4, <1>5, <1>6 DEF PromotionNext, Aside

LEMMA CanaryStays ==
    ASSUME PromotionAssumption, PromotionTypeOK, StoreInv, StageInv, CanaryInv,
           [PromotionNext]_promotionVars
    PROVE  CanaryInv'
  <1> SUFFICES ASSUME NEW o \in obs', o.stage = "CANARY" PROVE Told(o)'
    BY DEF CanaryInv
  <1>1. o.day \in Days /\ Told(o)
    BY ObservationsAdded DEF CanaryInv, PromotionTypeOK
  <1> QED
    BY <1>1, ToldStays

\* The evidence of a fixed day stays in the store.
LEMMA ObservedStays ==
    ASSUME PromotionAssumption, PromotionTypeOK, StoreInv, StageInv, [PromotionNext]_promotionVars,
           NEW d \in Days, Fixed(d), Observed(d)
    PROVE  Observed(d)'
  <1>1. plans'[d] = plans[d] /\ obs \subseteq obs'
    BY FixedDaysStay, ObservationsAdded
  <1> QED
    BY <1>1 DEF Observed

\* Only the close of a session closes a day.
LEMMA ClosingStep ==
    ASSUME PromotionTypeOK, [PromotionNext]_promotionVars, ~CloseDay
    PROVE  UNCHANGED closedAs
  <1>1. CASE Aside
    BY <1>1 DEF Aside, SetMode, Deploy, RunSmoke, Arm, Start, Startup, Plan, Executed,
                PromotionCrash, Stop, PlaceForeign
  <1>2. CASE RecordPlan \/ ReconcileEod \/ Finalize \/ NextDay \/ UNCHANGED promotionVars
    BY <1>2 DEF RecordPlan, ReconcileEod, Finalize, NextDay, promotionVars
  <1>3. CASE (\E o \in DayOrders, state \in Outcomes : Resolve(o, state))
             \/ (\E o \in DayOrders, state \in Outcomes \cup {"UNKNOWN"} : Submit(o, state))
             \/ (\E sim : Simulate(sim))
    BY <1>3 DEF Resolve, Submit, Simulate
  <1> QED
    BY <1>1, <1>2, <1>3 DEF PromotionNext, Aside

\* Only Finalize makes a session finalized, and only at its end.
LEMMA FinalizedStep ==
    ASSUME PromotionTypeOK, StageInv, [PromotionNext]_promotionVars, ~Finalize, finalized'
    PROVE  finalized /\ phase = "eod" /\ session' = session
  <1>1. CASE Aside
    BY <1>1 DEF Aside, SetMode, Deploy, RunSmoke, Arm, Start, Startup, Plan, Executed, Down,
                PromotionCrash, Stop, PlaceForeign, daemon, StageInv
  <1>2. CASE RecordPlan \/ ReconcileEod \/ CloseDay \/ NextDay \/ UNCHANGED promotionVars
    BY <1>2 DEF RecordPlan, ReconcileEod, CloseDay, NextDay, Down, promotionVars, daemon, StageInv
  <1>3. CASE (\E o \in DayOrders, state \in Outcomes : Resolve(o, state))
             \/ (\E o \in DayOrders, state \in Outcomes \cup {"UNKNOWN"} : Submit(o, state))
             \/ (\E sim : Simulate(sim))
    BY <1>3 DEF Resolve, Submit, Simulate, Down, daemon, StageInv
  <1> QED
    BY <1>1, <1>2, <1>3 DEF PromotionNext, Aside

\* What is closed is behind, or is the session that just closed.
LEMMA ClosedIsBehind ==
    ASSUME PromotionAssumption, PromotionTypeOK, StageInv, ClosedInv, [PromotionNext]_promotionVars,
           NEW d \in Days, closedAs'[d] # Nothing
    PROVE  (d < session \/ (d = session /\ phase = "closed"))'
  <1>0. session \in Days /\ d \in Int /\ session \in Int
    BY DEF PromotionTypeOK, Days
  <1>1. CASE CloseDay
    <2>1. d # session => closedAs'[d] = closedAs[d]
      BY <1>0, <1>1 DEF CloseDay, PromotionTypeOK
    <2> QED
      BY <1>0, <1>1, <2>1 DEF CloseDay, ClosedInv
  <1>2. CASE ~CloseDay
    <2>1. d < session \/ (d = session /\ phase = "closed")
      BY <1>2, ClosingStep DEF ClosedInv
    <2>2. CASE NextDay
      BY <1>0, <2>1, <2>2 DEF NextDay
    <2>3. CASE ~NextDay
      <3>1. session' = session /\ (phase = "closed" => phase' = "closed")
        <4>1. CASE Aside
          BY <4>1 DEF Aside, SetMode, Deploy, RunSmoke, Arm, Start, Startup, Plan, Executed,
                      PromotionCrash, Stop, PlaceForeign
        <4>2. CASE RecordPlan \/ ReconcileEod \/ Finalize \/ UNCHANGED promotionVars
          BY <4>2 DEF RecordPlan, ReconcileEod, Finalize, promotionVars
        <4>3. CASE (\E o \in DayOrders, state \in Outcomes : Resolve(o, state))
                   \/ (\E o \in DayOrders, state \in Outcomes \cup {"UNKNOWN"} : Submit(o, state))
                   \/ (\E sim : Simulate(sim))
          BY <4>3 DEF Resolve, Submit, Simulate
        <4> QED
          BY <1>2, <2>3, <4>1, <4>2, <4>3 DEF PromotionNext, Aside
      <3> QED
        BY <2>1, <3>1
    <2> QED
      BY <2>2, <2>3
  <1> QED
    BY <1>1, <1>2

LEMMA ClosedStays ==
    ASSUME PromotionAssumption, PromotionTypeOK, StoreInv, StageInv, CanaryInv, ClosedInv,
           [PromotionNext]_promotionVars
    PROVE  ClosedInv'
  <1>0. session \in Days
    BY DEF PromotionTypeOK
  <1>1. (finalized /\ plans[session] # <<>> => Observed(session))'
    <2>1. CASE Finalize
      BY <2>1, FinalizeKeeps
    <2>2. CASE ~Finalize
      <3> SUFFICES ASSUME finalized', plans'[session'] # <<>> PROVE Observed(session)'
        OBVIOUS
      <3>1. finalized /\ phase = "eod" /\ session' = session
        BY <2>2, FinalizedStep
      <3>2. Fixed(session)
        BY <3>1 DEF Fixed
      <3>3. plans'[session] = plans[session]
        BY <1>0, <3>2, FixedDaysStay
      <3>4. Observed(session)
        BY <3>1, <3>3 DEF ClosedInv
      <3> QED
        BY <1>0, <3>1, <3>2, <3>4, ObservedStays DEF Observed
    <2> QED
      BY <2>1, <2>2
  <1>2. ASSUME NEW d \in Days, closedAs'[d] # Nothing
        PROVE  (d < session \/ (d = session /\ phase = "closed"))'
    BY <1>2, ClosedIsBehind
  <1>3. ASSUME NEW d \in Days, closedAs'[d] # Nothing, closedAs'[d][1] = "CANARY",
               plans'[d] # <<>>
        PROVE  Observed(d)'
    <2>1. CASE CloseDay /\ d = session
      <3>1. closedAs'[d] = <<mode, build>>
        BY <2>1 DEF CloseDay, PromotionTypeOK
      <3>2. mode = "CANARY" /\ finalized /\ UNCHANGED <<plans, obs>>
        BY <1>3, <2>1, <3>1 DEF CloseDay, records
      <3>3. Observed(d)
        BY <1>3, <2>1, <3>2 DEF ClosedInv
      <3> QED
        BY <3>2, <3>3 DEF Observed
    <2>2. CASE ~(CloseDay /\ d = session)
      <3>1. closedAs'[d] = closedAs[d]
        BY <2>2, ClosingStep DEF CloseDay, PromotionTypeOK
      <3>2. Fixed(d)
        BY <1>3, <3>1 DEF ClosedInv, Fixed
      <3>3. plans'[d] = plans[d]
        BY <3>2, FixedDaysStay
      <3>4. Observed(d)
        BY <1>3, <3>1, <3>3 DEF ClosedInv, CanaryDayIsObserved, Observed
      <3> QED
        BY <3>2, <3>4, ObservedStays
    <2> QED
      BY <2>1, <2>2
  <1> QED
    BY <1>1, <1>2, <1>3 DEF ClosedInv, CanaryDayIsObserved, Observed

LEMMA PromotionStep ==
    ASSUME PromotionAssumption, PromotionInv, [PromotionNext]_promotionVars
    PROVE  PromotionInv'
  BY TypesStay, StageStays, CanaryStays, ClosedStays DEF PromotionInv

-----------------------------------------------------------------------------
(* What the evidence amounts to.                                           *)

\* Observations of one stage and build are as many as their days.
LEMMA OneObservationADay ==
    ASSUME StoreInv, NEW S \in SUBSET obs,
           \A o1, o2 \in S : o1.stage = o2.stage /\ o1.build = o2.build
    PROVE  /\ IsFiniteSet({o.day : o \in S})
           /\ Cardinality({o.day : o \in S}) = Cardinality(S)
  <1> DEFINE T == {o.day : o \in S}
             f == [o \in S |-> o.day]
  <1>1. IsFiniteSet(S)
    BY FS_Subset DEF StoreInv
  <1>2. \A o1, o2 \in S : f[o1] = f[o2] => o1 = o2
    BY DEF StoreInv, Key
  <1>3. f \in Bijection(S, T)
    BY <1>2 DEF Bijection, Injection, Surjection, IsInjective
  <1>4. ExistsBijection(S, T)
    BY <1>3 DEF ExistsBijection
  <1> HIDE DEF T
  <1>5. IsFiniteSet(T) /\ Cardinality(T) = Cardinality(S)
    BY <1>1, <1>4, FS_Bijection
  <1> QED
    BY <1>5 DEF T

LEMMA SessionsAreCountedOnce ==
    ASSUME StoreInv
    PROVE  SessionsCountOnce
  <1> SUFFICES ASSUME NEW stage \in {"SHADOW", "CANARY"}, NEW b \in Builds
               PROVE  Cardinality({o.day : o \in Evidence(stage, b)}) = Cardinality(Evidence(stage, b))
    BY DEF SessionsCountOnce
  <1>1. /\ Evidence(stage, b) \in SUBSET obs
        /\ \A o1, o2 \in Evidence(stage, b) : o1.stage = o2.stage /\ o1.build = o2.build
    BY DEF Evidence
  <1> QED
    BY <1>1, OneObservationADay

\* A CANARY observation without a rejected or unknown order is of a clean day.
LEMMA CleanObservation ==
    ASSUME PromotionAssumption, PromotionTypeOK, CanaryInv, NEW o \in obs, o.stage = "CANARY",
           o.rejected = 0, o.unknown = 0
    PROVE  o.day \in CanaryDays(o.build) /\ CleanDay(o.day)
  <1> DEFINE p == Last(plans[o.day])
             bad == With(intents[o.day], p.orders, {"REJECTED", "REFUSED"})
             open == With(intents[o.day], p.orders, {"UNKNOWN", Nothing})
  <1>1. o.day \in Days /\ Told(o)
    BY DEF CanaryInv, PromotionTypeOK
  <1>2. /\ plans[o.day] # <<>> /\ o.build = p.build
        /\ Cardinality(bad) = 0 /\ Cardinality(open) = 0
    BY <1>1 DEF Told
  <1>3. p \in PlanRecord
    BY <1>1, <1>2, LatestPlan
  <1>4. p.orders \subseteq DayOrders
    BY <1>3 DEF PlanRecord
  <1> HIDE DEF p
  <1>5. IsFiniteSet(p.orders)
    BY <1>4, FS_Subset DEF DayOrders, PromotionAssumption
  <1>6. IsFiniteSet(bad) /\ IsFiniteSet(open)
    BY <1>5, FS_Subset DEF With
  <1>7. bad = {} /\ open = {}
    BY <1>2, <1>6, FS_EmptySet
  <1>8. ASSUME NEW x \in p.orders PROVE intents[o.day][x] \in {"FILLED", "PARTIAL", "CANCELLED"}
    <2>1. intents[o.day][x] \in Outcome
      BY <1>1, <1>4 DEF PromotionTypeOK
    <2> QED
      BY <1>7, <2>1 DEF With, Outcome, FinalState
  <1> QED
    BY <1>1, <1>2, <1>8 DEF CanaryDays, CleanDay, p

LEMMA OrdersEarned ==
    ASSUME PromotionAssumption, PromotionInv
    PROVE  OrdersAreEarned
  <1> SUFFICES ASSUME pc = "submitting"
               PROVE  /\ Cardinality(Simulated(build)) >= MinShadowSessions
                      /\ mode = "LIVE" =>
                            /\ Cardinality({d \in CanaryDays(build) : CleanDay(d)}) >= MinCanarySessions
                            /\ \A d \in CanaryDays(build) :
                                  (closedAs[d] # Nothing /\ closedAs[d][1] = "CANARY") => CleanDay(d)
    BY DEF OrdersAreEarned
  <1>1. /\ PromotionTypeOK /\ StoreInv /\ CanaryInv /\ CanaryDayIsObserved
        /\ mode \in {"CANARY", "LIVE"} /\ build \in Builds /\ Promoted
    BY DEF PromotionInv, StageInv, ClosedInv, PromotionTypeOK, Mode
  <1>2. Cardinality(Simulated(build)) >= MinShadowSessions
    <2>1. ShadowQualified(build)
      BY <1>1 DEF Promoted
    <2>2. /\ Cardinality(Evidence("SHADOW", build)) >= MinShadowSessions
          /\ \A o \in Evidence("SHADOW", build) : o.external = 0
      BY <2>1 DEF ShadowQualified, Qualifies, Clean
    <2>3. Simulated(build) = {o.day : o \in Evidence("SHADOW", build)}
      BY <2>2 DEF Simulated, Evidence
    <2>4. Cardinality({o.day : o \in Evidence("SHADOW", build)}) = Cardinality(Evidence("SHADOW", build))
      BY <1>1, SessionsAreCountedOnce DEF SessionsCountOnce
    <2> QED
      BY <2>2, <2>3, <2>4
  <1>3. ASSUME mode = "LIVE"
        PROVE  /\ Cardinality({d \in CanaryDays(build) : CleanDay(d)}) >= MinCanarySessions
               /\ \A d \in CanaryDays(build) :
                     (closedAs[d] # Nothing /\ closedAs[d][1] = "CANARY") => CleanDay(d)
    <2> DEFINE E == Evidence("CANARY", build)
               seen == {o.day : o \in E}
               clean == {d \in CanaryDays(build) : CleanDay(d)}
    <2>1. CanaryQualified(build)
      BY <1>1, <1>3 DEF Promoted
    <2>2. /\ Cardinality(E) >= MinCanarySessions
          /\ \A o \in E : o.rejected = 0 /\ o.unknown = 0
      BY <2>1 DEF CanaryQualified, Qualifies, Clean
    <2>3. \A o \in E : o \in obs /\ o.stage = "CANARY" /\ o.build = build
      BY DEF Evidence
    <2>4. seen \subseteq clean
      BY <1>1, <2>2, <2>3, CleanObservation
    <2>5. Cardinality(seen) = Cardinality(E)
      BY <1>1, SessionsAreCountedOnce DEF SessionsCountOnce
    <2>6. IsFiniteSet(clean)
      <3>1. IsFiniteSet(Days)
        BY FS_Interval DEF Days, PromotionAssumption
      <3> QED
        BY <3>1, FS_Subset DEF CanaryDays
    <2>7. Cardinality(clean) >= MinCanarySessions
      <3>1. IsFiniteSet(seen) /\ Cardinality(seen) <= Cardinality(clean)
        <4> HIDE DEF seen, clean
        <4> QED
          BY <2>4, <2>6, FS_Subset
      <3>2. Cardinality(seen) \in Nat /\ Cardinality(clean) \in Nat /\ MinCanarySessions \in Nat
        <4> HIDE DEF seen, clean
        <4> QED
          BY <2>6, <3>1, FS_CardinalityType DEF PromotionAssumption
      <3> HIDE DEF seen, clean
      <3> QED
        BY <2>2, <2>5, <3>1, <3>2
    <2>8. ASSUME NEW d \in CanaryDays(build), closedAs[d] # Nothing, closedAs[d][1] = "CANARY"
          PROVE  CleanDay(d)
      <3>1. d \in Days /\ plans[d] # <<>> /\ Last(plans[d]).build = build
        BY DEF CanaryDays
      <3>2. PICK o \in obs : o.stage = "CANARY" /\ o.day = d /\ o.build = build
        BY <1>1, <2>8, <3>1 DEF CanaryDayIsObserved
      <3>3. o \in E
        BY <3>2 DEF Evidence
      <3> QED
        BY <1>1, <2>2, <3>2, <3>3, CleanObservation
    <2> QED
      BY <2>7, <2>8
  <1> QED
    BY <1>2, <1>3

\* The inductive invariant of the promotion gate: observations are one per stage, day and build,
\* what a CANARY one says of its day stays true, and a day that closed in CANARY mode has its own.
THEOREM PromotionInvariant ==
    ASSUME PromotionAssumption
    PROVE  PromotionSpec => []PromotionInv
  <1>1. PromotionInit => PromotionInv
    BY PromotionInitHolds
  <1>2. PromotionInv /\ [PromotionNext]_promotionVars => PromotionInv'
    BY PromotionStep
  <1> QED
    BY <1>1, <1>2, PTL DEF PromotionSpec

\* Real orders go out in CANARY and LIVE only for a build whose own sessions earned it, each
\* counted once, and no CANARY day with orders closes without its evidence, for any builds, orders,
\* sessions and thresholds and any number of crashes, deployments and orders placed by hand
\* (execution_evidence.py, production_services.py).
THEOREM EvidenceStaysExact ==
    ASSUME PromotionAssumption
    PROVE  PromotionSpec => []EvidenceIsExact
  <1>1. PromotionInv => EvidenceIsExact
    BY SessionsAreCountedOnce, OrdersEarned DEF PromotionInv, ClosedInv, EvidenceIsExact
  <1> QED
    BY <1>1, PromotionInvariant, PTL
=============================================================================
