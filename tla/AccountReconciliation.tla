------------------------ MODULE AccountReconciliation ------------------------
(***************************************************************************)
(* Which broker facts may enter the strategy's account: the snapshot read  *)
(* twice while the broker trades (broker/production_snapshot.py), the view *)
(* of the ledger that a today-only broker query can prove (reconciliation/ *)
(* live_view.py, authority_window.py), the preflight that explains every   *)
(* difference by the system's own fills (account_preflight.py), the sync   *)
(* of the account (strategy/account_sync.py) and the final comparison      *)
(* (reconciliation/service.py).                                            *)
(*                                                                         *)
(* One symbol, one BUY and one SELL order, filled share by share at Price, *)
(* without fees.  The broker forgets orders and fills over night, and      *)
(* shares bought today are not sellable (T+1).  How the prepared account   *)
(* gets to disk is module AccountCommit; here it is one step.              *)
(***************************************************************************)
EXTENDS Integers, Sequences, FiniteSets, FiniteSetsExt

CONSTANTS
    None,
    BuyShares, SellShares, Price, Tolerance, Cash0, Held0,
    MaxDay, MaxCaptures, MaxAttempts,   \* sessions, snapshots, and double reads of one
    MaxExternal                         \* things that happen at the broker without the system

ReconciliationAssumption ==
    /\ {BuyShares, SellShares, Price, MaxDay, MaxCaptures, MaxAttempts} \subseteq Nat \ {0}
    /\ {Tolerance, Cash0, Held0, MaxExternal} \subseteq Nat

VARIABLES
    day,
    broker,     \* cash, position, orders and fills, as its four queries answer
    ledger,     \* execution intent and mapped broker order of each order
    known,      \* fills of the ledger
    account,    \* uquant AccountState: cash, total, locked (bought on asOf), asOf, fills
    reads,      \* answers of the double read in progress
    attempt, captures,
    snapshot,   \* the snapshot to be reconciled, None before
    result,     \* blockers of the last reconciliation, and what the ledger knew when it ran
    reviewed,   \* reviewed_account_adjustments: <<snapshot, expected cash, observed cash>>
    external,   \* number of things done at the broker without the system
    between,    \* history: the broker as the second read begins, None before
    traded,     \* history: all fills of the system's orders
    missed      \* history: a night fell before ledger and account were up to date

ledgerVars == <<ledger, known>>
readVars == <<reads, attempt, captures, snapshot>>
history == <<between, traded, missed>>
vars == <<day, broker, ledgerVars, account, readVars, result, reviewed, external, history>>

Orders == {"buy", "sell"}
Shares == [buy |-> BuyShares, sell |-> SellShares]
Foreign == "foreign"
Queries == <<"cash", "position", "orders", "fills">>
Active == {"ACKNOWLEDGED", "PARTIALLY_FILLED"}
Terminal == {"FILLED", "CANCELLED"}
NoOrder == [state |-> "none", filled |-> 0]
NoResult == [blockers |-> {}, cash |-> <<0, 0>>, current |-> TRUE, whole |-> TRUE]

\* Shares and money a set of fills brings.
Bought(fills) == Cardinality({f \in fills : f[1] = "buy"})
Sold(fills) == Cardinality({f \in fills : f[1] = "sell"})
Net(fills) == Bought(fills) - Sold(fills)
Gap(a, b) == IF a > b THEN a - b ELSE b - a

Init ==
    /\ day = 1
    /\ broker = [cash |-> Cash0, position |-> [total |-> Held0, sellable |-> Held0],
                 orders |-> [o \in Orders \cup {Foreign} |-> NoOrder], fills |-> {}]
    /\ ledger = [o \in Orders |-> [state |-> "none", filled |-> 0, session |-> 0]]
    /\ known = {}
    /\ account = [cash |-> Cash0, total |-> Held0, locked |-> 0, asOf |-> 0, fills |-> {}]
    /\ reads = <<>> /\ attempt = 0 /\ captures = 0 /\ snapshot = None
    /\ result = NoResult /\ reviewed = {} /\ external = 0
    /\ between = None /\ traded = {} /\ missed = FALSE

-----------------------------------------------------------------------------
\* The broker.

Fill(o) ==
    /\ broker.orders[o].state \in Active
    /\ IF o = "buy" THEN broker.cash >= Price ELSE broker.position.sellable > 0
    /\ LET k == broker.orders[o].filled + 1
           sign == IF o = "buy" THEN 1 ELSE -1
       IN  /\ broker' = [broker EXCEPT
                  !.cash = @ - sign * Price,
                  !.position.total = @ + sign,
                  !.position.sellable = IF o = "buy" THEN @ ELSE @ - 1,
                  !.orders[o] = [state |-> IF k = Shares[o] THEN "FILLED" ELSE "PARTIALLY_FILLED", filled |-> k],
                  !.fills = @ \cup {<<o, k>>}]
           /\ traded' = traded \cup {<<o, k>>}
    /\ UNCHANGED <<day, ledgerVars, account, readVars, result, reviewed, external, between, missed>>

\* Cancelled on request or at the close.
EndOrder(o) ==
    /\ broker.orders[o].state \in Active
    /\ broker' = [broker EXCEPT !.orders[o].state = "CANCELLED"]
    /\ UNCHANGED <<day, ledgerVars, account, readVars, result, reviewed, external, history>>

\* Deposits, withdrawals and charges.
CashMoves(d) ==
    /\ external < MaxExternal /\ external' = external + 1
    /\ broker.cash + d >= 0
    /\ broker' = [broker EXCEPT !.cash = @ + d]
    /\ UNCHANGED <<day, ledgerVars, account, readVars, result, reviewed, history>>

TradeByHand ==
    /\ external < MaxExternal /\ external' = external + 1
    /\ broker.cash >= Price /\ broker.orders[Foreign] = NoOrder
    /\ broker' = [broker EXCEPT !.cash = @ - Price, !.position.total = @ + 1,
            !.orders[Foreign] = [state |-> "FILLED", filled |-> 1], !.fills = @ \cup {<<Foreign, 1>>}]
    /\ UNCHANGED <<day, ledgerVars, account, readVars, result, reviewed, history>>

\* The next session: its queries answer for that session only, and a corporate
\* action may have credited shares before it opens.
Overnight(credited) ==
    /\ day < MaxDay /\ reads = <<>> /\ snapshot = None
    /\ external + credited <= MaxExternal /\ external' = external + credited
    /\ day' = day + 1
    /\ LET held == broker.position.total + credited
       IN  broker' = [broker EXCEPT !.position = [total |-> held, sellable |-> held],
                          !.orders = [o \in DOMAIN @ |-> NoOrder], !.fills = {}]
    /\ missed' = (missed \/ ~(traded \subseteq account.fills)
                    \/ \E o \in Orders : ledger[o].state \notin Terminal \cup {"none"})
    /\ UNCHANGED <<ledgerVars, account, readVars, result, reviewed, between, traded>>

-----------------------------------------------------------------------------
\* The execution ledger, as OrderLedger has it: between two steps of the
\* reconciliation nothing is ingested, both are the writer's.
Idle == reads = <<>> /\ snapshot = None

Place(o, lost) ==
    /\ Idle /\ ledger[o].state = "none"
    /\ broker' = [broker EXCEPT !.orders[o].state = "ACKNOWLEDGED"]
    /\ ledger' = [ledger EXCEPT ![o] =
           [state |-> IF lost THEN "UNKNOWN" ELSE "ACKNOWLEDGED", filled |-> 0, session |-> day]]
    /\ UNCHANGED <<day, known, account, readVars, result, reviewed, external, history>>

\* reconcile_broker_fact.
Ingest(o) ==
    /\ Idle /\ broker.orders[o].state # "none" /\ ledger[o].state \notin Terminal
    /\ ledger' = [ledger EXCEPT ![o].state = broker.orders[o].state, ![o].filled = broker.orders[o].filled]
    /\ known' = known \cup {f \in broker.fills : f[1] = o}
    /\ ledgerVars' # ledgerVars
    /\ UNCHANGED <<day, broker, account, readVars, result, reviewed, external, history>>

-----------------------------------------------------------------------------
\* ProductionSnapshotCollector.capture.

BeginCapture ==
    /\ Idle /\ captures < MaxCaptures
    /\ reads' = <<broker.cash>> /\ attempt' = 1
    /\ captures' = captures + 1 /\ result' = NoResult
    /\ UNCHANGED <<day, broker, ledgerVars, account, snapshot, reviewed, external, history>>

Read ==
    /\ reads # <<>> /\ Len(reads) < 8
    /\ reads' = Append(reads, broker[Queries[(Len(reads) % 4) + 1]])
    /\ between' = IF Len(reads) = 4 THEN broker ELSE between
    /\ UNCHANGED <<day, broker, ledgerVars, account, attempt, captures, snapshot, result, reviewed,
                   external, traded, missed>>

\* _quantity_signature of both reads.
Stable == \A i \in 1..4 : reads[i] = reads[i + 4]

\* captured_at is part of the snapshot's hash: no two snapshots are the same.
EndCapture ==
    /\ Len(reads) = 8
    /\ \/ /\ Stable
          /\ snapshot' = [id |-> captures, cash |-> reads[5], position |-> reads[6],
                          orders |-> reads[7], fills |-> reads[8]]
          /\ reads' = <<>> /\ attempt' = 0
          /\ UNCHANGED between
       \/ /\ ~Stable /\ attempt < MaxAttempts
          /\ reads' = <<broker.cash>> /\ attempt' = attempt + 1
          /\ between' = None
          /\ UNCHANGED snapshot
       \/ /\ ~Stable /\ attempt = MaxAttempts
          /\ reads' = <<>> /\ attempt' = 0 /\ between' = None
          /\ UNCHANGED snapshot
    /\ UNCHANGED <<day, broker, ledgerVars, account, captures, result, reviewed, external, traded, missed>>

-----------------------------------------------------------------------------
\* build_operational_ledger_view.

CrossSession == {"UNKNOWN"} \cup Active

OrderInWindow(o) == ledger[o].session = day \/ ledger[o].state \in CrossSession

\* Mutant: fills of earlier sessions are expected at the broker too.
FillInWindow_All(f) == TRUE
FillInWindow(f) == ledger[f[1]].session = day

Mapped(o) == o \in Orders /\ ledger[o].state \notin {"none", "UNKNOWN"} /\ OrderInWindow(o)
KnownFills == {f \in known : FillInWindow(f)}
Listed == {o \in Orders \cup {Foreign} : snapshot.orders[o].state # "none"}

\* evaluate_account_preflight.
Explained == {f \in snapshot.fills : Mapped(f[1]) /\ f[1] \in Listed /\ f \in KnownFills}
New == Explained \ account.fills
Sellable == account.total - (IF account.asOf = day THEN account.locked ELSE 0)
ExpectedCash == account.cash - Price * Net(New)
Expected == [total |-> account.total + Net(New), sellable |-> Sellable - Sold(New)]

\* What blocks, by name.
PreflightBlocks(b) ==
    CASE b = "EXTERNAL_BROKER_ORDER" -> \E o \in Listed : ~Mapped(o)
      [] b = "UNMAPPED_BROKER_FILL" -> snapshot.fills # Explained
      [] b = "SYSTEM_FILL_CONTRADICTS_ACCOUNT_STATE" -> ExpectedCash < 0 \/ Sold(New) > Sellable
      [] b = "UNEXPLAINED_CASH_CHANGE" ->
             /\ ExpectedCash >= 0 /\ Gap(snapshot.cash, ExpectedCash) > Tolerance
             /\ <<snapshot.id, ExpectedCash, snapshot.cash>> \notin reviewed
      [] b = "UNEXPLAINED_POSITION_CHANGE" -> snapshot.position # Expected

\* Mutant: a position that changed is left to the final comparison.
Preflight_Cash ==
    {b \in {"EXTERNAL_BROKER_ORDER", "UNMAPPED_BROKER_FILL", "UNEXPLAINED_CASH_CHANGE"} : PreflightBlocks(b)}
Preflight ==
    {b \in {"EXTERNAL_BROKER_ORDER", "UNMAPPED_BROKER_FILL", "SYSTEM_FILL_CONTRADICTS_ACCOUNT_STATE",
            "UNEXPLAINED_CASH_CHANGE", "UNEXPLAINED_POSITION_CHANGE"} : PreflightBlocks(b)}

\* sync_account: uquant takes over cash and positions and imports the fills.
Prepared ==
    [cash |-> snapshot.cash, total |-> snapshot.position.total,
     locked |-> snapshot.position.total - snapshot.position.sellable, asOf |-> day,
     fills |-> account.fills \cup snapshot.fills]

\* Fills that exceed the order's own count are refused.
SyncRefuses(o) == Cardinality({f \in snapshot.fills : f[1] = o}) > snapshot.orders[o].filled

\* ReconciliationService.evaluate of the prepared account; its cash and shares
\* are the snapshot's, and what it expects to be sellable is the broker's figure.
OrderDiffers(o) ==
    \/ snapshot.orders[o].filled # ledger[o].filled
    \/ ledger[o].state \in Terminal /\ snapshot.orders[o].state # ledger[o].state
    \/ ledger[o].state \notin Terminal /\ snapshot.orders[o].state \notin Active
FinalBlocks(b) ==
    CASE b = "ORDER_STATE_MISMATCH" -> \E o \in Listed : Mapped(o) /\ OrderDiffers(o)
      [] b = "SYSTEM_ORDER_MISSING_AT_BROKER" -> \E o \in Orders : Mapped(o) /\ o \notin Listed
      [] b = "STRATEGY_SYNC_ERROR" -> \E o \in Listed : SyncRefuses(o)
      [] b = "LOCAL_FILL_MISSING_AT_BROKER" -> ~(KnownFills \subseteq snapshot.fills)
      [] b = "UNRESOLVED_LOCAL_ORDER" -> \E o \in Orders : ledger[o].state = "UNKNOWN"
Final ==
    {b \in {"ORDER_STATE_MISMATCH", "SYSTEM_ORDER_MISSING_AT_BROKER", "LOCAL_FILL_MISSING_AT_BROKER",
            "UNRESOLVED_LOCAL_ORDER", "STRATEGY_SYNC_ERROR"} : FinalBlocks(b)}

\* The ledger knows of every order what the snapshot says.
LedgerCurrent ==
    /\ \A o \in Orders \cap Listed : ledger[o].state = snapshot.orders[o].state
                                     /\ ledger[o].filled = snapshot.orders[o].filled
    /\ \A o \in Orders : ledger[o].state # "UNKNOWN"

\* Every order has ended and every fill is in the ledger.
LedgerWhole ==
    /\ traded \subseteq known
    /\ \A o \in Orders : ledger[o].state \in Terminal \cup {"none"}

\* AccountReconciliationCoordinator.reconcile: adopt all, or nothing.
Reconcile ==
    /\ snapshot # None
    /\ LET blockers == IF Preflight # {} THEN Preflight ELSE Final
       IN  /\ result' = [blockers |-> blockers, cash |-> <<ExpectedCash, snapshot.cash>>,
                         current |-> LedgerCurrent, whole |-> LedgerWhole]
           /\ account' = IF blockers = {} THEN Prepared ELSE account
    /\ snapshot' = None /\ between' = None
    /\ UNCHANGED <<day, broker, ledgerVars, reads, attempt, captures, reviewed, external, traded, missed>>

\* ReviewedAccountAdjustmentRepository.append: the operator reviews the cash
\* difference of the snapshot that was just refused.
Review ==
    /\ Idle /\ result.blockers = {"UNEXPLAINED_CASH_CHANGE"}
    /\ reviewed' = reviewed \cup {<<captures>> \o result.cash}
    /\ reviewed' # reviewed
    /\ UNCHANGED <<day, broker, ledgerVars, account, readVars, result, external, history>>

\* The process dies between reading and adopting.
Crash ==
    /\ ~Idle
    /\ reads' = <<>> /\ attempt' = 0 /\ snapshot' = None /\ between' = None
    /\ UNCHANGED <<day, broker, ledgerVars, account, captures, result, reviewed, external, traded, missed>>

Next ==
    \/ \E o \in Orders : Fill(o) \/ EndOrder(o) \/ Ingest(o)
    \/ \E o \in Orders, lost \in BOOLEAN : Place(o, lost)
    \/ \E d \in {-1, 3} : CashMoves(d)
    \/ \E credited \in 0..1 : Overnight(credited)
    \/ TradeByHand
    \/ BeginCapture \/ Read \/ EndCapture \/ Reconcile \/ Review \/ Crash

Spec == Init /\ [][Next]_vars

-----------------------------------------------------------------------------
\* Types of the facts and of the account (domain/broker_facts.py and the checks
\* of account_preflight.py): nothing negative, nothing sellable that is not held.
TypeOK ==
    /\ day \in 1..MaxDay /\ external \in 0..MaxExternal /\ captures \in 0..MaxCaptures
    /\ broker.cash \in Nat /\ broker.position.sellable \in 0..broker.position.total
    /\ account.cash \in Nat /\ account.locked \in 0..account.total
    /\ account.fills \subseteq traded /\ known \subseteq traded
    /\ \A o \in Orders : ledger[o].filled \in 0..Shares[o]
    /\ Len(reads) \in 0..8 /\ attempt \in 0..MaxAttempts

\* Four queries, one after the other, twice, while the broker goes on trading: a
\* snapshot that is accepted is the state the broker was in at one moment, the one
\* at which the second read begins (production_snapshot.py, capture).
SnapshotIsConsistent ==
    snapshot # None => \A f \in {"cash", "position", "orders", "fills"} : snapshot[f] = between[f]

\* What the account holds is what it began with and the system's own fills, each
\* counted once; cash may differ by the tolerance of each reconciliation
\* (account_preflight.py: only owned and ingested fills explain a difference).
AdoptsOnlyOwnFills ==
    /\ account.total = Held0 + Net(account.fills)
    /\ Gap(account.cash, Cash0 - Price * Net(account.fills)) <= Tolerance * captures

\* Both: what is adopted was true of the broker at one moment and is the system's own doing
\* (production_snapshot.py, account_preflight.py, account_sync.py).
AccountIsExact == TypeOK /\ SnapshotIsConsistent /\ AdoptsOnlyOwnFills

\* When nothing happened at the broker without the system, the ledger had caught
\* up, and every earlier session was reconciled to its end, reconciliation passes:
\* no history makes the rules contradict each other (reconciliation/).
QuietDayPasses ==
    external = 0 /\ ~missed /\ result.current => result.blockers = {}

\* A difference is never called unexplained when the ledger holds the fills that
\* explain it (docs/RECOVERY.md: the facts are kept and the next sync adopts them).
OwnFillExplains ==
    external = 0 /\ result.whole => "UNEXPLAINED_POSITION_CHANGE" \notin result.blockers

\* A cash difference that was reviewed is adopted by the next reconciliation
\* (account_preflight.py: exact reviewed cash differences may be adopted).
ReviewedCashIsAdopted ==
    \A r \in reviewed : snapshot # None /\ r[2] = ExpectedCash /\ r[3] = snapshot.cash
                            => "UNEXPLAINED_CASH_CHANGE" \notin Preflight
=============================================================================
